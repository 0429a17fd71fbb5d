------------------------- MODULE FuseAdaptorProofs -------------------------
(***************************************************************************)
(* Theorems about FuseAdaptor, for every tree, every length of the pieces  *)
(* and any number of open files: no request ends the process, the slots    *)
(* and the caches are in order, and every answer is what the tree says.    *)
(***************************************************************************)
EXTENDS FuseAdaptor, DogboxLemmas, FiniteSetTheorems

-----------------------------------------------------------------------------
(* Paths in the blobs of a tree (operations.cpp:52 to 97). *)

\* The directories of a tree are stored as these digests.
StoredAs(rows, digest, tree, digests) ==
  /\ digests \in [Directories(tree) -> DOMAIN rows]
  /\ digests[<<>>] = digest
  /\ \A up \in Directories(tree) : rows[digests[up]] = BlobOf(tree, digests, up)

\* The entry for the node at a path, if there is one.
EntriesAt(tree, digests, path, name) ==
  {EntryOf(tree, digests, p, name) : p \in DOMAIN tree \cap {path}}

\* What is found by a path.
FoundAt(tree, digests, path) == {FoundEntry(entry) : entry \in EntriesAt(tree, digests, path, "")}

LEMMA SequenceShape ==
  ASSUME NEW s, IsSequence(s)
  PROVE  Len(s) \in Nat /\ DOMAIN s = 1 .. Len(s) /\ \E S : s \in Seq(S)
  BY DEF IsSequence

FoundDirectory(digest) ==
  [type |-> "directory", hash_code |-> digest, regular_file_size |-> 0]
FoundFile(content) ==
  [type |-> "regular_file", hash_code |-> Sha256(FileIndex(content)),
   regular_file_size |-> Len(content)]

LEMMA FoundNode ==
  ASSUME NEW tree, NEW digests, NEW path
  PROVE  /\ path \in Directories(tree) => FoundAt(tree, digests, path) = {FoundDirectory(digests[path])}
         /\ path \in RegularFiles(tree) => FoundAt(tree, digests, path) = {FoundFile(tree[path].content)}
         /\ path \notin DOMAIN tree => FoundAt(tree, digests, path) = {}
  <1>1. path \in DOMAIN tree => FoundAt(tree, digests, path) = {FoundEntry(EntryOf(tree, digests, path, ""))}
    BY DEF FoundAt, EntriesAt
  <1>2. ASSUME path \in Directories(tree)
        PROVE  FoundAt(tree, digests, path) = {FoundDirectory(digests[path])}
    <2>1. path \in DOMAIN tree /\ path \notin RegularFiles(tree)
      BY <1>2 DEF Directories, RegularFiles
    <2>2. EntryOf(tree, digests, path, "") =
            [kind |-> "entry", type |-> "directory", name |-> "", hash_code |-> digests[path], size |-> 0]
      BY <2>1 DEF EntryOf, DirectoryEntry
    <2>3. PICK entry : entry = EntryOf(tree, digests, path, "")
      OBVIOUS
    <2>4. entry.type = "directory" /\ entry.hash_code = digests[path] /\ entry.size = 0
      <3>1. entry = [kind |-> "entry", type |-> "directory", name |-> "", hash_code |-> digests[path], size |-> 0]
        BY <2>2, <2>3
      <3>2. entry.type = "directory"
        BY <3>1
      <3>3. entry.hash_code = digests[path]
        BY <3>1
      <3>4. entry.size = 0
        BY <3>1
      <3> QED
        BY <3>2, <3>3, <3>4
    <2>5. FoundEntry(entry) = FoundDirectory(digests[path])
      BY <2>4 DEF FoundEntry, FoundDirectory
    <2> QED
      BY <1>1, <2>1, <2>3, <2>5
  <1>3. ASSUME path \in RegularFiles(tree)
        PROVE  FoundAt(tree, digests, path) = {FoundFile(tree[path].content)}
    <2>1. path \in DOMAIN tree
      BY <1>3 DEF RegularFiles
    <2>2. PICK content : content = tree[path].content
      OBVIOUS
    <2>3. EntryOf(tree, digests, path, "") =
            [kind |-> "entry", type |-> "regular_file", name |-> "",
             hash_code |-> Sha256(FileIndex(content)), size |-> Len(content)]
      BY <1>3, <2>2 DEF EntryOf, DirectoryEntry
    <2>4. PICK entry : entry = EntryOf(tree, digests, path, "")
      OBVIOUS
    <2>5. /\ entry.type = "regular_file" /\ entry.hash_code = Sha256(FileIndex(content))
          /\ entry.size = Len(content)
      <3>1. entry = [kind |-> "entry", type |-> "regular_file", name |-> "",
                     hash_code |-> Sha256(FileIndex(content)), size |-> Len(content)]
        BY <2>3, <2>4
      <3>2. entry.type = "regular_file"
        BY <3>1
      <3>3. entry.hash_code = Sha256(FileIndex(content))
        BY <3>1
      <3>4. entry.size = Len(content)
        BY <3>1
      <3> QED
        BY <3>2, <3>3, <3>4
    <2>6. FoundEntry(entry) = FoundFile(content)
      BY <2>5 DEF FoundEntry, FoundFile
    <2> QED
      BY <1>1, <2>1, <2>2, <2>4, <2>6
  <1>4. path \notin DOMAIN tree => FoundAt(tree, digests, path) = {}
    BY DEF FoundAt, EntriesAt
  <1> QED
    BY <1>2, <1>3, <1>4

LEMMA FoundRoot ==
  ASSUME NEW rows, NEW digest, NEW tree, NEW digests, IsTree(tree),
         StoredAs(rows, digest, tree, digests)
  PROVE  FoundAt(tree, digests, <<>>) = {RootEntry(digest)}
  <1>1. <<>> \in Directories(tree) /\ digests[<<>>] = digest
    BY DEF IsTree, StoredAs
  <1>2. FoundDirectory(digest) = RootEntry(digest)
    BY DEF FoundDirectory, RootEntry
  <1> QED
    BY <1>1, <1>2, FoundNode

\* A node below the root is named by the directory it is in.
LEMMA NodeBelow ==
  ASSUME NEW tree, IsTree(tree), NEW S, NEW up \in Seq(S), NEW name \in S,
         Append(up, name) \in DOMAIN tree
  PROVE  up \in Directories(tree) /\ \E i \in DOMAIN tree[up].names : tree[up].names[i] = name
  <1>1. Append(up, name) # <<>>
    BY AppendProperties
  <1>2. PICK above \in Directories(tree) : \E i \in DOMAIN tree[above].names :
               Append(up, name) = Append(above, tree[above].names[i])
    BY <1>1 DEF IsTree
  <1>3. PICK i \in DOMAIN tree[above].names :
               Append(up, name) = Append(above, tree[above].names[i])
    BY <1>2
  <1>4. PICK T : above \in Seq(T)
    BY <1>2 DEF IsTree, IsSequence
  <1>5. PICK other : other = tree[above].names[i]
    OBVIOUS
  <1>6. above \in Seq(S \cup T \cup {other}) /\ up \in Seq(S \cup T \cup {other})
    BY <1>4
  <1>7. above = up /\ other = name
    BY <1>3, <1>5, <1>6, AppendInjective
  <1> QED
    BY <1>2, <1>5, <1>7

\* The first entry with a name is the only one.
LEMMA OnlyEntry ==
  ASSUME NEW tree, NEW digests, IsTree(tree), NEW up \in Directories(tree), NEW name
  PROVE  FindEntry(BlobOf(tree, digests, up), name) =
           EntriesAt(tree, digests, Append(up, name), name)
  <1> DEFINE names == tree[up].names
             blob == BlobOf(tree, digests, up)
  <1>1. PICK S : up \in Seq(S)
    BY DEF IsTree, IsSequence
  <1>2. PICK n \in Nat : n = Len(names) /\ DOMAIN names = 1 .. n
    <2>1. IsSequence(names)
      BY DEF IsTree
    <2> QED
      BY <2>1, SequenceShape
  <1>3. /\ \A i, j \in DOMAIN names : names[i] = names[j] => i = j
        /\ \A i \in DOMAIN names : Append(up, names[i]) \in DOMAIN tree
    BY DEF IsTree
  <1>4. /\ DOMAIN blob = DOMAIN names
        /\ \A i \in DOMAIN names : blob[i] = EntryOf(tree, digests, Append(up, names[i]), names[i])
    BY DEF BlobOf
  <1>5. \A path, label : EntryOf(tree, digests, path, label).name = label
    BY DEF EntryOf, DirectoryEntry
  <1> HIDE DEF blob, names
  <1>6. {i \in DOMAIN blob : blob[i].name = name} = {i \in DOMAIN names : names[i] = name}
    BY <1>4, <1>5
  <1>7. CASE \E i \in DOMAIN names : names[i] = name
    <2>1. PICK i \in DOMAIN names : names[i] = name
      BY <1>7
    <2>2. {j \in DOMAIN blob : blob[j].name = name} = {i} /\ i <= i
      BY <1>2, <1>3, <1>6, <2>1
    <2>3. FindEntry(blob, name) = {blob[i]}
      BY <2>2 DEF FindEntry
    <2>4. Append(up, name) \in DOMAIN tree /\ blob[i] = EntryOf(tree, digests, Append(up, name), name)
      BY <1>3, <1>4, <2>1
    <2> QED
      BY <2>3, <2>4 DEF blob, EntriesAt
  <1>8. CASE ~ \E i \in DOMAIN names : names[i] = name
    <2>1. FindEntry(blob, name) = {}
      BY <1>6, <1>8 DEF FindEntry
    <2>2. Append(up, name) \notin DOMAIN tree
      <3>1. up \in Seq(S \cup {name})
        BY <1>1
      <3> QED
        BY <1>8, <3>1, NodeBelow DEF names
    <2> QED
      BY <2>1, <2>2 DEF blob, EntriesAt
  <1> QED
    BY <1>7, <1>8

\* One more name.
LEMMA FoundOneMore ==
  ASSUME NEW rows, NEW digest, NEW tree, NEW digests, IsTree(tree),
         StoredAs(rows, digest, tree, digests),
         NEW S, NEW up \in Seq(S), NEW name \in S
  PROVE  FoundBelow(rows, FoundAt(tree, digests, up), name) =
           FoundAt(tree, digests, Append(up, name))
  <1>1. CASE up \notin DOMAIN tree
    <2>1. Append(up, name) \notin DOMAIN tree
      BY <1>1, NodeBelow DEF Directories
    <2> QED
      BY <1>1, <2>1 DEF FoundAt, EntriesAt, FoundBelow
  <1>2. CASE up \in RegularFiles(tree)
    <2>1. up \in DOMAIN tree /\ up \notin Directories(tree)
      BY <1>2 DEF RegularFiles, Directories
    <2>2. Append(up, name) \notin DOMAIN tree
      BY <2>1, NodeBelow
    <2>3. PICK above : above = FoundFile(tree[up].content)
      OBVIOUS
    <2>4. FoundAt(tree, digests, up) = {above} /\ FoundAt(tree, digests, Append(up, name)) = {}
      BY <1>2, <2>2, <2>3, FoundNode
    <2>5. above.type = "regular_file"
      BY <2>3 DEF FoundFile
    <2>6. FoundBelow(rows, {above}, name) = {}
      BY <2>5 DEF FoundBelow, Below
    <2> QED
      BY <2>4, <2>6
  <1>3. CASE up \in Directories(tree)
    <2>1. up \in DOMAIN tree /\ up \notin RegularFiles(tree)
      BY <1>3 DEF RegularFiles, Directories
    <2>2. PICK above : above = FoundDirectory(digests[up])
      OBVIOUS
    <2>3. /\ FoundAt(tree, digests, up) = {above}
          /\ above.type = "directory" /\ above.hash_code = digests[up]
      BY <1>3, <2>2, FoundNode DEF FoundDirectory
    <2>4. digests[up] \in DOMAIN rows /\ rows[digests[up]] = BlobOf(tree, digests, up)
      BY <1>3 DEF StoredAs
    <2>5. Below(rows, above, name) =
            {FoundEntry(entry) : entry \in FindEntry(BlobOf(tree, digests, up), name)}
      BY <2>3, <2>4 DEF Below, Stored
    <2>6. FoundBelow(rows, {above}, name) = Below(rows, above, name)
      BY DEF FoundBelow
    <2>7. \A path : FoundEntry(EntryOf(tree, digests, path, name)) = FoundEntry(EntryOf(tree, digests, path, ""))
      BY DEF EntryOf, DirectoryEntry, FoundEntry
    <2>8. FindEntry(BlobOf(tree, digests, up), name) =
           EntriesAt(tree, digests, Append(up, name), name)
      BY <1>3, OnlyEntry
    <2>9. {FoundEntry(entry) : entry \in EntriesAt(tree, digests, Append(up, name), name)} =
            FoundAt(tree, digests, Append(up, name))
      BY <2>7 DEF FoundAt, EntriesAt
    <2> QED
      BY <2>3, <2>5, <2>6, <2>8, <2>9
  <1> QED
    BY <1>1, <1>2, <1>3 DEF IsTree

\* Looking up a path in the blobs finds what the tree has there.
LEMMA ResolvedNode ==
  ASSUME NEW rows, NEW digest, NEW tree, NEW digests, IsTree(tree),
         StoredAs(rows, digest, tree, digests), NEW path, IsSequence(path)
  PROVE  ResolvePath(rows, digest, path) = FoundAt(tree, digests, path)
  <1>1. PICK n, S : n \in Nat /\ n = Len(path) /\ path \in Seq(S) /\ DOMAIN path = 1 .. n
    BY DEF IsSequence
  <1>2. PICK found : /\ found[0] = {RootEntry(digest)}
                     /\ \A i \in 1 .. n : found[i] = FoundBelow(rows, found[i - 1], path[i])
                     /\ ResolvePath(rows, digest, path) = found[n]
    <2>1. PICK found : /\ Follows(found, rows, digest, path, Len(path))
                       /\ ResolvePath(rows, digest, path) = found[Len(path)]
      BY <1>1, ResolvedPath
    <2> QED
      BY <1>1, <2>1 DEF Follows
  <1> DEFINE prefix(i) == SubSeq(path, 1, i)
             Bad == {i \in 0 .. n : found[i] # FoundAt(tree, digests, prefix(i))}
  <1>3. Bad = {}
    <2> SUFFICES ASSUME Bad # {} PROVE FALSE
      OBVIOUS
    <2>1. PICK i \in Bad : \A j \in Bad : i <= j
      <3>1. Bad \subseteq Nat
        OBVIOUS
      <3> HIDE DEF Bad
      <3> QED
        BY <3>1, LeastNumber
    <2>2. i \in 0 .. n /\ found[i] # FoundAt(tree, digests, prefix(i))
      OBVIOUS
    <2>3. i # 0
      <3>1. prefix(0) = <<>>
        BY SubSeqEmpty
      <3> HIDE DEF prefix
      <3> QED
        BY <1>2, <2>2, <3>1, FoundRoot, ZenonT(40)
    <2>4. i \in 1 .. n /\ i - 1 \in 0 .. n /\ ~ (i <= i - 1)
      BY <1>1, <2>2, <2>3
    <2>5. found[i - 1] = FoundAt(tree, digests, prefix(i - 1))
      BY <2>1, <2>4
    <2>6. prefix(i - 1) \in Seq(S) /\ path[i] \in S /\ prefix(i) = Append(prefix(i - 1), path[i])
      <3>1. prefix(i - 1) \in Seq(S) /\ path[i] \in S
        BY <1>1, <2>4
      <3>2. prefix(i) = prefix(i - 1) \o <<path[i]>>
        BY <1>1, <2>4, SubSeqRecursiveSecond
      <3> HIDE DEF prefix
      <3> QED
        BY <3>1, <3>2, AppendIsConcat
    <2> HIDE DEF prefix, Bad
    <2>7. FoundBelow(rows, FoundAt(tree, digests, prefix(i - 1)), path[i]) = FoundAt(tree, digests, prefix(i))
      BY <2>6, FoundOneMore
    <2> QED
      BY <1>2, <2>2, <2>4, <2>5, <2>7
  <1>4. n \in 0 .. n /\ prefix(n) = path
    BY <1>1, SubSeqFull
  <1> QED
    BY <1>2, <1>3, <1>4

-----------------------------------------------------------------------------
(***************************************************************************)
(* The invariant.  Every open file of the kernel has a slot of its own,    *)
(* with the digest and the size of the file at its path; the index and the *)
(* piece in it, if any, are of that file.  A read that runs has copied     *)
(* what is between its offset and its cursor.                              *)
(***************************************************************************)

IndexOf(rows, content) == LoadIndex(rows, Len(content), Sha256(FileIndex(content)))

OpenFile(rows, content) ==
  [file_size : {Len(content)}, hash_code : {Sha256(FileIndex(content))},
   index : {{}, {IndexOf(rows, content)}}, cached_piece : SUBSET PiecesOf(content),
   read_cache : Seq(Byte)]

CacheOK(mode, opened, content) ==
  \A piece \in opened.cached_piece :
    /\ opened.cached_piece = {piece}
    /\ opened.index # {}
    /\ mode = "one_piece"
    /\ opened.read_cache = PieceOf(content, piece)

SlotOK(rows, tree, mode, slots, o) ==
  /\ o.path \in RegularFiles(tree)
  /\ o.fh + 1 \in DOMAIN slots
  /\ slots[o.fh + 1] # {}
  /\ \A opened \in slots[o.fh + 1] :
       /\ slots[o.fh + 1] = {opened}
       /\ opened \in OpenFile(rows, tree[o.path].content)
       /\ CacheOK(mode, opened, tree[o.path].content)

HandlesOK(held) ==
  /\ held \in [Handle -> SUBSET [path : Path, fh : Nat]]
  /\ \A h \in Handle : \A o \in held[h] : held[h] = {o}
  /\ \A h, g \in Handle : \A o \in held[h], p \in held[g] : o.fh = p.fh => h = g

SlotsOK(rows, tree, mode, slots, held) ==
  /\ IsSequence(slots)
  /\ Len(slots) <= Cardinality(Handle)
  /\ \A h \in Handle : \A o \in held[h] : SlotOK(rows, tree, mode, slots, o)
  /\ \A i \in DOMAIN slots : slots[i] # {} => \E h \in Handle : \E o \in held[h] : i = o.fh + 1

Call == [handle : Handle, fh : Nat, offset : Nat, size : Nat, read_cursor : Nat,
         remaining_size : Nat, copied : Seq(Byte)]

Progress(r, content) ==
  /\ r.offset <= r.read_cursor
  /\ r.read_cursor <= Len(content)
  /\ r.read_cursor + r.remaining_size = r.offset + r.size
  /\ r.copied = SubSeq(content, r.offset + 1, r.read_cursor)

ReadOK(tree, slots, held, r) ==
  /\ r \in Call
  /\ \E o \in held[r.handle] :
       /\ o.fh = r.fh
       /\ \A opened \in slots[r.fh + 1] : opened.index # {}
       /\ Progress(r, tree[o.path].content)

\* The database is one of the tree that is served.
Mounted == IsTree(source) /\ Holds(table, root, source)

AdaptorInv ==
  /\ Mounted
  /\ read_cache_mode \in {"none", "one_piece"}
  /\ HandlesOK(handles)
  /\ SlotsOK(table, source, read_cache_mode, files, handles)
  /\ \A r \in reading : reading = {r} /\ ReadOK(source, files, handles, r)
  /\ terminated = FALSE

\* The attributes of a node are those of its entry (operations.cpp:100 to 124).
LEMMA AttributesFound ==
  ASSUME NEW tree, NEW digests, IsTree(tree), NEW path \in DOMAIN tree, NEW name
  PROVE  Stat(FoundEntry(EntryOf(tree, digests, path, name))) = Fs!AttributesOf(tree[path])
  <1>1. PICK entry, node : entry = EntryOf(tree, digests, path, name) /\ node = tree[path]
    OBVIOUS
  <1>2. CASE path \in RegularFiles(tree)
    <2>1. entry = [kind |-> "entry", type |-> "regular_file", name |-> name,
                   hash_code |-> Sha256(FileIndex(node.content)), size |-> Len(node.content)]
      BY <1>1, <1>2 DEF EntryOf, DirectoryEntry
    <2>2. entry.type = "regular_file"
      BY <2>1
    <2>3. entry.size = Len(node.content)
      BY <2>1
    <2>4. FoundEntry(entry).type = "regular_file" /\ FoundEntry(entry).regular_file_size = Len(node.content)
      BY <2>2, <2>3 DEF FoundEntry
    <2>5. node.type = "regular_file"
      BY <1>1, <1>2 DEF RegularFiles
    <2> QED
      BY <1>1, <2>4, <2>5 DEF Stat, Fs!AttributesOf
  <1>3. CASE path \in Directories(tree)
    <2>1. path \notin RegularFiles(tree) /\ node.type = "directory"
      BY <1>1, <1>3 DEF Directories, RegularFiles
    <2>2. entry = [kind |-> "entry", type |-> "directory", name |-> name,
                   hash_code |-> digests[path], size |-> 0]
      BY <1>1, <2>1 DEF EntryOf, DirectoryEntry
    <2>3. entry.type = "directory"
      BY <2>2
    <2>4. FoundEntry(entry).type = "directory"
      BY <2>3 DEF FoundEntry
    <2> QED
      BY <1>1, <2>1, <2>4 DEF Stat, Fs!AttributesOf
  <1> QED
    BY <1>2, <1>3 DEF IsTree

\* A directory is listed as it is (operations.cpp:127 to 177).
LEMMA ListingFound ==
  ASSUME NEW tree, NEW digests, IsTree(tree), NEW up \in Directories(tree)
  PROVE  Listing(BlobOf(tree, digests, up)) =
           [i \in DOMAIN tree[up].names |->
              [name |-> tree[up].names[i],
               stat |-> Fs!AttributesOf(tree[Append(up, tree[up].names[i])])]]
  <1>1. PICK names : names = tree[up].names
    OBVIOUS
  <1>2. PICK blob : blob = BlobOf(tree, digests, up)
    OBVIOUS
  <1>3. DOMAIN blob = DOMAIN names
    BY <1>1, <1>2 DEF BlobOf
  <1>4. ASSUME NEW i \in DOMAIN names
        PROVE  [name |-> blob[i].name, stat |-> Stat(FoundEntry(blob[i]))] =
               [name |-> names[i], stat |-> Fs!AttributesOf(tree[Append(up, names[i])])]
    <2>1. PICK path : path = Append(up, names[i])
      OBVIOUS
    <2>2. blob[i] = EntryOf(tree, digests, path, names[i])
      BY <1>1, <1>2, <2>1 DEF BlobOf
    <2>3. path \in DOMAIN tree
      BY <1>1, <2>1 DEF IsTree
    <2>4. Stat(FoundEntry(blob[i])) = Fs!AttributesOf(tree[path])
      BY <2>2, <2>3, AttributesFound
    <2>5. blob[i].name = names[i]
      BY <2>2 DEF EntryOf, DirectoryEntry
    <2> QED
      BY <2>1, <2>4, <2>5
  <1> QED
    BY <1>1, <1>2, <1>3, <1>4 DEF Listing

\* What is found by a path, and what is loaded for it, is what the tree says.
LEMMA LookedUp ==
  ASSUME Mounted, NEW path \in Path
  PROVE  /\ path \in RegularFiles(source) => Resolved(path) = {FoundFile(source[path].content)}
         /\ path \in Directories(source) =>
              \E digest \in DOMAIN table :
                /\ Resolved(path) = {FoundDirectory(digest)}
                /\ Listing(table[digest]) = Fs!ListingOf(path, source[path])
         /\ path \notin DOMAIN source => Resolved(path) = {}
         /\ {Stat(entry) : entry \in Resolved(path)} = {Fs!AttributesOf(node) : node \in Fs!Node(path)}
  <1>1. PICK tree : tree = source
    OBVIOUS
  <1>2. IsTree(tree) /\ Holds(table, root, tree)
    BY <1>1 DEF Mounted
  <1>3. PICK digests : StoredAs(table, root, tree, digests)
    BY <1>2 DEF Holds, StoredAs
  <1>4. IsSequence(path)
    BY KernelAssumption
  <1>5. Resolved(path) = FoundAt(tree, digests, path)
    BY <1>2, <1>3, <1>4, ResolvedNode DEF Resolved
  <1>6. ASSUME path \in Directories(tree)
        PROVE  \E digest \in DOMAIN table :
                 /\ Resolved(path) = {FoundDirectory(digest)}
                 /\ Listing(table[digest]) = Fs!ListingOf(path, tree[path])
    <2>1. digests[path] \in DOMAIN table /\ table[digests[path]] = BlobOf(tree, digests, path)
      BY <1>3, <1>6 DEF StoredAs
    <2>2. Resolved(path) = {FoundDirectory(digests[path])}
      BY <1>5, <1>6, FoundNode
    <2>3. Listing(table[digests[path]]) = Fs!ListingOf(path, tree[path])
      <3>1. Listing(BlobOf(tree, digests, path)) =
              [i \in DOMAIN tree[path].names |->
                 [name |-> tree[path].names[i],
                  stat |-> Fs!AttributesOf(tree[Append(path, tree[path].names[i])])]]
        BY <1>2, <1>6, ListingFound
      <3> QED
        BY <1>1, <2>1, <3>1 DEF Fs!ListingOf
    <2> QED
      BY <2>1, <2>2, <2>3
  <1>7. {Stat(entry) : entry \in FoundAt(tree, digests, path)} =
        {Fs!AttributesOf(node) : node \in {tree[p] : p \in DOMAIN tree \cap {path}}}
    <2>1. CASE path \in DOMAIN tree
      <3>1. FoundAt(tree, digests, path) = {FoundEntry(EntryOf(tree, digests, path, ""))}
        BY <2>1 DEF FoundAt, EntriesAt
      <3>2. {tree[p] : p \in DOMAIN tree \cap {path}} = {tree[path]}
        BY <2>1
      <3>3. Stat(FoundEntry(EntryOf(tree, digests, path, ""))) = Fs!AttributesOf(tree[path])
        BY <1>2, <2>1, AttributesFound
      <3> QED
        BY <3>1, <3>2, <3>3
    <2>2. CASE path \notin DOMAIN tree
      BY <2>2, FoundNode
    <2> QED
      BY <2>1, <2>2
  <1>8. Fs!Node(path) = {tree[p] : p \in DOMAIN tree \cap {path}}
    BY <1>1 DEF Fs!Node
  <1> QED
    BY <1>1, <1>5, <1>6, <1>7, <1>8, FoundNode

-----------------------------------------------------------------------------
(* The slots (operations.cpp:180 to 223). *)

LEMMA FreeSlotFound ==
  ASSUME IsSequence(files)
  PROVE  /\ FreeSlot \in 0 .. Len(files)
         /\ FreeSlot < Len(files) => files[FreeSlot + 1] = {}
         /\ \A other \in 0 .. FreeSlot - 1 : files[other + 1] # {}
  <1> DEFINE isFree(fh) == fh < Len(files) => files[fh + 1] = {}
             Free == {fh \in 0 .. Len(files) : isFree(fh)}
  <1>1. PICK n \in Nat : n = Len(files)
    BY SequenceShape
  <1>2. n \in Free /\ Free \subseteq Nat
    BY <1>1
  <1>3. PICK least \in Free : \A fh \in Free : least <= fh
    <2> HIDE DEF Free
    <2> QED
      BY <1>2, LeastNumber
  <1>4. least \in 0 .. n /\ (least < n => files[least + 1] = {})
    BY <1>1
  <1>5. ASSUME NEW other \in 0 .. least - 1 PROVE files[other + 1] # {}
    <2>1. other \in 0 .. n /\ other < n /\ ~ (least <= other)
      BY <1>4
    <2>2. other \notin Free
      <3> HIDE DEF Free
      <3> QED
        BY <1>3, <2>1
    <2> QED
      BY <1>1, <2>1, <2>2
  <1>6. \E fh \in 0 .. Len(files) :
          /\ fh < Len(files) => files[fh + 1] = {}
          /\ \A other \in 0 .. fh - 1 : files[other + 1] # {}
    BY <1>1, <1>4, <1>5
  <1> QED
    BY <1>6 DEF FreeSlot

\* Other slots do not matter.
LEMMA SlotStays ==
  ASSUME NEW rows, NEW tree, NEW mode, NEW slots, NEW more, NEW o,
         SlotOK(rows, tree, mode, slots, o),
         o.fh + 1 \in DOMAIN more, more[o.fh + 1] = slots[o.fh + 1]
  PROVE  SlotOK(rows, tree, mode, more, o)
  BY DEF SlotOK

LEMMA NewSlotOK ==
  ASSUME NEW rows, NEW tree, NEW mode, NEW slots, NEW o, NEW opened,
         o.path \in RegularFiles(tree), o.fh + 1 \in DOMAIN slots, slots[o.fh + 1] = {opened},
         opened \in OpenFile(rows, tree[o.path].content), CacheOK(mode, opened, tree[o.path].content)
  PROVE  SlotOK(rows, tree, mode, slots, o)
  BY DEF SlotOK

\* As many slots as are in use are not more than handles.
LEMMA SlotsInUse ==
  ASSUME NEW slots, NEW n \in Nat, NEW held, NEW h \in Handle, held[h] = {},
         \A i \in 1 .. n : \E g \in Handle : \E o \in held[g] : i = o.fh + 1,
         \A g \in Handle : \A o, p \in held[g] : o = p
  PROVE  n + 1 <= Cardinality(Handle)
  <1> DEFINE owner == [i \in 1 .. n |-> CHOOSE g \in Handle : \E o \in held[g] : i = o.fh + 1]
             Others == Handle \ {h}
  <1>1. \A i \in 1 .. n : owner[i] \in Handle /\ \E o \in held[owner[i]] : i = o.fh + 1
    OBVIOUS
  <1>2. owner \in [1 .. n -> Handle]
    BY <1>1
  <1> HIDE DEF owner
  <1>3. \A i \in 1 .. n : owner[i] # h
    BY <1>1
  <1>4. owner \in [1 .. n -> Others]
    BY <1>2, <1>3
  <1>5. \A i, j \in 1 .. n : owner[i] = owner[j] => i = j
    BY <1>1, <1>2
  <1>6. owner \in Injection(1 .. n, Others)
    BY <1>4, <1>5 DEF Injection, IsInjective
  <1>7. IsFiniteSet(Handle)
    BY KernelAssumption
  <1>8. IsFiniteSet(Others) /\ Cardinality(Others) = Cardinality(Handle) - 1
    BY <1>7, FS_RemoveElement
  <1>9. Cardinality(1 .. n) <= Cardinality(Others)
    <2> HIDE DEF Others
    <2> QED
      BY <1>6, <1>8, FS_Injection
  <1>10. Cardinality(1 .. n) = n
    BY FS_Interval
  <1>11. Cardinality(Handle) \in Nat
    BY <1>7, FS_CardinalityType
  <1> QED
    BY <1>8, <1>9, <1>10, <1>11

LEMMA AnySequence ==
  ASSUME NEW T, NEW s \in Seq(T)
  PROVE  IsSequence(s)
  <1>1. PICK n \in Nat : n = Len(s) /\ s \in [1 .. n -> T] /\ DOMAIN s = 1 .. n
    BY LenProperties
  <1>2. PICK U : U = {s[i] : i \in DOMAIN s}
    OBVIOUS
  <1>3. \A i \in 1 .. n : s[i] \in U
    BY <1>1, <1>2
  <1>4. s \in [1 .. n -> U]
    BY <1>1, <1>3
  <1>5. s \in Seq(U)
    BY <1>4
  <1> QED
    BY <1>2, <1>5 DEF IsSequence

\* One slot is different.
Replaced(slots, more, i, e) ==
  /\ IsSequence(more)
  /\ Len(more) = Len(slots)
  /\ DOMAIN more = DOMAIN slots
  /\ more[i] = e
  /\ \A j \in DOMAIN slots : j # i => more[j] = slots[j]

LEMMA SlotReplaced ==
  ASSUME NEW slots, IsSequence(slots), NEW i \in DOMAIN slots, NEW e
  PROVE  Replaced(slots, [slots EXCEPT ![i] = e], i, e)
  <1>1. PICK n, S : n \in Nat /\ n = Len(slots) /\ DOMAIN slots = 1 .. n /\ slots \in Seq(S)
    BY SequenceShape
  <1>2. PICK T : T = S \cup {e}
    OBVIOUS
  <1>3. slots \in Seq(T) /\ e \in T /\ i \in 1 .. Len(slots)
    BY <1>1, <1>2
  <1>4. PICK more : more = [slots EXCEPT ![i] = e]
    OBVIOUS
  <1>5. /\ [slots EXCEPT ![i] = e] \in Seq(T)
        /\ Len([slots EXCEPT ![i] = e]) = Len(slots)
        /\ \A j \in 1 .. Len(slots) : [slots EXCEPT ![i] = e][j] = IF j = i THEN e ELSE slots[j]
    BY <1>3, ExceptSeq
  <1>6. /\ more \in Seq(T) /\ Len(more) = n
        /\ \A j \in 1 .. n : more[j] = IF j = i THEN e ELSE slots[j]
    BY <1>1, <1>4, <1>5
  <1>7. DOMAIN more = 1 .. n /\ IsSequence(more)
    BY <1>6, AnySequence
  <1>8. Replaced(slots, more, i, e)
    BY <1>1, <1>3, <1>6, <1>7 DEF Replaced
  <1> QED
    BY <1>4, <1>8

\* The slots after adaptor_open: fh is a free one or a new last one.
LEMMA OpenSlots ==
  ASSUME NEW rows, NEW tree, NEW mode, NEW slots, NEW held, NEW more, NEW fh \in Nat,
         HandlesOK(held), SlotsOK(rows, tree, mode, slots, held),
         NEW h \in Handle, held[h] = {}, NEW path \in Path, path \in RegularFiles(tree),
         NEW opened, opened \in OpenFile(rows, tree[path].content),
         CacheOK(mode, opened, tree[path].content),
         fh <= Len(slots), fh < Len(slots) => slots[fh + 1] = {},
         \A other \in 0 .. fh - 1 : slots[other + 1] # {},
         more = IF fh = Len(slots) THEN Append(slots, {opened})
                ELSE [slots EXCEPT ![fh + 1] = {opened}]
  PROVE  LET later == [held EXCEPT ![h] = {[path |-> path, fh |-> fh]}]
         IN  HandlesOK(later) /\ SlotsOK(rows, tree, mode, more, later)
  <1> DEFINE later == [held EXCEPT ![h] = {[path |-> path, fh |-> fh]}]
             new == [path |-> path, fh |-> fh]
  <1>1. PICK n, S : n \in Nat /\ n = Len(slots) /\ DOMAIN slots = 1 .. n /\ slots \in Seq(S)
    BY SequenceShape DEF SlotsOK
  <1>2. /\ held \in [Handle -> SUBSET [path : Path, fh : Nat]]
        /\ \A g \in Handle : \A o \in held[g] : held[g] = {o}
        /\ \A g, k \in Handle : \A o \in held[g], p \in held[k] : o.fh = p.fh => g = k
    BY DEF HandlesOK
  <1>3. /\ n <= Cardinality(Handle)
        /\ \A g \in Handle : \A o \in held[g] : SlotOK(rows, tree, mode, slots, o)
        /\ \A i \in 1 .. n : slots[i] # {} => \E g \in Handle : \E o \in held[g] : i = o.fh + 1
    BY <1>1 DEF SlotsOK
  <1>4. \A g \in Handle : later[g] = IF g = h THEN {new} ELSE held[g]
    BY <1>2
  <1>5. new \in [path : Path, fh : Nat] /\ new.fh = fh /\ new.path = path
    OBVIOUS
  <1>6. later \in [Handle -> SUBSET [path : Path, fh : Nat]]
    BY <1>2, <1>5
  <1> HIDE DEF later, new
  <1>7. \A g \in Handle : \A o \in held[g] : o.fh \in Nat /\ o.fh + 1 \in 1 .. n /\ slots[o.fh + 1] # {}
    BY <1>1, <1>2, <1>3 DEF SlotOK
  <1>8. \A g \in Handle : \A o \in held[g] : o.fh # fh
    BY <1>1, <1>7
  <1>9. HandlesOK(later)
    <2>1. \A g \in Handle : \A o \in later[g] : later[g] = {o}
      BY <1>2, <1>4
    <2>2. ASSUME NEW g \in Handle, NEW k \in Handle, NEW o \in later[g], NEW p \in later[k], o.fh = p.fh
          PROVE  g = k
      BY <1>2, <1>4, <1>5, <1>8, <2>2
    <2> QED
      BY <1>6, <2>1, <2>2 DEF HandlesOK
  <1>10. PICK m \in Nat : /\ m = Len(more) /\ DOMAIN more = 1 .. m
                          /\ m = IF fh = n THEN n + 1 ELSE n
                          /\ IsSequence(more)
                          /\ more[fh + 1] = {opened}
                          /\ \A i \in 1 .. n : i # fh + 1 => more[i] = slots[i]
    <2>1. slots \in Seq(S \cup {{opened}}) /\ {opened} \in S \cup {{opened}}
      BY <1>1
    <2>2. CASE fh = n
      <3>1. more = Append(slots, {opened})
        BY <1>1, <2>2
      <3>2. /\ more \in Seq(S \cup {{opened}}) /\ Len(more) = n + 1
            /\ \A i \in 1 .. n : more[i] = slots[i]
            /\ more[n + 1] = {opened}
        BY <1>1, <2>1, <3>1, AppendProperties
      <3>3. DOMAIN more = 1 .. n + 1 /\ IsSequence(more)
        <4>1. PICK T : more \in Seq(T)
          BY <3>2
        <4>2. IsSequence(more)
          BY <4>1, AnySequence
        <4>3. DOMAIN more = 1 .. n + 1
          BY <3>2, <4>1
        <4> QED
          BY <4>2, <4>3
      <3> QED
        BY <2>2, <3>2, <3>3
    <2>3. CASE fh # n
      <3>1. more = [slots EXCEPT ![fh + 1] = {opened}] /\ fh + 1 \in 1 .. n
        BY <1>1, <2>3
      <3>2. /\ IsSequence(more) /\ Len(more) = n /\ DOMAIN more = 1 .. n
            /\ more[fh + 1] = {opened}
            /\ \A i \in 1 .. n : i # fh + 1 => more[i] = slots[i]
        <4>1. IsSequence(slots) /\ fh + 1 \in DOMAIN slots
          BY <1>1, <3>1 DEF SlotsOK
        <4>2. Replaced(slots, [slots EXCEPT ![fh + 1] = {opened}], fh + 1, {opened})
          BY <4>1, SlotReplaced
        <4> QED
          BY <1>1, <3>1, <4>2 DEF Replaced
      <3> QED
        BY <2>3, <3>2
    <2> QED
      BY <2>2, <2>3
  <1>11. Len(more) <= Cardinality(Handle)
    <2>1. CASE fh # n
      BY <1>3, <1>10, <2>1
    <2>2. CASE fh = n
      <3>1. ASSUME NEW i \in 1 .. n PROVE \E g \in Handle : \E o \in held[g] : i = o.fh + 1
        <4>1. i - 1 \in 0 .. fh - 1 /\ (i - 1) + 1 = i
          BY <2>2
        <4>2. slots[i] # {}
          BY <4>1
        <4> QED
          BY <1>3, <4>2
      <3>2. \A g \in Handle : \A o, p \in held[g] : o = p
        BY <1>2
      <3>3. n + 1 <= Cardinality(Handle)
        BY <1>1, <3>1, <3>2, SlotsInUse
      <3> QED
        BY <1>10, <2>2, <3>3
    <2> QED
      BY <2>1, <2>2
  <1>12. ASSUME NEW g \in Handle, NEW o \in later[g]
         PROVE  SlotOK(rows, tree, mode, more, o)
    <2>1. CASE g = h
      <3>1. o = new /\ o.fh = fh /\ o.path = path
        BY <1>4, <1>5, <2>1
      <3>2. fh + 1 \in DOMAIN more
        BY <1>1, <1>10
      <3> QED
        BY <1>10, <3>1, <3>2, NewSlotOK
    <2>2. CASE g # h
      <3>1. o \in held[g]
        BY <1>4, <2>2
      <3>2. o.fh + 1 \in DOMAIN more /\ more[o.fh + 1] = slots[o.fh + 1]
        BY <1>7, <1>8, <1>10, <3>1
      <3> QED
        BY <1>3, <3>1, <3>2, SlotStays
    <2> QED
      BY <2>1, <2>2
  <1>13. ASSUME NEW i \in DOMAIN more, more[i] # {}
         PROVE  \E g \in Handle : \E o \in later[g] : i = o.fh + 1
    <2>1. CASE i = fh + 1
      BY <1>4, <1>5, <2>1
    <2>2. CASE i # fh + 1
      <3>1. i \in 1 .. n /\ slots[i] # {}
        BY <1>10, <1>13, <2>2
      <3>2. PICK g \in Handle : \E o \in held[g] : i = o.fh + 1
        BY <1>3, <3>1
      <3>3. g # h
        BY <3>2
      <3> QED
        BY <1>4, <3>2, <3>3
    <2> QED
      BY <2>1, <2>2
  <1>14. SlotsOK(rows, tree, mode, more, later)
    BY <1>10, <1>11, <1>12, <1>13 DEF SlotsOK
  <1> QED
    BY <1>9, <1>14 DEF later

\* The slots after adaptor_release.
LEMMA ReleaseSlots ==
  ASSUME NEW rows, NEW tree, NEW mode, NEW slots, NEW held, NEW more,
         HandlesOK(held), SlotsOK(rows, tree, mode, slots, held),
         NEW h \in Handle, NEW o \in held[h], more = [slots EXCEPT ![o.fh + 1] = {}]
  PROVE  LET later == [held EXCEPT ![h] = {}]
         IN  HandlesOK(later) /\ SlotsOK(rows, tree, mode, more, later)
  <1> DEFINE later == [held EXCEPT ![h] = {}]
  <1>1. /\ held \in [Handle -> SUBSET [path : Path, fh : Nat]]
        /\ \A g \in Handle : \A p \in held[g] : held[g] = {p}
        /\ \A g, k \in Handle : \A p \in held[g], q \in held[k] : p.fh = q.fh => g = k
    BY DEF HandlesOK
  <1>2. /\ IsSequence(slots) /\ Len(slots) <= Cardinality(Handle)
        /\ \A g \in Handle : \A p \in held[g] : SlotOK(rows, tree, mode, slots, p)
        /\ \A i \in DOMAIN slots : slots[i] # {} => \E g \in Handle : \E p \in held[g] : i = p.fh + 1
    BY DEF SlotsOK
  <1>3. \A g \in Handle : later[g] = IF g = h THEN {} ELSE held[g]
    BY <1>1
  <1>4. later \in [Handle -> SUBSET [path : Path, fh : Nat]]
    BY <1>1
  <1> HIDE DEF later
  <1>5. HandlesOK(later)
    BY <1>1, <1>3, <1>4 DEF HandlesOK
  <1>6. \A g \in Handle : \A p \in held[g] : p.fh \in Nat /\ p.fh + 1 \in DOMAIN slots
    BY <1>1, <1>2 DEF SlotOK
  <1>7. /\ IsSequence(more) /\ Len(more) = Len(slots) /\ DOMAIN more = DOMAIN slots
        /\ more[o.fh + 1] = {}
        /\ \A i \in DOMAIN slots : i # o.fh + 1 => more[i] = slots[i]
    <2>1. o.fh + 1 \in DOMAIN slots
      BY <1>6
    <2>2. Replaced(slots, more, o.fh + 1, {})
      BY <1>2, <2>1, SlotReplaced
    <2> QED
      BY <2>2 DEF Replaced
  <1>8. ASSUME NEW g \in Handle, NEW p \in later[g] PROVE SlotOK(rows, tree, mode, more, p)
    <2>1. g # h /\ p \in held[g]
      BY <1>3
    <2>2. p.fh + 1 # o.fh + 1
      BY <1>1, <1>6, <2>1
    <2> QED
      BY <1>2, <1>6, <1>7, <2>1, <2>2, SlotStays
  <1>9. ASSUME NEW i \in DOMAIN more, more[i] # {}
        PROVE  \E g \in Handle : \E p \in later[g] : i = p.fh + 1
    <2>1. i \in DOMAIN slots /\ i # o.fh + 1 /\ slots[i] # {}
      BY <1>7, <1>9
    <2>2. PICK g \in Handle : \E p \in held[g] : i = p.fh + 1
      BY <1>2, <2>1
    <2>3. g # h
      BY <1>1, <2>1, <2>2
    <2> QED
      BY <1>3, <2>2, <2>3
  <1>10. SlotsOK(rows, tree, mode, more, later)
    BY <1>2, <1>7, <1>8, <1>9 DEF SlotsOK
  <1> QED
    BY <1>5, <1>10 DEF later

\* A read leaves an open file of the same content in its slot.
LEMMA UpdateSlot ==
  ASSUME NEW rows, NEW tree, NEW mode, NEW slots, NEW held, NEW more,
         HandlesOK(held), SlotsOK(rows, tree, mode, slots, held),
         NEW h \in Handle, NEW o \in held[h], NEW opened,
         opened \in OpenFile(rows, tree[o.path].content), CacheOK(mode, opened, tree[o.path].content),
         Replaced(slots, more, o.fh + 1, {opened})
  PROVE  SlotsOK(rows, tree, mode, more, held)
  <1>1. /\ held \in [Handle -> SUBSET [path : Path, fh : Nat]]
        /\ \A g \in Handle : \A p \in held[g] : held[g] = {p}
        /\ \A g, k \in Handle : \A p \in held[g], q \in held[k] : p.fh = q.fh => g = k
    BY DEF HandlesOK
  <1>2. /\ IsSequence(slots) /\ Len(slots) <= Cardinality(Handle)
        /\ \A g \in Handle : \A p \in held[g] : SlotOK(rows, tree, mode, slots, p)
        /\ \A i \in DOMAIN slots : slots[i] # {} => \E g \in Handle : \E p \in held[g] : i = p.fh + 1
    BY DEF SlotsOK
  <1>3. \A g \in Handle : \A p \in held[g] : /\ p.fh \in Nat /\ p.fh + 1 \in DOMAIN slots
                                             /\ p.path \in RegularFiles(tree)
    BY <1>1, <1>2 DEF SlotOK
  <1>4. /\ IsSequence(more) /\ Len(more) = Len(slots) /\ DOMAIN more = DOMAIN slots
        /\ more[o.fh + 1] = {opened}
        /\ \A i \in DOMAIN slots : i # o.fh + 1 => more[i] = slots[i]
    BY DEF Replaced
  <1>5. ASSUME NEW g \in Handle, NEW p \in held[g] PROVE SlotOK(rows, tree, mode, more, p)
    <2>1. CASE g = h
      <3>1. p = o
        BY <1>1, <2>1
      <3> QED
        BY <1>3, <1>4, <3>1, NewSlotOK
    <2>2. CASE g # h
      <3>1. p.fh + 1 # o.fh + 1
        BY <1>1, <1>3, <2>2
      <3> QED
        BY <1>2, <1>3, <1>4, <3>1, SlotStays
    <2> QED
      BY <2>1, <2>2
  <1>6. ASSUME NEW i \in DOMAIN more, more[i] # {}
        PROVE  \E g \in Handle : \E p \in held[g] : i = p.fh + 1
    <2>1. CASE i = o.fh + 1
      BY <2>1
    <2>2. CASE i # o.fh + 1
      BY <1>2, <1>4, <1>6, <2>2
    <2> QED
      BY <2>1, <2>2
  <1> QED
    BY <1>2, <1>4, <1>5, <1>6 DEF SlotsOK

-----------------------------------------------------------------------------
(***************************************************************************)
(* One lemma for each handler: it keeps the invariant, and it is a step of *)
(* ReadOnlyFs.                                                             *)
(***************************************************************************)

Opened == [h \in Handle |-> {o.path : o \in handles[h]}]
ServedStep == [Fs!Next]_(Fs!vars)

\* No lookup throws.
LEMMA LookupSucceeds ==
  ASSUME Mounted, NEW path \in Path
  PROVE  /\ path \in DOMAIN source => path \in Directories(source) \cup RegularFiles(source)
         /\ Resolved(path) # {Unreadable}
         /\ \A entry \in Resolved(path) :
              /\ entry.type # "regular_file" => path \in Directories(source)
              /\ entry # Unreadable
              /\ entry.type # "regular_file" => Stored(table, entry.hash_code)
              /\ entry.type = "regular_file" =>
                   path \in RegularFiles(source) /\ entry = FoundFile(source[path].content)
  <1>1. path \in DOMAIN source => path \in Directories(source) \cup RegularFiles(source)
    BY DEF Mounted, IsTree
  <1>2. \A content : FoundFile(content).type = "regular_file"
    BY DEF FoundFile
  <1>3. \A digest : FoundDirectory(digest).type = "directory" /\ FoundDirectory(digest).hash_code = digest
    BY DEF FoundDirectory
  <1>4. Unreadable.type = "unreadable"
    BY DEF Unreadable
  <1>5. CASE path \notin DOMAIN source
    BY <1>5, LookedUp
  <1>6. CASE path \in RegularFiles(source)
    <2>1. Resolved(path) = {FoundFile(source[path].content)}
      BY <1>6, LookedUp
    <2>2. FoundFile(source[path].content) # Unreadable
      BY <1>2, <1>4
    <2> QED
      BY <1>1, <1>2, <1>6, <2>1, <2>2
  <1>7. CASE path \in Directories(source)
    <2>1. PICK digest \in DOMAIN table : Resolved(path) = {FoundDirectory(digest)}
      BY <1>7, LookedUp
    <2>2. FoundDirectory(digest) # Unreadable
      BY <1>3, <1>4
    <2> QED
      BY <1>1, <1>3, <1>7, <2>1, <2>2 DEF Stored
  <1> QED
    BY <1>1, <1>5, <1>6, <1>7

LEMMA DatabaseStays ==
  ASSUME Mounted, UNCHANGED database
  PROVE  Mounted' /\ source' = source
  BY DEF Mounted, database

\* A step that changes neither the slots nor a read that runs.
LEMMA InvStays ==
  ASSUME AdaptorInv, UNCHANGED <<database, files, handles>>,
         reading' = {} \/ reading' = reading, terminated' = FALSE
  PROVE  AdaptorInv' /\ source' = source /\ Opened' = Opened
  <1>1. /\ table' = table /\ root' = root /\ read_cache_mode' = read_cache_mode
        /\ files' = files /\ handles' = handles
    BY DEF database
  <1>2. Mounted' /\ source' = source
    BY DatabaseStays DEF AdaptorInv
  <1>3. PICK rows, tree, mode, slots, held :
          /\ rows = table /\ tree = source /\ mode = read_cache_mode
          /\ slots = files /\ held = handles
    OBVIOUS
  <1>4. /\ rows = table' /\ tree = source' /\ mode = read_cache_mode'
        /\ slots = files' /\ held = handles'
    BY <1>1, <1>2, <1>3
  <1>5. /\ mode \in {"none", "one_piece"}
        /\ HandlesOK(held) /\ SlotsOK(rows, tree, mode, slots, held)
        /\ \A r \in reading : reading = {r} /\ ReadOK(tree, slots, held, r)
    BY <1>3 DEF AdaptorInv
  <1>6. \A r \in reading' : reading' = {r} /\ ReadOK(tree, slots, held, r)
    BY <1>5
  <1>7. AdaptorInv'
    BY <1>2, <1>4, <1>5, <1>6 DEF AdaptorInv
  <1> QED
    BY <1>1, <1>2, <1>7 DEF Opened

LEMMA GetattrStep ==
  ASSUME AdaptorInv, NEW path \in Path, Getattr(path)
  PROVE  AdaptorInv' /\ ServedStep
  <1>1. Mounted /\ terminated = FALSE
    BY DEF AdaptorInv
  <1>2. Resolved(path) # {Unreadable}
    BY <1>1, LookupSucceeds
  <1>3. /\ reply' = {[to |-> "getattr", path |-> path,
                      stat |-> {Stat(entry) : entry \in Resolved(path)}]}
        /\ UNCHANGED <<database, reading, terminated, files, handles>>
    BY <1>2 DEF Getattr, Answer
  <1>4. AdaptorInv' /\ source' = source /\ Opened' = Opened
    <2>1. /\ UNCHANGED <<database, files, handles>>
          /\ reading' = reading /\ terminated' = FALSE
      BY <1>1, <1>3
    <2> QED
      BY <2>1, InvStays
  <1>5. {Stat(entry) : entry \in Resolved(path)} = {Fs!AttributesOf(node) : node \in Fs!Node(path)}
    BY <1>1, LookedUp
  <1>6. DOMAIN source # {}
    BY <1>1 DEF Mounted, IsTree, Directories
  <1>7. Fs!Lookup(path)
    BY <1>3, <1>4, <1>5, <1>6 DEF Fs!Lookup, Fs!Mounted, Opened
  <1> QED
    BY <1>4, <1>7 DEF ServedStep, Fs!Next

LEMMA ReaddirStep ==
  ASSUME AdaptorInv, NEW path \in Path, Readdir(path)
  PROVE  AdaptorInv' /\ ServedStep
  <1>1. Mounted /\ terminated = FALSE
    BY DEF AdaptorInv
  <1>2. \A entry \in Resolved(path) :
          entry.type # "regular_file" /\ entry # Unreadable /\ Stored(table, entry.hash_code)
    BY <1>1, LookupSucceeds DEF Readdir
  <1>3. /\ reply' = {[to |-> "readdir", path |-> path,
                      listing |-> {Listing(table[entry.hash_code]) : entry \in Resolved(path)}]}
        /\ UNCHANGED <<database, reading, terminated, files, handles>>
    BY <1>2 DEF Readdir, Answer
  <1>4. AdaptorInv' /\ source' = source /\ Opened' = Opened
    <2>1. /\ UNCHANGED <<database, files, handles>>
          /\ reading' = reading /\ terminated' = FALSE
      BY <1>1, <1>3
    <2> QED
      BY <2>1, InvStays
  <1>5. path \notin RegularFiles(source)
    <2>1. path \in RegularFiles(source) => Resolved(path) = {FoundFile(source[path].content)}
      BY <1>1, LookedUp
    <2>2. \A content : FoundFile(content).type = "regular_file"
      BY DEF FoundFile
    <2> QED
      BY <1>2, <2>1, <2>2
  <1>6. {Listing(table[entry.hash_code]) : entry \in Resolved(path)} =
        {Fs!ListingOf(path, node) : node \in Fs!Node(path)}
    <2>1. CASE path \in Directories(source)
      <3>1. PICK digest : /\ Resolved(path) = {FoundDirectory(digest)}
                          /\ Listing(table[digest]) = Fs!ListingOf(path, source[path])
        BY <1>1, <2>1, LookedUp
      <3>2. FoundDirectory(digest).hash_code = digest
        BY DEF FoundDirectory
      <3>3. Fs!Node(path) = {source[path]}
        BY <2>1 DEF Fs!Node, Directories
      <3> QED
        BY <3>1, <3>2, <3>3
    <2>2. CASE path \notin DOMAIN source
      <3>1. Resolved(path) = {} /\ Fs!Node(path) = {}
        BY <1>1, <2>2, LookedUp DEF Fs!Node
      <3> QED
        BY <3>1
    <2> QED
      BY <1>1, <1>5, <2>1, <2>2, LookupSucceeds
  <1>7. \A node \in Fs!Node(path) : node.type = "directory"
    BY <1>1, <1>5, LookupSucceeds DEF Fs!Node, Directories
  <1>8. DOMAIN source # {}
    BY <1>1 DEF Mounted, IsTree, Directories
  <1>9. Fs!Lookup(path)
    BY <1>3, <1>4, <1>6, <1>7, <1>8 DEF Fs!Lookup, Fs!Mounted, Opened
  <1> QED
    BY <1>4, <1>9 DEF ServedStep, Fs!Next

\* A new open file has nothing in its cache.
LEMMA NewOpenFileOK ==
  ASSUME NEW rows, NEW mode, NEW content \in Seq(Byte)
  PROVE  /\ NewOpenFile(FoundFile(content)) \in OpenFile(rows, content)
         /\ CacheOK(mode, NewOpenFile(FoundFile(content)), content)
  <1>1. PICK size, h : size = Len(content) /\ h = Sha256(FileIndex(content))
    OBVIOUS
  <1>2. FoundFile(content) = [type |-> "regular_file", hash_code |-> h, regular_file_size |-> size]
    BY <1>1 DEF FoundFile
  <1>3. FoundFile(content).hash_code = h
    BY <1>2
  <1>4. FoundFile(content).regular_file_size = size
    BY <1>2
  <1>5. NewOpenFile(FoundFile(content)) =
          [file_size |-> size, hash_code |-> h, index |-> {}, cached_piece |-> {}, read_cache |-> <<>>]
    BY <1>3, <1>4 DEF NewOpenFile
  <1>6. NewOpenFile(FoundFile(content)).cached_piece = {}
    BY <1>5
  <1>7. <<>> \in Seq(Byte)
    OBVIOUS
  <1>8. NewOpenFile(FoundFile(content)) \in OpenFile(rows, content)
    BY <1>1, <1>5, <1>7 DEF OpenFile
  <1> QED
    BY <1>6, <1>8 DEF CacheOK

\* A file is opened.
LEMMA OpenRegularStep ==
  ASSUME AdaptorInv, NEW path \in Path, NEW h \in Handle, Idle, handles[h] = {},
         path \in RegularFiles(source), OpenRegular(path, h, FoundFile(source[path].content))
  PROVE  AdaptorInv' /\ source' = source /\ Opened' = [Opened EXCEPT ![h] = {path}]
  <1>1. PICK rows, tree, mode, slots, held, fh, opened :
          /\ rows = table /\ tree = source /\ mode = read_cache_mode
          /\ slots = files /\ held = handles /\ fh = FreeSlot
          /\ opened = NewOpenFile(FoundFile(tree[path].content))
    OBVIOUS
  <1>2. /\ Mounted /\ terminated = FALSE /\ mode \in {"none", "one_piece"}
        /\ HandlesOK(held) /\ SlotsOK(rows, tree, mode, slots, held)
    BY <1>1 DEF AdaptorInv
  <1>3. tree[path].content \in Seq(Byte)
    BY <1>1, <1>2 DEF Mounted, IsTree
  <1>4. opened \in OpenFile(rows, tree[path].content) /\ CacheOK(mode, opened, tree[path].content)
    BY <1>1, <1>3, NewOpenFileOK
  <1>5. /\ fh \in 0 .. Len(slots)
        /\ fh < Len(slots) => slots[fh + 1] = {}
        /\ \A other \in 0 .. fh - 1 : slots[other + 1] # {}
    BY <1>1, <1>2, FreeSlotFound DEF SlotsOK
  <1>6. Len(slots) \in Nat
    BY <1>2, SequenceShape DEF SlotsOK
  <1>7. PICK later, more :
          /\ later = [held EXCEPT ![h] = {[path |-> path, fh |-> fh]}]
          /\ more = IF fh = Len(slots) THEN Append(slots, {opened})
                    ELSE [slots EXCEPT ![fh + 1] = {opened}]
    OBVIOUS
  <1>8. HandlesOK(later) /\ SlotsOK(rows, tree, mode, more, later)
    <2>1. fh \in Nat /\ fh <= Len(slots) /\ held[h] = {} /\ path \in RegularFiles(tree)
      BY <1>1, <1>5, <1>6
    <2> QED
      BY <1>2, <1>4, <1>5, <1>7, <2>1, OpenSlots
  <1>9. /\ files' = more /\ handles' = later
        /\ UNCHANGED <<database, reading, terminated>>
    BY <1>1, <1>7 DEF OpenRegular, Answer
  <1>10. /\ Mounted' /\ source' = source
         /\ table' = table /\ read_cache_mode' = read_cache_mode
    BY <1>2, <1>9, DatabaseStays DEF database
  <1>11. reading' = {} /\ terminated' = FALSE
    BY <1>2, <1>9 DEF Idle
  <1>12. AdaptorInv'
    <2>1. /\ rows = table' /\ tree = source' /\ mode = read_cache_mode'
          /\ more = files' /\ later = handles'
      BY <1>1, <1>9, <1>10
    <2> QED
      BY <1>2, <1>8, <1>10, <1>11, <2>1 DEF AdaptorInv
  <1>13. Opened' = [Opened EXCEPT ![h] = {path}]
    <2>1. held \in [Handle -> SUBSET [path : Path, fh : Nat]]
      BY <1>2 DEF HandlesOK
    <2>2. \A g \in Handle : later[g] = IF g = h THEN {[path |-> path, fh |-> fh]} ELSE held[g]
      BY <1>7, <2>1
    <2>3. {o.path : o \in {[path |-> path, fh |-> fh]}} = {path}
      OBVIOUS
    <2>4. \A g \in Handle : {o.path : o \in later[g]} = IF g = h THEN {path} ELSE {o.path : o \in held[g]}
      BY <2>2, <2>3
    <2>5. [g \in Handle |-> {o.path : o \in later[g]}] =
          [[g \in Handle |-> {o.path : o \in held[g]}] EXCEPT ![h] = {path}]
      BY <2>4
    <2> QED
      BY <1>1, <1>9, <2>5 DEF Opened
  <1> QED
    BY <1>10, <1>12, <1>13

LEMMA OpenStep ==
  ASSUME AdaptorInv, NEW path \in Path, NEW h \in Handle, Open(path, h)
  PROVE  AdaptorInv' /\ ServedStep
  <1>1. Mounted /\ terminated = FALSE /\ Idle /\ handles[h] = {}
    BY DEF AdaptorInv, Open
  <1>2. Opened[h] = {}
    BY <1>1 DEF Opened
  <1>3. DOMAIN source # {}
    BY <1>1 DEF Mounted, IsTree, Directories
  <1>4. Resolved(path) # {Unreadable}
    BY <1>1, LookupSucceeds
  <1>5. CASE \E entry \in Resolved(path) :
               entry.type = "regular_file" /\ OpenRegular(path, h, entry)
    <2>1. path \in RegularFiles(source) /\ OpenRegular(path, h, FoundFile(source[path].content))
      BY <1>1, <1>5, LookupSucceeds
    <2>2. AdaptorInv' /\ source' = source /\ Opened' = [Opened EXCEPT ![h] = {path}]
      BY <1>1, <2>1, OpenRegularStep
    <2>3. reply' = {[to |-> "open", path |-> path, error |-> "none"]}
      BY <2>1 DEF OpenRegular, Answer
    <2>4. PICK found : found = {node \in Fs!Node(path) : node.type = "regular_file"}
      OBVIOUS
    <2>5. found = {source[path]}
      BY <2>1, <2>4 DEF Fs!Node, RegularFiles
    <2>6. Opened' = [Opened EXCEPT ![h] = {path : node \in found}]
      BY <2>2, <2>5
    <2>7. Fs!Open(path, h)
      BY <1>2, <1>3, <2>2, <2>3, <2>4, <2>5, <2>6 DEF Fs!Open, Fs!Mounted, Opened
    <2> QED
      BY <2>2, <2>7 DEF ServedStep, Fs!Next
  <1>6. CASE /\ \A entry \in Resolved(path) : entry.type = "directory"
             /\ Answer([to |-> "open", path |-> path,
                        error |-> IF Resolved(path) = {} THEN "ENOENT" ELSE "EISDIR"])
             /\ UNCHANGED <<files, handles>>
    <2>1. AdaptorInv' /\ source' = source /\ Opened' = Opened
      <3>1. UNCHANGED <<database, files, handles>> /\ reading' = reading /\ terminated' = FALSE
        BY <1>1, <1>6 DEF Answer
      <3> QED
        BY <3>1, InvStays
    <2>2. PICK found : found = {node \in Fs!Node(path) : node.type = "regular_file"}
      OBVIOUS
    <2>3. found = {} /\ (Resolved(path) = {} <=> Fs!Node(path) = {})
      <3>1. CASE path \notin DOMAIN source
        BY <1>1, <2>2, <3>1, LookedUp DEF Fs!Node
      <3>2. CASE path \in Directories(source)
        <4>1. Resolved(path) # {}
          BY <1>1, <3>2, LookedUp
        <4>2. Fs!Node(path) = {source[path]} /\ source[path].type = "directory"
          BY <3>2 DEF Fs!Node, Directories
        <4> QED
          BY <2>2, <4>1, <4>2
      <3>3. CASE path \in RegularFiles(source)
        <4>1. Resolved(path) = {FoundFile(source[path].content)}
          BY <1>1, <3>3, LookedUp
        <4>2. \A content : FoundFile(content).type = "regular_file"
          BY DEF FoundFile
        <4> QED
          BY <1>6, <4>1, <4>2
      <3> QED
        BY <1>1, <3>1, <3>2, <3>3, LookupSucceeds
    <2>4. Opened = [Opened EXCEPT ![h] = {path : node \in found}]
      BY <1>2, <2>3 DEF Opened
    <2>5. reply' = {[to |-> "open", path |-> path,
                     error |-> IF found # {} THEN "none"
                               ELSE IF Fs!Node(path) = {} THEN "ENOENT" ELSE "EISDIR"]}
      BY <1>6, <2>3 DEF Answer
    <2>6. Fs!Open(path, h)
      BY <1>2, <1>3, <2>1, <2>2, <2>4, <2>5 DEF Fs!Open, Fs!Mounted, Opened
    <2> QED
      BY <2>1, <2>6 DEF ServedStep, Fs!Next
  <1> QED
    BY <1>4, <1>5, <1>6 DEF Open

LEMMA ReleaseStep ==
  ASSUME AdaptorInv, NEW h \in Handle, Release(h)
  PROVE  AdaptorInv' /\ ServedStep
  <1>1. PICK rows, tree, mode, slots, held :
          /\ rows = table /\ tree = source /\ mode = read_cache_mode
          /\ slots = files /\ held = handles
    OBVIOUS
  <1>2. /\ Mounted /\ terminated = FALSE /\ mode \in {"none", "one_piece"}
        /\ HandlesOK(held) /\ SlotsOK(rows, tree, mode, slots, held)
    BY <1>1 DEF AdaptorInv
  <1>3. held \in [Handle -> SUBSET [path : Path, fh : Nat]]
    BY <1>2 DEF HandlesOK
  <1>4. PICK o \in held[h] : held[h] = {o} /\ The(handles[h]) = o
    <2>1. held[h] # {}
      BY <1>1 DEF Release
    <2>2. PICK o \in held[h] : held[h] = {o}
      BY <1>2, <2>1 DEF HandlesOK
    <2> QED
      BY <1>1, <2>2 DEF The
  <1>5. PICK later, more : /\ later = [held EXCEPT ![h] = {}]
                           /\ more = [slots EXCEPT ![o.fh + 1] = {}]
    OBVIOUS
  <1>6. HandlesOK(later) /\ SlotsOK(rows, tree, mode, more, later)
    BY <1>2, <1>5, ReleaseSlots
  <1>7. /\ files' = more /\ handles' = later /\ reply' = {[to |-> "release"]}
        /\ UNCHANGED <<database, reading, terminated>> /\ reading = {}
    BY <1>1, <1>4, <1>5 DEF Release, Answer, Idle
  <1>8. /\ Mounted' /\ source' = source
        /\ table' = table /\ read_cache_mode' = read_cache_mode
    BY <1>2, <1>7, DatabaseStays DEF database
  <1>9. AdaptorInv'
    <2>1. /\ rows = table' /\ tree = source' /\ mode = read_cache_mode'
          /\ more = files' /\ later = handles'
      BY <1>1, <1>7, <1>8
    <2> QED
      BY <1>2, <1>6, <1>7, <1>8, <2>1 DEF AdaptorInv
  <1>10. Opened[h] # {}
    <2>1. o.path \in {p.path : p \in held[h]}
      OBVIOUS
    <2> QED
      BY <1>1, <2>1 DEF Opened
  <1>11. Opened' = [Opened EXCEPT ![h] = {}]
    <2>1. \A g \in Handle : later[g] = IF g = h THEN {} ELSE held[g]
      BY <1>3, <1>5
    <2>2. \A g \in Handle : {p.path : p \in later[g]} = IF g = h THEN {} ELSE {p.path : p \in held[g]}
      BY <2>1
    <2>3. [g \in Handle |-> {p.path : p \in later[g]}] =
          [[g \in Handle |-> {p.path : p \in held[g]}] EXCEPT ![h] = {}]
      BY <2>2
    <2> QED
      BY <1>1, <1>7, <2>3 DEF Opened
  <1>12. Fs!Release(h)
    BY <1>7, <1>8, <1>10, <1>11 DEF Fs!Release, Opened
  <1> QED
    BY <1>9, <1>12 DEF ServedStep, Fs!Next

-----------------------------------------------------------------------------
(* read_file (trees/read_file.cpp), called by adaptor_read. *)

\* The pieces and the tail of a stored file, as its index has them.
LEMMA PiecesLoaded ==
  ASSUME NEW rows, ContentAddressed(rows), NEW content \in Seq(Byte), FileStored(rows, content),
         NEW index, index = IndexOf(rows, content)
  PROVE  /\ CanLoadIndex(rows, Len(content), Sha256(FileIndex(content)))
         /\ Len(index.pieces) = NumberOfPieces(Len(content))
         /\ \A i \in PiecesOf(content) : /\ Stored(rows, index.pieces[i + 1])
                                         /\ rows[index.pieces[i + 1]] = PieceOf(content, i)
         /\ index.tail = ReadAt(content, NumberOfPieces(Len(content)) * PieceLength,
                                RemainingSize(Len(content)))
  <1>1. PICK size \in Nat, n \in Nat, h \in {Sha256(FileIndex(content))} :
          size = Len(content) /\ n = NumberOfPieces(size)
    <2>1. Len(content) \in Nat /\ NumberOfPieces(Len(content)) \in Nat
      BY PiecesOfSize
    <2> QED
      BY <2>1
  <1>2. PICK hash_codes : hash_codes = [i \in PiecesOf(content) |-> Sha256(PieceOf(content, i))]
    OBVIOUS
  <1>3. PICK tail : tail = ReadAt(content, n * PieceLength, RemainingSize(size))
    OBVIOUS
  <1>4. /\ CanLoadIndex(rows, size, h)
        /\ IsIndexOf(index, hash_codes, size, tail)
        /\ \A i \in PiecesOf(content) : Stored(rows, hash_codes[i]) /\ rows[hash_codes[i]] = PieceOf(content, i)
    <2>1. /\ CanLoadIndex(rows, Len(content), Sha256(FileIndex(content)))
          /\ IsIndexOf(LoadIndex(rows, Len(content), Sha256(FileIndex(content))), hash_codes, Len(content),
                       ReadAt(content, NumberOfPieces(Len(content)) * PieceLength, RemainingSize(Len(content))))
          /\ \A i \in PiecesOf(content) : Stored(rows, hash_codes[i]) /\ rows[hash_codes[i]] = PieceOf(content, i)
      BY <1>2, LoadedFile
    <2> QED
      BY <1>1, <1>3, <2>1 DEF IndexOf
  <1>5. /\ Len(index.pieces) = n
        /\ \A i \in 1 .. n : index.pieces[i] = hash_codes[i - 1]
        /\ index.tail = tail
    BY <1>1, <1>4 DEF IsIndexOf
  <1>6. ASSUME NEW i \in PiecesOf(content) PROVE index.pieces[i + 1] = hash_codes[i]
    <2>1. i \in 0 .. n - 1
      BY <1>1 DEF PiecesOf
    <2>2. i + 1 \in 1 .. n /\ (i + 1) - 1 = i
      BY <2>1
    <2> QED
      BY <1>5, <2>2
  <1> QED
    BY <1>1, <1>3, <1>4, <1>5, <1>6

\* The part of a file that the loop works on when the cursor is in piece i.
PartOf(content, i) ==
  IF i \in PiecesOf(content) THEN PieceOf(content, i)
  ELSE ReadAt(content, NumberOfPieces(Len(content)) * PieceLength, RemainingSize(Len(content)))

\* Where that part starts and how long it is.
LEMMA PartBounds ==
  ASSUME NEW content \in Seq(Byte), NEW cursor \in 0 .. Len(content)
  PROVE  \E start \in Nat, length \in Nat :
           /\ start + length <= Len(content)
           /\ PartOf(content, cursor \div PieceLength) = SubSeq(content, start + 1, start + length)
           /\ Len(PartOf(content, cursor \div PieceLength)) = length
           /\ cursor = start + (cursor % PieceLength)
           /\ cursor % PieceLength >= length => cursor = Len(content)
  <1>1. PICK size \in Nat : size = Len(content)
    OBVIOUS
  <1>2. PICK p \in Nat, o \in 0 .. PieceLength - 1 :
          p = cursor \div PieceLength /\ o = cursor % PieceLength /\ cursor = PieceLength * p + o
    <2>1. cursor \in Nat
      OBVIOUS
    <2> QED
      BY <2>1, Division, PieceLengthAssumption
  <1>3. PICK n \in Nat, m \in 0 .. PieceLength - 1 : n = NumberOfPieces(size) /\ m = RemainingSize(size)
    BY PiecesOfSize
  <1>4. PICK start \in Nat : start = p * PieceLength
    BY <1>2, PieceLengthAssumption
  <1>5. cursor = start + o
    <2>1. PieceLength * p = p * PieceLength
      BY <1>2, PieceLengthAssumption
    <2> QED
      BY <1>2, <1>4, <2>1
  <1>6. CASE p < n
    <2>1. p \in PiecesOf(content) /\ p \in 0 .. n - 1
      BY <1>1, <1>2, <1>3, <1>6 DEF PiecesOf
    <2>2. start + PieceLength <= size
      BY <1>1, <1>3, <1>4, <2>1, PieceInFile
    <2>3. PartOf(content, p) = SubSeq(content, start + 1, start + PieceLength)
      BY <1>4, <2>1 DEF PartOf, PieceOf, ReadAt
    <2>4. Len(PartOf(content, p)) = PieceLength
      <3>1. CanReadAt(content, start, PieceLength) /\ PieceLength \in Nat
        BY <1>1, <2>2, PieceLengthAssumption DEF CanReadAt
      <3>2. Len(ReadAt(content, start, PieceLength)) = PieceLength
        BY <3>1, ReadAtContent
      <3> QED
        BY <2>3, <3>2 DEF ReadAt
    <2>5. ~ (o >= PieceLength) /\ PieceLength \in Nat
      BY <1>2, PieceLengthAssumption
    <2> QED
      BY <1>1, <1>2, <1>5, <2>2, <2>3, <2>4, <2>5
  <1>7. CASE ~ (p < n)
    <2>1. size = n * PieceLength + m /\ n * PieceLength \in Nat
      <3>1. n * PieceLength \in Nat /\ RemainingSize(size) = size - n * PieceLength
        BY <1>3, PieceLengthAssumption DEF RemainingSize
      <3> QED
        BY <1>3, <3>1
    <2>2. p = n
      <3>1. n < p => PieceLength * n + PieceLength <= PieceLength * p
        BY <1>2, <1>3, NextMultiple, PieceLengthAssumption
      <3>2. PieceLength * n = n * PieceLength /\ PieceLength * p = start
        BY <1>2, <1>3, <1>4, PieceLengthAssumption
      <3>3. start <= size
        BY <1>1, <1>2, <1>5
      <3>4. ~ (n < p)
        <4>1. PICK k \in Nat : k = n * PieceLength
          BY <2>1
        <4>2. n < p => k + PieceLength <= start
          BY <3>1, <3>2, <4>1
        <4>3. start <= k + m /\ m < PieceLength
          <5>1. size = k + m
            BY <2>1, <4>1
          <5> QED
            BY <1>3, <3>3, <5>1, PieceLengthAssumption
        <4> QED
          BY <1>3, <4>2, <4>3, PieceLengthAssumption
      <3> QED
        BY <1>2, <1>3, <1>7, <3>4
    <2>3. start = n * PieceLength /\ size = start + m
      BY <1>4, <2>1, <2>2
    <2>4. p \notin PiecesOf(content)
      BY <1>1, <1>2, <1>3, <1>7 DEF PiecesOf
    <2>5. PartOf(content, p) = ReadAt(content, start, m)
      BY <1>1, <1>3, <2>3, <2>4 DEF PartOf
    <2>6. Len(PartOf(content, p)) = m
      <3>1. CanReadAt(content, start, m) /\ m \in Nat
        BY <1>1, <1>3, <2>3, PieceLengthAssumption DEF CanReadAt
      <3>2. Len(ReadAt(content, start, m)) = m
        BY <3>1, ReadAtContent
      <3> QED
        BY <2>5, <3>2
    <2>7. o >= m => cursor = size
      <3>1. o \in Nat /\ m \in Nat /\ cursor <= size
        BY <1>1, <1>2, <1>3, PieceLengthAssumption
      <3> QED
        BY <1>5, <2>3, <3>1
    <2>8. m \in Nat /\ start + m <= Len(content)
      BY <1>1, <1>3, <2>3, PieceLengthAssumption
    <2> QED
      BY <1>1, <1>2, <1>5, <2>5, <2>6, <2>7, <2>8 DEF ReadAt
  <1> QED
    BY <1>6, <1>7, <1>2, <1>3

\* One iteration copies the next bytes of the file, or the cursor is at its end.
Continues(content, cursor, remaining, part, o, copying) ==
  /\ o >= Len(part) => cursor = Len(content)
  /\ ~ (o >= Len(part)) =>
       /\ copying \in 0 .. remaining
       /\ cursor + copying <= Len(content)
       /\ ReadAt(part, o, copying) = SubSeq(content, cursor + 1, cursor + copying)

LEMMA PositionsInPart ==
  ASSUME NEW start \in Nat, NEW o \in Nat, NEW count \in Nat
  PROVE  /\ (start + 1) + (o + 1) - 1 = start + o + 1
         /\ (start + 1) + (o + count) - 1 = start + o + count
  OBVIOUS

LEMMA NextBytes ==
  ASSUME NEW content \in Seq(Byte), NEW cursor \in 0 .. Len(content), NEW remaining \in Nat \ {0},
         NEW part, part = PartOf(content, cursor \div PieceLength),
         NEW o, o = cursor % PieceLength,
         NEW copying, copying = Minimum(Len(part) - o, remaining)
  PROVE  Continues(content, cursor, remaining, part, o, copying)
  <1>1. PICK start \in Nat, length \in Nat :
           /\ start + length <= Len(content)
           /\ part = SubSeq(content, start + 1, start + length)
           /\ Len(part) = length
           /\ cursor = start + o
           /\ o >= length => cursor = Len(content)
    BY PartBounds
  <1>2. o \in Nat
    <2>1. cursor \in Nat
      OBVIOUS
    <2> QED
      BY <2>1, Division, PieceLengthAssumption
  <1>3. ASSUME ~ (o >= Len(part))
        PROVE  /\ copying \in 0 .. remaining
               /\ cursor + copying <= Len(content)
               /\ ReadAt(part, o, copying) = SubSeq(content, cursor + 1, cursor + copying)
    <2>1. copying \in 1 .. remaining /\ copying <= length - o
      BY <1>1, <1>2, <1>3 DEF Minimum
    <2>2. cursor + copying <= Len(content)
      BY <1>1, <1>2, <2>1, SMTT(30)
    <2>3. PICK size \in Nat : size = Len(content)
      OBVIOUS
    <2>4. o < length /\ start + length <= size /\ copying \in Nat /\ 1 <= copying
      <3>1. o < length /\ start + length <= size
        BY <1>1, <1>2, <1>3, <2>3
      <3>2. copying \in Nat /\ 1 <= copying
        BY <2>1
      <3> QED
        BY <3>1, <3>2
    <2>5. start + 1 \in 1 .. size /\ start + length \in 1 .. size
      BY <1>2, <2>4
    <2>6. o + 1 \in 1 .. length /\ o + copying \in 1 .. length
      BY <1>2, <2>1, <2>4
    <2>7. (start + length) - (start + 1) + 1 = length
      OBVIOUS
    <2>8. SubSeq(SubSeq(content, start + 1, start + length), o + 1, o + copying) =
            SubSeq(content, (start + 1) + (o + 1) - 1, (start + 1) + (o + copying) - 1)
      <3>1. PICK i, j, m, n : i = start + 1 /\ j = start + length /\ m = o + 1 /\ n = o + copying
        OBVIOUS
      <3>2. i \in 1 .. Len(content) /\ j \in 1 .. Len(content)
        BY <2>3, <2>5, <3>1
      <3>3. m \in 1 .. j - i + 1 /\ n \in 1 .. j - i + 1
        BY <2>6, <2>7, <3>1
      <3>4. SubSeq(SubSeq(content, i, j), m, n) = SubSeq(content, i + m - 1, i + n - 1)
        BY <3>2, <3>3, SubSeqOfSubSeq
      <3> QED
        BY <3>1, <3>4
    <2>9. (start + 1) + (o + 1) - 1 = cursor + 1 /\ (start + 1) + (o + copying) - 1 = cursor + copying
      <3>1. cursor = start + o
        BY <1>1
      <3>2. PICK s \in Nat, p \in Nat, c \in Nat : s = start /\ p = o /\ c = copying
        BY <1>2, <2>4
      <3>3. (s + 1) + (p + 1) - 1 = s + p + 1 /\ (s + 1) + (p + c) - 1 = s + p + c
        BY PositionsInPart
      <3> QED
        BY <3>1, <3>2, <3>3, Zenon
    <2>10. part = SubSeq(content, start + 1, start + length)
      BY <1>1
    <2>11. ReadAt(part, o, copying) = SubSeq(content, cursor + 1, cursor + copying)
      BY <2>8, <2>9, <2>10 DEF ReadAt
    <2>12. copying \in 0 .. remaining
      BY <2>1
    <2> QED
      BY <2>2, <2>11, <2>12
  <1> QED
    BY <1>1, <1>3 DEF Continues

\* The one file that a handle is open for, and what is in its slot.
Held(h, o, opened, content) ==
  /\ handles[h] = {o} /\ The(handles[h]) = o
  /\ o.path \in RegularFiles(source) /\ o.fh \in Nat
  /\ o.fh + 1 \in DOMAIN files
  /\ files[o.fh + 1] = {opened} /\ The(files[o.fh + 1]) = opened
  /\ content = source[o.path].content
  /\ opened \in OpenFile(table, content)
  /\ CacheOK(read_cache_mode, opened, content)

LEMMA HeldFile ==
  ASSUME AdaptorInv, NEW h \in Handle, handles[h] # {}
  PROVE  \E o, opened, content : Held(h, o, opened, content)
  <1>1. /\ Mounted /\ HandlesOK(handles)
        /\ SlotsOK(table, source, read_cache_mode, files, handles)
    BY DEF AdaptorInv
  <1>2. PICK o \in handles[h] : handles[h] = {o}
    BY <1>1 DEF HandlesOK
  <1>3. SlotOK(table, source, read_cache_mode, files, o)
    BY <1>1 DEF SlotsOK
  <1>4. PICK opened \in files[o.fh + 1] : files[o.fh + 1] = {opened}
    BY <1>3 DEF SlotOK
  <1>5. o.fh \in Nat
    BY <1>1 DEF HandlesOK
  <1>6. PICK content : content = source[o.path].content
    OBVIOUS
  <1>7. Held(h, o, opened, content)
    BY <1>2, <1>3, <1>4, <1>5, <1>6 DEF SlotOK, Held, The
  <1> QED
    BY <1>7

LEMMA HeldContent ==
  ASSUME Mounted, NEW h, NEW o, NEW opened, NEW content, Held(h, o, opened, content)
  PROVE  /\ content \in Seq(Byte) /\ ContentAddressed(table) /\ FileStored(table, content)
         /\ opened.file_size = Len(content) /\ opened.hash_code = Sha256(FileIndex(content))
         /\ opened.index \in {{}, {IndexOf(table, content)}}
         /\ opened.read_cache \in Seq(Byte)
  <1>1. IsTree(source) /\ Holds(table, root, source)
    BY DEF Mounted
  <1>2. content \in Seq(Byte) /\ ContentAddressed(table) /\ FileStored(table, content)
    BY <1>1 DEF Held, IsTree, Holds
  <1>3. opened \in OpenFile(table, content)
    BY DEF Held
  <1> QED
    BY <1>2, <1>3 DEF OpenFile

\* The index is loaded.
LEMMA IndexLoaded ==
  ASSUME NEW rows, NEW mode, NEW content, NEW opened, opened \in OpenFile(rows, content),
         CacheOK(mode, opened, content), opened.index = {}
  PROVE  LET loaded == [opened EXCEPT !.index = {IndexOf(rows, content)}]
         IN  /\ loaded \in OpenFile(rows, content)
             /\ CacheOK(mode, loaded, content)
             /\ loaded.index # {}
  <1>1. PICK loaded : loaded = [opened EXCEPT !.index = {IndexOf(rows, content)}]
    OBVIOUS
  <1>2. loaded \in OpenFile(rows, content)
    BY <1>1 DEF OpenFile
  <1>3. opened.cached_piece = {}
    BY DEF CacheOK
  <1>4. loaded.cached_piece = {}
    BY <1>1, <1>3 DEF OpenFile
  <1>5. loaded.index # {}
    BY <1>1 DEF OpenFile
  <1> QED
    BY <1>1, <1>2, <1>4, <1>5 DEF CacheOK

\* A read of an open file begins.
LEMMA ReadStep ==
  ASSUME AdaptorInv, NEW h \in Handle, NEW size \in ReadSizes, NEW p \in handles[h],
         NEW offset \in 0 .. The(files[p.fh + 1]).file_size, Read(h, offset, size)
  PROVE  AdaptorInv' /\ ServedStep
  <1>1. Mounted /\ terminated = FALSE
    BY DEF AdaptorInv
  <1>2. PICK o, opened, content : Held(h, o, opened, content)
    BY HeldFile
  <1>3. /\ content \in Seq(Byte) /\ ContentAddressed(table) /\ FileStored(table, content)
        /\ opened.file_size = Len(content) /\ opened.hash_code = Sha256(FileIndex(content))
        /\ opened.index \in {{}, {IndexOf(table, content)}}
    BY <1>1, <1>2, HeldContent
  <1>4. p = o /\ offset \in 0 .. Len(content) /\ size \in Nat
    BY <1>2, <1>3, KernelAssumption DEF Held
  <1>5. CanLoadIndex(table, opened.file_size, opened.hash_code)
    BY <1>3, PiecesLoaded
  <1>6. PICK later, r :
          /\ later = [opened EXCEPT !.index = {IndexOf(table, content)}]
          /\ r = [handle |-> h, fh |-> o.fh, offset |-> offset, size |-> size,
                  read_cursor |-> offset, remaining_size |-> size, copied |-> <<>>]
    OBVIOUS
  <1>7. /\ files' = IF opened.index # {} THEN files ELSE [files EXCEPT ![o.fh + 1] = {later}]
        /\ reading' = {r} /\ reply' = {}
        /\ UNCHANGED <<database, handles, terminated>>
    <2>1. The(handles[h]) = o /\ The(files[o.fh + 1]) = opened
      BY <1>2 DEF Held
    <2>2. LoadIndex(table, opened.file_size, opened.hash_code) = IndexOf(table, content)
      BY <1>3 DEF IndexOf
    <2> QED
      BY <1>5, <1>6, <2>1, <2>2 DEF Read
  <1>8. PICK rows, tree, mode, slots, held, more :
          /\ rows = table /\ tree = source /\ mode = read_cache_mode
          /\ slots = files /\ held = handles /\ more = files'
    OBVIOUS
  <1>9. /\ mode \in {"none", "one_piece"}
        /\ HandlesOK(held) /\ SlotsOK(rows, tree, mode, slots, held)
    BY <1>8 DEF AdaptorInv
  <1>10. SlotsOK(rows, tree, mode, more, held)
         /\ \A other \in more[o.fh + 1] : other.index # {}
    <2>1. CASE opened.index # {}
      BY <1>2, <1>7, <1>8, <1>9, <2>1 DEF Held
    <2>2. CASE opened.index = {}
      <3>1. opened \in OpenFile(rows, content) /\ CacheOK(mode, opened, content)
            /\ content = tree[o.path].content /\ o \in held[h]
        BY <1>2, <1>8 DEF Held
      <3>2. later \in OpenFile(rows, content) /\ CacheOK(mode, later, content) /\ later.index # {}
        BY <1>6, <1>8, <2>2, <3>1, IndexLoaded
      <3>3. more = [slots EXCEPT ![o.fh + 1] = {later}]
        BY <1>7, <1>8, <2>2
      <3>4. SlotsOK(rows, tree, mode, more, held) /\ more[o.fh + 1] = {later}
        <4>1. /\ later \in OpenFile(rows, tree[o.path].content)
              /\ CacheOK(mode, later, tree[o.path].content)
          BY <3>1, <3>2
        <4>2. HandlesOK(held) /\ SlotsOK(rows, tree, mode, slots, held) /\ o \in held[h]
          BY <1>9, <3>1
        <4>3. Replaced(slots, more, o.fh + 1, {later})
          <5>1. IsSequence(slots) /\ o.fh + 1 \in DOMAIN slots
            BY <1>2, <1>8, <1>9 DEF Held, SlotsOK
          <5>2. Replaced(slots, [slots EXCEPT ![o.fh + 1] = {later}], o.fh + 1, {later})
            BY <5>1, SlotReplaced
          <5> QED
            BY <3>3, <5>2
        <4>4. SlotsOK(rows, tree, mode, more, held)
          BY <4>1, <4>2, <4>3, UpdateSlot
        <4> QED
          BY <4>3, <4>4 DEF Replaced
      <3> QED
        BY <3>2, <3>4
    <2> QED
      BY <2>1, <2>2
  <1>11. ReadOK(tree, more, held, r)
    <2>1. r \in Call
      BY <1>2, <1>4, <1>6 DEF Held, Call
    <2>2. /\ r.handle = h /\ r.fh = o.fh /\ r.offset = offset /\ r.size = size
          /\ r.read_cursor = offset /\ r.remaining_size = size /\ r.copied = <<>>
      BY <1>6
    <2>3. SubSeq(content, offset + 1, offset) = <<>>
      BY <1>4, SubSeqEmpty
    <2>4. Progress(r, content)
      BY <1>4, <2>2, <2>3 DEF Progress
    <2>5. o \in held[h] /\ content = tree[o.path].content
      BY <1>2, <1>8 DEF Held
    <2> QED
      BY <1>10, <2>1, <2>2, <2>4, <2>5 DEF ReadOK
  <1>12. /\ Mounted' /\ source' = source
         /\ table' = table /\ read_cache_mode' = read_cache_mode
    BY <1>1, <1>7, DatabaseStays DEF database
  <1>13. AdaptorInv'
    <2>1. /\ rows = table' /\ tree = source' /\ mode = read_cache_mode'
          /\ more = files' /\ held = handles'
      BY <1>7, <1>8, <1>12
    <2>2. \A call \in reading' : reading' = {call} /\ ReadOK(tree, more, held, call)
      BY <1>7, <1>11
    <2>3. terminated' = FALSE
      BY <1>1, <1>7
    <2> QED
      BY <1>9, <1>10, <1>12, <2>1, <2>2, <2>3 DEF AdaptorInv
  <1>14. Opened' = Opened
    BY <1>7 DEF Opened
  <1>15. Fs!Request
    BY <1>7, <1>12, <1>14 DEF Fs!Request, Opened
  <1> QED
    BY <1>13, <1>15 DEF ServedStep, Fs!Next

\* The part that an iteration works on, from wherever it is taken.
LEMMA PartTaken ==
  ASSUME Mounted, NEW h, NEW o, NEW opened, NEW content, Held(h, o, opened, content),
         opened.index # {}, NEW i \in Nat
  PROVE  /\ Piece(opened, i) = PartOf(content, i)
         /\ MustLoad(opened, i) => /\ Stored(table, The(opened.index).pieces[i + 1])
                                   /\ i \in PiecesOf(content)
  <1>1. /\ content \in Seq(Byte) /\ ContentAddressed(table) /\ FileStored(table, content)
        /\ opened.index \in {{}, {IndexOf(table, content)}}
    BY HeldContent
  <1>2. PICK index : index = IndexOf(table, content)
    OBVIOUS
  <1>3. The(opened.index) = index
    BY <1>1, <1>2 DEF The
  <1>4. PICK n \in Nat : n = NumberOfPieces(Len(content))
    BY <1>1, PiecesOfSize
  <1>5. /\ Len(index.pieces) = n
        /\ \A j \in PiecesOf(content) : /\ Stored(table, index.pieces[j + 1])
                                        /\ table[index.pieces[j + 1]] = PieceOf(content, j)
        /\ index.tail = ReadAt(content, n * PieceLength, RemainingSize(Len(content)))
    BY <1>1, <1>2, <1>4, PiecesLoaded
  <1>6. i \in PiecesOf(content) <=> i < n
    BY <1>4 DEF PiecesOf
  <1>7. InCache(opened, i) => i \in PiecesOf(content) /\ opened.read_cache = PieceOf(content, i)
    BY DEF Held, OpenFile, CacheOK, InCache
  <1>8. MustLoad(opened, i) <=> ~ InCache(opened, i) /\ i < n
    BY <1>3, <1>5 DEF MustLoad
  <1>9. CASE InCache(opened, i)
    BY <1>7, <1>8, <1>9 DEF Piece, PartOf
  <1>10. CASE MustLoad(opened, i)
    BY <1>3, <1>5, <1>6, <1>8, <1>10 DEF Piece, PartOf
  <1>11. CASE ~ InCache(opened, i) /\ ~ MustLoad(opened, i)
    BY <1>3, <1>4, <1>5, <1>6, <1>8, <1>11 DEF Piece, PartOf
  <1> QED
    BY <1>9, <1>10, <1>11

\* What is in the slot after an iteration.
LEMMA CachedStays ==
  ASSUME Mounted, NEW h, NEW o, NEW opened, NEW content, Held(h, o, opened, content),
         opened.index # {}, NEW i \in Nat
  PROVE  /\ Cached(opened, i) \in OpenFile(table, content)
         /\ CacheOK(read_cache_mode, Cached(opened, i), content)
         /\ Cached(opened, i).index # {}
  <1>1. opened \in OpenFile(table, content) /\ CacheOK(read_cache_mode, opened, content)
    BY DEF Held
  <1>2. CASE read_cache_mode = "one_piece" /\ MustLoad(opened, i)
    <2>1. PICK later : later = [opened EXCEPT !.cached_piece = {i}, !.read_cache = Piece(opened, i)]
      OBVIOUS
    <2>2. Cached(opened, i) = later
      BY <1>2, <2>1 DEF Cached
    <2>3. i \in PiecesOf(content) /\ Piece(opened, i) = PieceOf(content, i)
      BY <1>2, PartTaken DEF PartOf
    <2>4. PieceOf(content, i) \in Seq(Byte)
      BY <2>3, FileParts, HeldContent
    <2>5. /\ later.cached_piece = {i} /\ later.read_cache = PieceOf(content, i)
          /\ later.index = opened.index
      BY <1>1, <2>1, <2>3 DEF OpenFile
    <2>6. later \in OpenFile(table, content)
      BY <1>1, <2>1, <2>3, <2>4 DEF OpenFile
    <2> QED
      BY <1>2, <2>2, <2>5, <2>6 DEF CacheOK
  <1>3. CASE ~ (read_cache_mode = "one_piece" /\ MustLoad(opened, i))
    BY <1>1, <1>3 DEF Cached
  <1> QED
    BY <1>2, <1>3

\* A read that returns has all the bytes it was asked for, or all up to the
\* end of the file.
LEMMA AllBytes ==
  ASSUME NEW content \in Seq(Byte), NEW r \in Call, Progress(r, content),
         r.remaining_size = 0 \/ r.read_cursor = Len(content)
  PROVE  r.copied = Fs!BytesOf(content, r.offset, r.size)
  <1>1. PICK offset \in Nat, size \in Nat, cursor \in Nat, remaining \in Nat, n \in Nat :
          /\ offset = r.offset /\ size = r.size /\ cursor = r.read_cursor
          /\ remaining = r.remaining_size /\ n = Len(content)
    BY DEF Call
  <1>2. /\ offset <= cursor /\ cursor <= n /\ cursor + remaining = offset + size
        /\ r.copied = SubSeq(content, offset + 1, cursor)
    BY <1>1 DEF Progress
  <1>3. cursor = IF offset + size <= n THEN offset + size ELSE n
    BY <1>1, <1>2
  <1> QED
    BY <1>1, <1>2, <1>3 DEF Fs!BytesOf

\* The bytes of one iteration follow those that were copied before.
LaterCall(later, r, content) ==
  later \in Call /\ Progress(later, content) /\ later.handle = r.handle /\ later.fh = r.fh

LEMMA BytesCopied ==
  ASSUME NEW content \in Seq(Byte), NEW r \in Call, Progress(r, content),
         NEW copying \in 0 .. r.remaining_size, r.read_cursor + copying <= Len(content),
         NEW bytes, bytes = SubSeq(content, r.read_cursor + 1, r.read_cursor + copying),
         NEW later, later = [r EXCEPT !.copied = @ \o bytes,
                                      !.read_cursor = @ + copying,
                                      !.remaining_size = @ - copying]
  PROVE  LaterCall(later, r, content)
  <1>1. PICK offset \in Nat, size \in Nat, cursor \in Nat, remaining \in Nat, n \in Nat :
          /\ offset = r.offset /\ size = r.size /\ cursor = r.read_cursor
          /\ remaining = r.remaining_size /\ n = Len(content)
    <2>1. /\ r.offset \in Nat /\ r.size \in Nat /\ r.read_cursor \in Nat
          /\ r.remaining_size \in Nat
      BY DEF Call
    <2>2. Len(content) \in Nat
      OBVIOUS
    <2> QED
      BY <2>1, <2>2
  <1>2. /\ offset <= cursor /\ cursor <= n /\ cursor + remaining = offset + size
        /\ r.copied = SubSeq(content, offset + 1, cursor)
    BY <1>1 DEF Progress
  <1>3. copying \in Nat /\ copying <= remaining /\ cursor + copying <= n
    BY <1>1
  <1>4. SubSeq(content, offset + 1, cursor) \o SubSeq(content, cursor + 1, cursor + copying) =
        SubSeq(content, offset + 1, cursor + copying)
    <2>1. /\ offset + 1 \in 1 .. Len(content) + 1
          /\ cursor \in (offset + 1) - 1 .. Len(content)
          /\ cursor + copying \in cursor .. Len(content)
      <3>1. Len(content) = n /\ offset <= cursor /\ cursor <= n
        BY <1>1, <1>2
      <3>2. cursor + copying \in Nat /\ cursor + copying <= n
        BY <1>1, <1>3
      <3>3. offset + 1 \in 1 .. n + 1 /\ cursor \in (offset + 1) - 1 .. n
        BY <1>1, <3>1
      <3>4. cursor + copying \in cursor .. n
        BY <1>1, <1>3, <3>2
      <3> QED
        BY <3>1, <3>3, <3>4
    <2> QED
      BY <2>1, ConcatAdjacentSubSeq
  <1>5. r.copied \o bytes = SubSeq(content, offset + 1, cursor + copying)
    BY <1>1, <1>2, <1>4
  <1>6. r.copied \o bytes \in Seq(Byte)
    <2>1. r.copied \in Seq(Byte) /\ bytes \in Seq(Byte)
      <3>1. \A i \in cursor + 1 .. cursor + copying : content[i] \in Byte
        BY <1>1, <1>3
      <3>2. SubSeq(content, cursor + 1, cursor + copying) \in Seq(Byte)
        BY <1>1, <1>3, <3>1, SubSeqProperties
      <3> QED
        BY <1>1, <3>2 DEF Call
    <2> QED
      BY <2>1
  <1>7. /\ later.copied = r.copied \o bytes /\ later.read_cursor = cursor + copying
        /\ later.remaining_size = remaining - copying
        /\ later.offset = offset /\ later.size = size
        /\ later.handle = r.handle /\ later.fh = r.fh
    BY <1>1 DEF Call
  <1>8. later \in Call
    <2>1. cursor + copying \in Nat
      BY <1>1, <1>3
    <2>3. remaining - copying \in Nat
      <3>1. copying \in Nat /\ copying <= remaining
        BY <1>3
      <3> QED
        BY <3>1
    <2>4. later = [r EXCEPT !.copied = r.copied \o bytes, !.read_cursor = cursor + copying,
                            !.remaining_size = remaining - copying]
      BY <1>1
    <2> QED
      BY <1>6, <2>1, <2>3, <2>4 DEF Call
  <1>9. Progress(later, content)
    <2>1. offset <= cursor + copying /\ (cursor + copying) + (remaining - copying) = offset + size
      BY <1>1, <1>2, <1>3
    <2> QED
      BY <1>1, <1>3, <1>5, <1>7, <2>1 DEF Progress
  <1> QED
    BY <1>7, <1>8, <1>9 DEF LaterCall

\* The handler returns with the bytes that were asked for.
LEMMA ReadAnswered ==
  ASSUME NEW r \in Call, NEW o \in handles[r.handle], NEW content, content = source[o.path].content,
         ReadReturns(r), r.copied = Fs!BytesOf(content, r.offset, r.size),
         source' = source, Opened' = Opened
  PROVE  ServedStep
  <1>1. PICK answer :
          answer = [to |-> "read", handle |-> r.handle, offset |-> r.offset,
                    size |-> r.size, data |-> Fs!BytesOf(content, r.offset, r.size)]
    OBVIOUS
  <1>2. reply' = {answer}
    BY <1>1 DEF ReadReturns
  <1>3. /\ answer.to = "read" /\ answer.handle = r.handle
        /\ answer.offset = r.offset /\ answer.size = r.size
    BY <1>1
  <1>4. o.path \in Opened[r.handle]
    BY DEF Call, Opened
  <1>5. Fs!Read(r.handle, r.offset, r.size)
    BY <1>1, <1>2, <1>4 DEF Fs!Read, Opened
  <1>6. Fs!Read(answer.handle, answer.offset, answer.size)
    BY <1>3, <1>5
  <1>7. Fs!Next
    BY <1>2, <1>3, <1>6 DEF Fs!Next
  <1> QED
    BY <1>7 DEF ServedStep

\* One iteration of the loop.
LEMMA ReadLoopStep ==
  ASSUME AdaptorInv, ReadLoop
  PROVE  AdaptorInv' /\ ServedStep
  <1>1. Mounted /\ terminated = FALSE /\ read_cache_mode \in {"none", "one_piece"}
    BY DEF AdaptorInv
  <1>2. PICK r \in reading : reading = {r} /\ ReadOK(source, files, handles, r) /\ The(reading) = r
    BY DEF AdaptorInv, ReadLoop, The
  <1>3. r \in Call /\ r.handle \in Handle
    BY <1>2 DEF ReadOK, Call
  <1>4. PICK q \in handles[r.handle] :
          /\ q.fh = r.fh
          /\ \A opened \in files[r.fh + 1] : opened.index # {}
          /\ Progress(r, source[q.path].content)
    BY <1>2 DEF ReadOK
  <1>5. PICK o, opened, content : Held(r.handle, o, opened, content)
    BY <1>3, <1>4, HeldFile
  <1>6. q = o /\ o.fh = r.fh /\ o \in handles[r.handle] /\ content = source[o.path].content
    BY <1>4, <1>5 DEF Held
  <1>7. /\ opened.index # {} /\ Progress(r, content) /\ The(files[r.fh + 1]) = opened
        /\ files[r.fh + 1] = {opened}
    BY <1>4, <1>5, <1>6 DEF Held
  <1>8. content \in Seq(Byte)
    BY <1>1, <1>5, HeldContent
  <1>9. PICK cursor \in Nat, remaining \in Nat : cursor = r.read_cursor /\ remaining = r.remaining_size
    BY <1>3 DEF Call
  <1>10. cursor \in 0 .. Len(content)
    BY <1>7, <1>8, <1>9 DEF Progress
  <1>11. PICK i \in Nat : i = cursor \div PieceLength
    BY <1>9, Division, PieceLengthAssumption
  <1>12. PICK offset : offset = cursor % PieceLength
    OBVIOUS
  <1>13. PICK part : part = Piece(opened, i)
    OBVIOUS
  <1>14. part = PartOf(content, i)
    BY <1>1, <1>5, <1>7, <1>11, <1>13, PartTaken
  <1>15. PICK copying : copying = Minimum(Len(part) - offset, remaining)
    OBVIOUS
  <1>16. ~ (MustLoad(opened, i) /\ ~ Stored(table, The(opened.index).pieces[i + 1]))
    BY <1>1, <1>5, <1>7, <1>11, PartTaken
  <1>17. CASE remaining = 0
    <2>1. ReadReturns(r) /\ UNCHANGED <<database, files, handles, terminated>>
      BY <1>2, <1>9, <1>17 DEF ReadLoop
    <2>2. AdaptorInv' /\ source' = source /\ Opened' = Opened
      BY <1>1, <2>1, InvStays DEF ReadReturns
    <2>3. r.copied = Fs!BytesOf(content, r.offset, r.size)
      BY <1>3, <1>7, <1>8, <1>9, <1>17, AllBytes
    <2> QED
      BY <1>3, <1>6, <2>1, <2>2, <2>3, ReadAnswered
  <1>18. CASE remaining # 0
    <2>1. PICK r2 : r2 = [r EXCEPT !.copied = @ \o ReadAt(part, offset, copying),
                                   !.read_cursor = @ + copying,
                                   !.remaining_size = @ - copying]
      OBVIOUS
    <2>2. PICK later : later = Cached(opened, i)
      OBVIOUS
    <2>3. /\ files' = [files EXCEPT ![r.fh + 1] = {later}]
          /\ UNCHANGED <<database, handles, terminated>>
          /\ IF BehindPiece(offset, part) THEN ReadReturns(r)
             ELSE reading' = {r2} /\ UNCHANGED reply
      BY <1>2, <1>7, <1>9, <1>11, <1>12, <1>13, <1>15, <1>16, <1>18, <2>1, <2>2, ZenonT(40) DEF ReadLoop
    <2>4. /\ Mounted' /\ source' = source /\ Opened' = Opened
          /\ table' = table /\ read_cache_mode' = read_cache_mode
      BY <1>1, <2>3, DatabaseStays DEF database, Opened
    <2>5. PICK rows, tree, mode, slots, held, more :
            /\ rows = table /\ tree = source /\ mode = read_cache_mode
            /\ slots = files /\ held = handles /\ more = files'
      OBVIOUS
    <2>6. /\ mode \in {"none", "one_piece"}
          /\ HandlesOK(held) /\ SlotsOK(rows, tree, mode, slots, held)
      BY <2>5 DEF AdaptorInv
    <2>7. /\ later \in OpenFile(rows, content) /\ CacheOK(mode, later, content)
          /\ later.index # {}
      BY <1>1, <1>5, <1>7, <1>11, <2>2, <2>5, CachedStays
    <2>8. Replaced(slots, more, o.fh + 1, {later})
      <3>1. IsSequence(slots) /\ o.fh + 1 \in DOMAIN slots
        BY <1>5, <2>5, <2>6 DEF Held, SlotsOK
      <3>2. Replaced(slots, [slots EXCEPT ![o.fh + 1] = {later}], o.fh + 1, {later})
        BY <3>1, SlotReplaced
      <3> QED
        BY <1>6, <2>3, <2>5, <3>2
    <2>9. SlotsOK(rows, tree, mode, more, held)
      <3>1. /\ later \in OpenFile(rows, tree[o.path].content)
            /\ CacheOK(mode, later, tree[o.path].content)
        BY <1>6, <2>5, <2>7
      <3>2. HandlesOK(held) /\ SlotsOK(rows, tree, mode, slots, held)
            /\ o \in held[r.handle] /\ r.handle \in Handle
        BY <1>3, <1>6, <2>5, <2>6
      <3> QED
        BY <2>8, <3>1, <3>2, UpdateSlot
    <2>10. ASSUME \A call \in reading' : reading' = {call} /\ ReadOK(tree, more, held, call)
           PROVE  AdaptorInv'
      <3>1. /\ rows = table' /\ tree = source' /\ mode = read_cache_mode'
            /\ more = files' /\ held = handles'
        BY <2>3, <2>4, <2>5
      <3>2. terminated' = FALSE
        BY <1>1, <2>3
      <3> QED
        BY <2>4, <2>6, <2>9, <2>10, <3>1, <3>2 DEF AdaptorInv
    <2>11. /\ offset >= Len(part) => cursor = Len(content)
           /\ ~ (offset >= Len(part)) =>
                /\ copying \in 0 .. remaining
                /\ cursor + copying <= Len(content)
                /\ ReadAt(part, offset, copying) = SubSeq(content, cursor + 1, cursor + copying)
      <3>1. remaining \in Nat \ {0} /\ part = PartOf(content, cursor \div PieceLength)
        BY <1>9, <1>11, <1>14, <1>18
      <3>2. offset = cursor % PieceLength /\ copying = Minimum(Len(part) - offset, remaining)
        BY <1>12, <1>15
      <3>3. Continues(content, cursor, remaining, part, offset, copying)
        BY <1>8, <1>10, <3>1, <3>2, NextBytes
      <3> QED
        BY <3>3 DEF Continues
    <2>12. CASE BehindPiece(offset, part)
      <3>1. r.copied = Fs!BytesOf(content, r.offset, r.size)
        BY <1>3, <1>7, <1>8, <1>9, <2>11, <2>12, AllBytes DEF BehindPiece
      <3>2. ReadReturns(r) /\ reading' = {}
        BY <2>3, <2>12 DEF ReadReturns
      <3>3. ServedStep
        BY <1>3, <1>6, <2>4, <3>1, <3>2, ReadAnswered
      <3> QED
        BY <2>10, <3>2, <3>3
    <2>13. CASE ~ BehindPiece(offset, part)
      <3>1. reading' = {r2} /\ reply' = reply
        BY <2>3, <2>13
      <3>2. PICK bytes : bytes = SubSeq(content, cursor + 1, cursor + copying)
        OBVIOUS
      <3>3. /\ copying \in 0 .. r.remaining_size /\ r.read_cursor + copying <= Len(content)
            /\ bytes = SubSeq(content, r.read_cursor + 1, r.read_cursor + copying)
            /\ r2 = [r EXCEPT !.copied = @ \o bytes,
                              !.read_cursor = @ + copying,
                              !.remaining_size = @ - copying]
        BY <1>9, <2>1, <2>11, <2>13, <3>2 DEF BehindPiece
      <3>4. r2 \in Call /\ Progress(r2, content) /\ r2.handle = r.handle /\ r2.fh = r.fh
        <4>1. LaterCall(r2, r, content)
          BY <1>3, <1>7, <1>8, <3>3, BytesCopied
        <4> QED
          BY <4>1 DEF LaterCall
      <3>5. \A other \in more[r2.fh + 1] : other.index # {}
        BY <1>6, <2>7, <2>8, <3>4 DEF Replaced
      <3>6. ReadOK(tree, more, held, r2)
        <4>1. o \in held[r2.handle] /\ o.fh = r2.fh /\ Progress(r2, tree[o.path].content)
          BY <1>6, <2>5, <3>4
        <4> QED
          BY <3>4, <3>5, <4>1 DEF ReadOK
      <3>7. AdaptorInv'
        BY <2>10, <3>1, <3>6
      <3>8. ServedStep
        BY <2>4, <3>1 DEF ServedStep, Fs!vars, Opened
      <3> QED
        BY <3>7, <3>8
    <2> QED
      BY <2>12, <2>13
  <1> QED
    BY <1>17, <1>18

-----------------------------------------------------------------------------
(***************************************************************************)
(* The theorems.                                                           *)
(***************************************************************************)

LEMMA InitInv ==
  ASSUME Init
  PROVE  AdaptorInv /\ Fs!Init
  <1>1. /\ Mounted /\ read_cache_mode \in {"none", "one_piece"} /\ terminated = FALSE
        /\ files = <<>> /\ reading = {} /\ reply = {} /\ handles = [h \in Handle |-> {}]
    BY ImportedAssumption DEF Init, Mounted
  <1>2. HandlesOK(handles)
    BY <1>1 DEF HandlesOK
  <1>3. SlotsOK(table, source, read_cache_mode, files, handles)
    <2>1. IsSequence(files) /\ Len(files) = 0 /\ DOMAIN files = {}
      <3>1. files \in Seq({}) /\ Len(files) = 0 /\ DOMAIN files = {}
        BY <1>1
      <3> QED
        BY <3>1, AnySequence
    <2>2. Cardinality(Handle) \in Nat
      BY KernelAssumption, FS_CardinalityType
    <2> QED
      BY <1>1, <2>1, <2>2 DEF SlotsOK
  <1>4. AdaptorInv
    BY <1>1, <1>2, <1>3 DEF AdaptorInv
  <1>5. Opened = [h \in Handle |-> {}]
    BY <1>1 DEF Opened
  <1>6. Fs!Init
    BY <1>1, <1>5 DEF Fs!Init, Opened
  <1> QED
    BY <1>4, <1>6

LEMMA NextStep ==
  ASSUME AdaptorInv, [Next]_vars
  PROVE  AdaptorInv' /\ ServedStep
  <1>1. CASE UNCHANGED vars
    <2>1. /\ UNCHANGED <<database, files, handles>> /\ reading' = reading
          /\ reply' = reply /\ terminated' = FALSE
      BY <1>1 DEF vars, database, AdaptorInv
    <2>2. AdaptorInv' /\ source' = source /\ Opened' = Opened
      BY <2>1, InvStays
    <2> QED
      BY <2>1, <2>2 DEF ServedStep, Fs!vars, Opened
  <1>2. ASSUME NEW path \in Path, Getattr(path) PROVE AdaptorInv' /\ ServedStep
    BY <1>2, GetattrStep
  <1>3. ASSUME NEW path \in Path, Readdir(path) PROVE AdaptorInv' /\ ServedStep
    BY <1>3, ReaddirStep
  <1>4. ASSUME NEW path \in Path, NEW h \in Handle, Open(path, h) PROVE AdaptorInv' /\ ServedStep
    BY <1>4, OpenStep
  <1>5. ASSUME NEW h \in Handle, Release(h) PROVE AdaptorInv' /\ ServedStep
    BY <1>5, ReleaseStep
  <1>6. ASSUME NEW h \in Handle, NEW size \in ReadSizes, NEW o \in handles[h],
               NEW offset \in 0 .. The(files[o.fh + 1]).file_size, Read(h, offset, size)
        PROVE  AdaptorInv' /\ ServedStep
    BY <1>6, ReadStep
  <1>7. CASE ReadLoop
    BY <1>7, ReadLoopStep
  <1> QED
    BY <1>1, <1>2, <1>3, <1>4, <1>5, <1>6, <1>7 DEF Next

LEMMA AdaptorInvHolds == Spec => []AdaptorInv
  <1>1. Init => AdaptorInv
    BY InitInv
  <1>2. AdaptorInv /\ [Next]_vars => AdaptorInv'
    BY NextStep
  <1> QED
    BY <1>1, <1>2, PTL DEF Spec

-----------------------------------------------------------------------------
(***************************************************************************)
(* Others may add rows to the table: what is open stays what it is.        *)
(***************************************************************************)

LEMMA HoldsGrows ==
  ASSUME NEW rows, NEW more, Grows(rows, more), ContentAddressed(more),
         NEW digest, NEW tree, Holds(rows, digest, tree)
  PROVE  Holds(more, digest, tree)
  <1>1. \A path \in RegularFiles(tree) : FileStored(more, tree[path].content)
    BY DEF Holds, FileStored, Stored, Grows
  <1>2. PICK digests \in [Directories(tree) -> DOMAIN rows] :
          /\ digests[<<>>] = digest
          /\ \A up \in Directories(tree) : rows[digests[up]] = BlobOf(tree, digests, up)
    BY DEF Holds
  <1>3. digests \in [Directories(tree) -> DOMAIN more]
    BY <1>2 DEF Grows
  <1>4. \A up \in Directories(tree) : more[digests[up]] = BlobOf(tree, digests, up)
    BY <1>2 DEF Grows
  <1> QED
    BY <1>1, <1>2, <1>3, <1>4 DEF Holds

LEMMA OpenFileGrows ==
  ASSUME NEW rows, NEW more, Grows(rows, more), NEW content, FileStored(rows, content)
  PROVE  OpenFile(more, content) = OpenFile(rows, content)
  <1>1. more[Sha256(FileIndex(content))] = rows[Sha256(FileIndex(content))]
    BY DEF Grows, FileStored, Stored
  <1>2. IndexOf(more, content) = IndexOf(rows, content)
    BY <1>1 DEF IndexOf, LoadIndex
  <1> QED
    BY <1>2 DEF OpenFile

LEMMA InvSurvivesGrowth ==
  ASSUME AdaptorInv, Grows(table, table'), ContentAddressed(table'),
         UNCHANGED <<root, read_cache_mode, files, handles, reading, terminated, source>>
  PROVE  AdaptorInv'
  <1>1. PICK rows, more, tree, mode, slots, held, calls :
          /\ rows = table /\ more = table' /\ tree = source /\ mode = read_cache_mode
          /\ slots = files /\ held = handles /\ calls = reading
    OBVIOUS
  <1>2. /\ tree = source' /\ mode = read_cache_mode' /\ slots = files' /\ held = handles'
        /\ calls = reading' /\ root' = root /\ terminated' = FALSE
    BY <1>1 DEF AdaptorInv
  <1>3. /\ IsTree(tree) /\ Holds(rows, root, tree) /\ Grows(rows, more) /\ ContentAddressed(more)
        /\ mode \in {"none", "one_piece"} /\ HandlesOK(held)
        /\ SlotsOK(rows, tree, mode, slots, held)
        /\ \A r \in calls : calls = {r} /\ ReadOK(tree, slots, held, r)
    BY <1>1 DEF AdaptorInv, Mounted
  <1>4. Holds(more, root, tree)
    BY <1>3, HoldsGrows
  <1>5. ASSUME NEW h \in Handle, NEW o \in held[h]
        PROVE  SlotOK(more, tree, mode, slots, o)
    <2>1. SlotOK(rows, tree, mode, slots, o)
      BY <1>3 DEF SlotsOK
    <2>2. FileStored(rows, tree[o.path].content)
      BY <1>3, <2>1 DEF SlotOK, Holds
    <2>3. OpenFile(more, tree[o.path].content) = OpenFile(rows, tree[o.path].content)
      BY <1>3, <2>2, OpenFileGrows
    <2> QED
      BY <2>1, <2>3 DEF SlotOK
  <1>6. SlotsOK(more, tree, mode, slots, held)
    BY <1>3, <1>5 DEF SlotsOK
  <1>7. Mounted'
    BY <1>1, <1>2, <1>3, <1>4 DEF Mounted
  <1> QED
    BY <1>1, <1>2, <1>3, <1>6, <1>7 DEF AdaptorInv

-----------------------------------------------------------------------------
(***************************************************************************)
(* What an import has left behind can be mounted.                          *)
(***************************************************************************)

LEMMA LaidIsTree ==
  ASSUME NEW rows, NEW digest, NEW paths, NEW disk, NEW blobs,
         Laid(rows, digest, paths, disk, blobs),
         NEW nodes, nodes = NodesLaid(rows, paths, disk, blobs)
  PROVE  IsTree(nodes)
  <1>1. DOMAIN nodes = paths /\ <<>> \in paths
    BY DEF Laid, NodesLaid
  <1>2. ASSUME NEW path \in paths
        PROVE  /\ (\E S : path \in Seq(S)) /\ PathLaid(rows, paths, path, disk, blobs)
               /\ disk[path].type \in {"regular_file", "directory"}
               /\ path \in RegularFiles(nodes) <=> disk[path].type = "regular_file"
               /\ path \in Directories(nodes) <=> disk[path].type = "directory"
               /\ disk[path].type = "regular_file" => nodes[path].content = disk[path].content
               /\ disk[path].type = "directory" =>
                    nodes[path].names = [i \in DOMAIN rows[blobs[path].hash_code] |->
                                           rows[blobs[path].hash_code][i].name]
    <2>1. (\E S : path \in Seq(S)) /\ PathLaid(rows, paths, path, disk, blobs)
      BY DEF Laid
    <2>2. disk[path].type \in {"regular_file", "directory"}
      BY <2>1 DEF PathLaid
    <2>3. nodes[path] = NodeLaid(rows, disk[path], blobs[path])
      BY DEF NodesLaid
    <2>4. CASE disk[path].type = "regular_file"
      <3>1. nodes[path] = [type |-> "regular_file", content |-> disk[path].content]
        BY <2>3, <2>4 DEF NodeLaid
      <3>2. nodes[path].type = "regular_file" /\ nodes[path].content = disk[path].content
        BY <3>1
      <3> QED
        BY <1>1, <2>1, <2>2, <2>4, <3>2 DEF RegularFiles, Directories
    <2>5. CASE disk[path].type = "directory"
      <3>1. nodes[path] = [type |-> "directory",
                           names |-> [i \in DOMAIN rows[blobs[path].hash_code] |->
                                        rows[blobs[path].hash_code][i].name]]
        BY <2>3, <2>5 DEF NodeLaid
      <3>2. /\ nodes[path].type = "directory"
            /\ nodes[path].names = [i \in DOMAIN rows[blobs[path].hash_code] |->
                                      rows[blobs[path].hash_code][i].name]
        BY <3>1
      <3> QED
        BY <1>1, <2>1, <2>2, <2>5, <3>2 DEF RegularFiles, Directories
    <2> QED
      BY <2>2, <2>4, <2>5
  <1>3. <<>> \in Directories(nodes)
    BY <1>1, <1>2 DEF Laid
  <1>4. \A path \in DOMAIN nodes : path \in Directories(nodes) \cup RegularFiles(nodes)
    BY <1>1, <1>2
  <1>5. \A path \in RegularFiles(nodes) : path \in paths /\ nodes[path].content \in Seq(Byte)
    <2> SUFFICES ASSUME NEW path \in RegularFiles(nodes)
                 PROVE  path \in paths /\ nodes[path].content \in Seq(Byte)
      OBVIOUS
    <2>1. path \in paths
      BY <1>1 DEF RegularFiles
    <2> QED
      BY <1>2, <2>1 DEF PathLaid
  <1>6. ASSUME NEW up \in paths, disk[up].type = "directory"
        PROVE  /\ up \in Directories(nodes)
               /\ IsSequence(up) /\ IsSequence(nodes[up].names)
               /\ \A i \in DOMAIN nodes[up].names : Append(up, nodes[up].names[i]) \in DOMAIN nodes
               /\ \A i, j \in DOMAIN nodes[up].names :
                    nodes[up].names[i] = nodes[up].names[j] => i = j
    <2>0. PICK content, names : content = rows[blobs[up].hash_code] /\ names = nodes[up].names
      OBVIOUS
    <2>1. up \in Directories(nodes) /\ IsSequence(up)
      BY <1>2, <1>6, AnySequence
    <2>2. DirectoryLaid(paths, up, content, disk, blobs)
      BY <1>2, <1>6, <2>0 DEF PathLaid
    <2>3. names = [i \in DOMAIN content |-> content[i].name]
      BY <1>2, <1>6, <2>0
    <2>4. PICK S : content \in Seq(S)
      BY <2>2 DEF DirectoryLaid
    <2>5. PICK n \in Nat : n = Len(content) /\ DOMAIN content = 1 .. n
      BY <2>4
    <2>6. PICK T : T = {content[i].name : i \in 1 .. n}
      OBVIOUS
    <2>7. names \in [1 .. n -> T]
      BY <2>3, <2>5, <2>6
    <2>8. names \in Seq(T)
      BY <2>7
    <2>9. IsSequence(names)
      BY <2>8, AnySequence
    <2>10. DOMAIN names = DOMAIN content /\ \A i \in DOMAIN content : names[i] = content[i].name
      BY <2>3
    <2>11. /\ \A i \in DOMAIN names : Append(up, names[i]) \in DOMAIN nodes
           /\ \A i, j \in DOMAIN names : names[i] = names[j] => i = j
      BY <1>1, <2>2, <2>10 DEF DirectoryLaid
    <2> QED
      BY <2>0, <2>1, <2>9, <2>11
  <1>7. ASSUME NEW path \in paths, path # <<>>
        PROVE  \E up \in Directories(nodes) : \E i \in DOMAIN nodes[up].names :
                 path = Append(up, nodes[up].names[i])
    <2>1. PathLaid(rows, paths, path, disk, blobs)
      BY <1>2
    <2>2. PICK up \in paths :
            /\ disk[up].type = "directory"
            /\ \E i \in DOMAIN rows[blobs[up].hash_code] :
                 path = Append(up, rows[blobs[up].hash_code][i].name)
      BY <1>7, <2>1 DEF PathLaid
    <2>3. PICK i \in DOMAIN rows[blobs[up].hash_code] :
            path = Append(up, rows[blobs[up].hash_code][i].name)
      BY <2>2
    <2>4. /\ up \in Directories(nodes) /\ i \in DOMAIN nodes[up].names
          /\ nodes[up].names[i] = rows[blobs[up].hash_code][i].name
      <3>1. PICK content, names : content = rows[blobs[up].hash_code] /\ names = nodes[up].names
        OBVIOUS
      <3>2. disk[up].type = "directory"
        BY <2>2
      <3>3. up \in Directories(nodes)
        BY <1>6, <3>2
      <3>4. names = [j \in DOMAIN content |-> content[j].name]
        BY <1>2, <3>1, <3>2
      <3> QED
        BY <2>3, <3>1, <3>3, <3>4
    <2> QED
      BY <2>3, <2>4
  <1>8. ASSUME NEW up \in Directories(nodes)
        PROVE  /\ IsSequence(up) /\ IsSequence(nodes[up].names)
               /\ \A i \in DOMAIN nodes[up].names : Append(up, nodes[up].names[i]) \in DOMAIN nodes
               /\ \A i, j \in DOMAIN nodes[up].names :
                    nodes[up].names[i] = nodes[up].names[j] => i = j
    <2>1. up \in paths
      BY <1>1 DEF Directories
    <2>2. disk[up].type = "directory"
      BY <1>2, <2>1
    <2> QED
      BY <1>6, <2>1, <2>2
  <1> QED
    BY <1>1, <1>3, <1>4, <1>5, <1>7, <1>8 DEF IsTree

\* What is found at a path, seen as a node.
LEMMA LaidNode ==
  ASSUME NEW rows, NEW paths, NEW disk, NEW blobs,
         NEW nodes, nodes = NodesLaid(rows, paths, disk, blobs),
         NEW path \in paths
  PROVE  /\ disk[path].type = "regular_file" =>
              path \in RegularFiles(nodes) /\ nodes[path].content = disk[path].content
         /\ disk[path].type = "directory" => path \notin RegularFiles(nodes)
  <1>1. nodes[path] = NodeLaid(rows, disk[path], blobs[path]) /\ path \in DOMAIN nodes
    BY DEF NodesLaid
  <1>2. ASSUME disk[path].type = "regular_file"
        PROVE  nodes[path].type = "regular_file" /\ nodes[path].content = disk[path].content
    <2>1. nodes[path] = [type |-> "regular_file", content |-> disk[path].content]
      BY <1>1, <1>2 DEF NodeLaid
    <2> QED
      BY <2>1
  <1>3. ASSUME disk[path].type = "directory" PROVE nodes[path].type = "directory"
    BY <1>1, <1>3 DEF NodeLaid
  <1> QED
    BY <1>1, <1>2, <1>3 DEF RegularFiles

LEMMA LaidIsHeld ==
  ASSUME NEW rows, NEW digest, NEW paths, NEW disk, NEW blobs,
         Laid(rows, digest, paths, disk, blobs), ContentAddressed(rows),
         NEW nodes, nodes = NodesLaid(rows, paths, disk, blobs)
  PROVE  Holds(rows, digest, nodes)
  <1>1. DOMAIN nodes = paths /\ <<>> \in paths
    BY DEF Laid, NodesLaid
  <1>2. \A path \in paths : PathLaid(rows, paths, path, disk, blobs)
    BY DEF Laid
  <1>3. ASSUME NEW path \in paths
        PROVE  disk[path].type \in {"regular_file", "directory"}
    BY <1>2 DEF PathLaid
  <1>4. ASSUME NEW path \in RegularFiles(nodes) PROVE FileStored(rows, nodes[path].content)
    <2>1. path \in paths
      BY <1>1 DEF RegularFiles
    <2>2. disk[path].type = "regular_file" /\ nodes[path].content = disk[path].content
      BY <1>3, <2>1, LaidNode
    <2>3. PathLaid(rows, paths, path, disk, blobs)
      BY <1>2, <2>1
    <2> QED
      BY <2>2, <2>3 DEF PathLaid
  <1>5. \A up \in Directories(nodes) : up \in paths /\ disk[up].type = "directory"
    <2> SUFFICES ASSUME NEW up \in Directories(nodes)
                 PROVE  up \in paths /\ disk[up].type = "directory"
      OBVIOUS
    <2>1. up \in paths /\ up \notin RegularFiles(nodes)
      BY <1>1 DEF Directories, RegularFiles
    <2> QED
      BY <1>3, <2>1, LaidNode
  <1> DEFINE digests == [up \in Directories(nodes) |-> blobs[up].hash_code]
  <1>6. digests \in [Directories(nodes) -> DOMAIN rows]
    <2>1. \A up \in Directories(nodes) : blobs[up].hash_code \in DOMAIN rows
      BY <1>2, <1>5 DEF PathLaid
    <2> QED
      BY <2>1
  <1>7. digests[<<>>] = digest
    <2>1. <<>> \in Directories(nodes)
      BY LaidIsTree DEF IsTree
    <2> QED
      BY <2>1 DEF Laid
  <1>8. ASSUME NEW up \in Directories(nodes) PROVE rows[digests[up]] = BlobOf(nodes, digests, up)
    <2>1. PICK content : content = rows[blobs[up].hash_code]
      OBVIOUS
    <2>2. up \in paths /\ disk[up].type = "directory" /\ rows[digests[up]] = content
      BY <1>5, <2>1
    <2>3. DirectoryLaid(paths, up, content, disk, blobs)
      BY <1>2, <2>1, <2>2 DEF PathLaid
    <2>4. nodes[up].names = [i \in DOMAIN content |-> content[i].name]
      <3>1. nodes[up] = [type |-> "directory", names |-> [i \in DOMAIN content |-> content[i].name]]
        BY <2>1, <2>2 DEF NodeLaid, NodesLaid
      <3> QED
        BY <3>1
    <2>5. PICK names : names = nodes[up].names
      OBVIOUS
    <2>6. DOMAIN names = DOMAIN content /\ \A i \in DOMAIN content : names[i] = content[i].name
      BY <2>4, <2>5
    <2>7. ASSUME NEW i \in DOMAIN content
          PROVE  content[i] = EntryOf(nodes, digests, Append(up, names[i]), names[i])
      <3>1. PICK path, name : name = content[i].name /\ path = Append(up, name)
        OBVIOUS
      <3>2. path \in paths /\ EntryLaid(content[i], disk[path], blobs[path]) /\ names[i] = name
        BY <2>3, <2>6, <3>1 DEF DirectoryLaid
      <3>3. CASE disk[path].type = "regular_file"
        <4>1. path \in RegularFiles(nodes) /\ nodes[path].content = disk[path].content
          BY <3>2, <3>3, LaidNode
        <4>2. content[i] = DirectoryEntry("regular_file", name,
                              Sha256(FileIndex(disk[path].content)), Len(disk[path].content))
          BY <3>1, <3>2, <3>3 DEF EntryLaid
        <4>3. EntryOf(nodes, digests, path, name) =
                DirectoryEntry("regular_file", name,
                               Sha256(FileIndex(nodes[path].content)), Len(nodes[path].content))
          BY <4>1 DEF EntryOf
        <4> QED
          BY <3>1, <3>2, <4>1, <4>2, <4>3
      <3>4. CASE disk[path].type = "directory"
        <4>1. path \notin RegularFiles(nodes)
          BY <3>2, <3>4, LaidNode
        <4>2. content[i] = DirectoryEntry("directory", name, blobs[path].hash_code, 0)
          BY <3>1, <3>2, <3>4 DEF EntryLaid
        <4>3. EntryOf(nodes, digests, path, name) =
                DirectoryEntry("directory", name, digests[path], 0)
          BY <4>1 DEF EntryOf
        <4>4. path \in Directories(nodes)
          <5>1. path \in DOMAIN nodes /\ IsTree(nodes)
            BY <1>1, <3>2, LaidIsTree
          <5> QED
            BY <4>1, <5>1 DEF IsTree
        <4>5. digests[path] = blobs[path].hash_code
          BY <4>4
        <4> QED
          BY <3>1, <3>2, <4>2, <4>3, <4>5
      <3> QED
        BY <1>3, <3>2, <3>3, <3>4
    <2> HIDE DEF digests
    <2>8. BlobOf(nodes, digests, up) =
            [i \in DOMAIN names |-> EntryOf(nodes, digests, Append(up, names[i]), names[i])]
      BY <2>5 DEF BlobOf
    <2>9. content = [i \in DOMAIN content |-> content[i]]
      <3>1. PICK S : content \in Seq(S)
        BY <2>3 DEF DirectoryLaid
      <3> QED
        BY <3>1
    <2>10. content = BlobOf(nodes, digests, up)
      BY <2>6, <2>7, <2>8, <2>9
    <2> QED
      BY <2>2, <2>10
  <1> QED
    BY <1>4, <1>6, <1>7, <1>8 DEF Holds

\* An adaptor that is mounted has nothing open.
LEMMA InvBegins ==
  ASSUME IsTree(source'), Holds(table', root', source'), read_cache_mode' \in {"none", "one_piece"},
         files' = <<>>, handles' = [h \in Handle |-> {}], reading' = {}, terminated' = FALSE
  PROVE  AdaptorInv'
  <1>1. Mounted'
    BY DEF Mounted
  <1>2. HandlesOK(handles')
    BY DEF HandlesOK
  <1>3. SlotsOK(table', source', read_cache_mode', files', handles')
    <2>1. IsSequence(files') /\ Len(files') = 0 /\ DOMAIN files' = {}
      <3>1. files' \in Seq({}) /\ Len(files') = 0 /\ DOMAIN files' = {}
        OBVIOUS
      <3> QED
        BY <3>1, AnySequence
    <2>2. Cardinality(Handle) \in Nat
      BY KernelAssumption, FS_CardinalityType
    <2> QED
      BY <2>1, <2>2 DEF SlotsOK
  <1> QED
    BY <1>1, <1>2, <1>3 DEF AdaptorInv

\* No request writes to the database.
LEMMA OnlyReads == Next => UNCHANGED database
  BY DEF Next, Getattr, Readdir, Open, OpenRegular, Release, Read, ReadLoop, ReadReturns,
         Throw, Answer

\* And none is handled once an exception has left a handler.
LEMMA NothingHandled == terminated /\ reading = {} => ~ Next
  BY DEF Next, Idle, Getattr, Readdir, Open, Release, Read, ReadLoop

\* What is in a slot is in use for a handle.
LEMMA SlotHeld ==
  ASSUME AdaptorInv, NEW i \in DOMAIN files, NEW opened \in files[i]
  PROVE  \E h, o, content : h \in Handle /\ Held(h, o, opened, content) /\ i = o.fh + 1
  <1>1. SlotsOK(table, source, read_cache_mode, files, handles)
    BY DEF AdaptorInv
  <1>2. PICK h \in Handle : \E o \in handles[h] : i = o.fh + 1
    BY <1>1 DEF SlotsOK
  <1>3. PICK p \in handles[h] : i = p.fh + 1
    BY <1>2
  <1>4. PICK o, other, content : Held(h, o, other, content)
    BY <1>3, HeldFile
  <1>5. p = o /\ opened = other
    BY <1>3, <1>4 DEF Held
  <1> QED
    BY <1>3, <1>4, <1>5

\* The adaptor was mounted on one of the databases.
Origin ==
  \E imported \in Imported :
    table = imported.table /\ root = imported.root /\ source = imported.tree

LEMMA OriginStays ==
  ASSUME Origin, [Next]_vars
  PROVE  Origin'
  <1>1. UNCHANGED database
    <2>1. ASSUME NEW path \in Path, Getattr(path) \/ Readdir(path) PROVE UNCHANGED database
      BY <2>1 DEF Getattr, Readdir, Answer, Throw
    <2>2. ASSUME NEW path \in Path, NEW h \in Handle, Open(path, h) PROVE UNCHANGED database
      BY <2>2 DEF Open, OpenRegular, Answer, Throw
    <2>3. ASSUME NEW h \in Handle, Release(h) PROVE UNCHANGED database
      BY <2>3 DEF Release, Answer
    <2>4. ASSUME NEW h, NEW offset, NEW size, Read(h, offset, size) PROVE UNCHANGED database
      BY <2>4 DEF Read, Throw
    <2>5. CASE ReadLoop
      BY <2>5 DEF ReadLoop, Throw
    <2>6. CASE UNCHANGED vars
      BY <2>6 DEF vars, database
    <2> QED
      BY <2>1, <2>2, <2>3, <2>4, <2>5, <2>6 DEF Next
  <1> QED
    BY <1>1 DEF Origin, database

LEMMA InvTypeOK ==
  ASSUME AdaptorInv, Origin
  PROVE  TypeOK
  <1>1. Mounted /\ HandlesOK(handles)
    BY DEF AdaptorInv
  <1>2. ASSUME NEW i \in DOMAIN files, NEW opened \in files[i]
        PROVE  /\ opened.file_size \in Nat
               /\ opened.cached_piece \subseteq Nat
               /\ opened.read_cache \in Seq(Byte)
    <2>1. PICK h, o, content : h \in Handle /\ Held(h, o, opened, content)
      BY SlotHeld
    <2>2. content \in Seq(Byte) /\ opened.file_size = Len(content) /\ opened.read_cache \in Seq(Byte)
      BY <1>1, <2>1, HeldContent
    <2>3. PICK n \in Nat : n = NumberOfPieces(Len(content))
      BY <2>2, PiecesOfSize
    <2>4. opened.cached_piece \subseteq 0 .. n - 1
      BY <2>1, <2>3 DEF Held, OpenFile, PiecesOf
    <2> QED
      BY <2>2, <2>4
  <1>3. DOMAIN handles = Handle /\ \A h \in Handle : handles[h] \subseteq [path : Path, fh : Nat]
    BY <1>1 DEF HandlesOK
  <1>4. \A r \in reading : r.copied \in Seq(Byte) /\ r.remaining_size \in Nat
    BY DEF AdaptorInv, ReadOK, Call
  <1>5. read_cache_mode \in {"none", "one_piece"} /\ terminated \in BOOLEAN
    BY DEF AdaptorInv
  <1> QED
    BY <1>1, <1>2, <1>3, <1>4, <1>5 DEF TypeOK, Origin

LEMMA InvSlotsMatchHandles ==
  ASSUME AdaptorInv
  PROVE  SlotsMatchHandles
  <1>1. /\ Mounted /\ HandlesOK(handles)
        /\ SlotsOK(table, source, read_cache_mode, files, handles)
    BY DEF AdaptorInv
  <1>2. ASSUME NEW i \in DOMAIN files
        PROVE  Cardinality(files[i]) =
                 Cardinality({h \in Handle : \E o \in handles[h] : o.fh + 1 = i})
    <2>1. PICK users : users = {h \in Handle : \E o \in handles[h] : o.fh + 1 = i}
      OBVIOUS
    <2>2. CASE files[i] = {}
      <3>1. users = {}
        BY <1>1, <2>1, <2>2 DEF SlotsOK, SlotOK
      <3> QED
        BY <2>1, <2>2, <3>1
    <2>3. CASE files[i] # {}
      <3>1. PICK opened : opened \in files[i]
        BY <2>3
      <3>2. PICK h, o, content : h \in Handle /\ Held(h, o, opened, content) /\ i = o.fh + 1
        BY <3>1, SlotHeld
      <3>3. files[i] = {opened} /\ o \in handles[h]
        BY <3>2 DEF Held
      <3>4. ASSUME NEW g \in Handle, NEW p \in handles[g], p.fh + 1 = i PROVE g = h
        <4>1. p.fh \in Nat /\ o.fh \in Nat
          BY <1>1, <3>2, <3>3 DEF HandlesOK
        <4>2. p.fh = o.fh
          BY <3>2, <3>4, <4>1
        <4> QED
          BY <1>1, <3>2, <3>3, <4>2 DEF HandlesOK
      <3>5. users = {h}
        BY <2>1, <3>2, <3>3, <3>4
      <3>6. Cardinality({opened}) = 1 /\ Cardinality({h}) = 1
        BY FS_Singleton
      <3> QED
        BY <2>1, <3>3, <3>5, <3>6
    <2> QED
      BY <2>2, <2>3
  <1>3. ASSUME NEW h \in Handle, NEW o \in handles[h]
        PROVE  \E entry \in Resolved(o.path), opened \in files[o.fh + 1] :
                 /\ entry.type = "regular_file"
                 /\ opened.hash_code = entry.hash_code
                 /\ opened.file_size = entry.regular_file_size
    <2>1. PICK p, opened, content : Held(h, p, opened, content)
      BY HeldFile
    <2>2. /\ p = o /\ opened \in files[o.fh + 1] /\ content = source[o.path].content
          /\ o.path \in RegularFiles(source)
      BY <2>1 DEF Held
    <2>3. opened.file_size = Len(content) /\ opened.hash_code = Sha256(FileIndex(content))
      BY <1>1, <2>1, HeldContent
    <2>4. o.path \in Path
      BY <1>1 DEF HandlesOK
    <2>5. Resolved(o.path) = {FoundFile(content)}
      BY <1>1, <2>2, <2>4, LookedUp
    <2>6. /\ FoundFile(content).type = "regular_file"
          /\ FoundFile(content).hash_code = Sha256(FileIndex(content))
          /\ FoundFile(content).regular_file_size = Len(content)
      BY DEF FoundFile
    <2> QED
      BY <2>2, <2>3, <2>5, <2>6
  <1> QED
    BY <1>1, <1>2, <1>3 DEF SlotsMatchHandles, SlotsOK

LEMMA InvCacheCoherent ==
  ASSUME AdaptorInv
  PROVE  CacheCoherent
  <1>1. Mounted
    BY DEF AdaptorInv
  <1>2. ASSUME NEW i \in DOMAIN files, NEW opened \in files[i]
        PROVE  /\ \A index \in opened.index :
                    index = LoadIndex(table, opened.file_size, opened.hash_code)
               /\ \A piece \in opened.cached_piece :
                    /\ read_cache_mode = "one_piece"
                    /\ \E index \in opened.index :
                         /\ piece < Len(index.pieces)
                         /\ opened.read_cache = table[index.pieces[piece + 1]]
    <2>1. PICK h, o, content : h \in Handle /\ Held(h, o, opened, content)
      BY SlotHeld
    <2>2. /\ content \in Seq(Byte) /\ ContentAddressed(table) /\ FileStored(table, content)
          /\ opened.file_size = Len(content) /\ opened.hash_code = Sha256(FileIndex(content))
          /\ opened.index \in {{}, {IndexOf(table, content)}}
      BY <1>1, <2>1, HeldContent
    <2>3. \A index \in opened.index : index = LoadIndex(table, opened.file_size, opened.hash_code)
      BY <2>2 DEF IndexOf
    <2>4. ASSUME NEW piece \in opened.cached_piece
          PROVE  /\ read_cache_mode = "one_piece"
                 /\ \E index \in opened.index :
                      /\ piece < Len(index.pieces)
                      /\ opened.read_cache = table[index.pieces[piece + 1]]
      <3>1. /\ opened.index # {} /\ read_cache_mode = "one_piece"
            /\ opened.read_cache = PieceOf(content, piece) /\ piece \in PiecesOf(content)
        BY <2>1 DEF Held, CacheOK, OpenFile
      <3>2. PICK index \in opened.index : index = IndexOf(table, content)
        BY <2>2, <3>1
      <3>3. PICK n \in Nat : n = NumberOfPieces(Len(content))
        BY <2>2, PiecesOfSize
      <3>4. Len(index.pieces) = n /\ table[index.pieces[piece + 1]] = PieceOf(content, piece)
        BY <2>2, <3>1, <3>2, <3>3, PiecesLoaded
      <3>5. piece < n
        BY <3>1, <3>3 DEF PiecesOf
      <3> QED
        BY <3>1, <3>2, <3>4, <3>5
    <2> QED
      BY <2>3, <2>4
  <1> QED
    BY <1>2 DEF CacheCoherent

\* The adaptor keeps its types, and its database is the one it was mounted
\* on, whatever is looked up, opened, read and released.
THEOREM TypesHold == Spec => []TypeOK
  <1>1. Init => Origin
    BY DEF Init, Origin
  <1>2. Origin /\ [Next]_vars => Origin'
    BY OriginStays
  <1> QED
    BY AdaptorInvHolds, InvTypeOK, <1>1, <1>2, PTL DEF Spec

\* A slot is in use for one open file of the kernel, and for the file that was
\* opened, however slots are released and used again: fh never leads a read to
\* another file, and there are never more slots than files open at once.
THEOREM SlotsMatch == Spec => []SlotsMatchHandles
  BY AdaptorInvHolds, InvSlotsMatchHandles, PTL

\* The index and the piece in the cache of an open file are what the database
\* has for the file in this slot, after any number of reads of other pieces.
THEOREM CachesAreCoherent == Spec => []CacheCoherent
  BY AdaptorInvHolds, InvCacheCoherent, PTL

\* No request reaches a TO_DO on a directory that was imported.
THEOREM RequestsNeverThrow == Spec => []NeverThrows
  <1>1. AdaptorInv => NeverThrows
    BY DEF AdaptorInv, NeverThrows
  <1> QED
    BY AdaptorInvHolds, <1>1, PTL

\* The adaptor implements the file system it promises: every answer to a
\* lookup, a listing, an open or a read is what the tree that was imported
\* says, for any tree, any length of a piece and any cache mode.
THEOREM AdaptorServesSource == Spec => ServesSource
  <1>1. Init => Fs!Init
    BY InitInv
  <1>2. AdaptorInv /\ [Next]_vars => [Fs!Next]_(Fs!vars)
    BY NextStep DEF ServedStep
  <1> QED
    BY AdaptorInvHolds, <1>1, <1>2, PTL DEF Spec, ServesSource, Fs!Spec
=============================================================================

---------------------------- MODULE FuseAdaptor ----------------------------
(***************************************************************************)
(* The FUSE adaptor (fuse_adaptor/operations.cpp) and read_file            *)
(* (trees/read_file.cpp): an imported directory is looked up, listed,      *)
(* opened and read.  fuse_loop runs one handler at a time, so each handler *)
(* is one step; only the loop of read_file is taken apart, one iteration   *)
(* per step, because it is where the cache of an open file is used.        *)
(*                                                                         *)
(* The kernel is the environment.  It names an open file by a handle of    *)
(* its own, and passes back the fh that open gave it.                      *)
(***************************************************************************)
EXTENDS Directory, FiniteSets

CONSTANTS
  Path,           \* paths that are looked up
  Handle,         \* files the kernel may have open at once
  ReadSizes,      \* sizes of reads
  Imported        \* the databases and roots it may be mounted with, each with
                  \* the tree that was imported

(***************************************************************************)
(* What the kernel may ask for.                                            *)
(***************************************************************************)
IsSequence(s) == s \in Seq({s[i] : i \in DOMAIN s})

ASSUME KernelAssumption ==
  /\ \A path \in Path : IsSequence(path)
  /\ IsFiniteSet(Handle)
  /\ ReadSizes \subseteq Nat

(***************************************************************************)
(* What the adaptor is mounted on: a table with all the blobs of a tree,   *)
(* as an import leaves it behind (see TreeImport).  A tree has its nodes   *)
(* by their paths, and the names of a directory in the order of its blob.  *)
(***************************************************************************)
Directories(tree) == {path \in DOMAIN tree : tree[path].type = "directory"}
RegularFiles(tree) == {path \in DOMAIN tree : tree[path].type = "regular_file"}

IsTree(tree) ==
  /\ <<>> \in Directories(tree)
  /\ \A path \in DOMAIN tree : path \in Directories(tree) \cup RegularFiles(tree)
  /\ \A path \in RegularFiles(tree) : tree[path].content \in Seq(Byte)
  /\ \A path \in DOMAIN tree \ {<<>>} :
       \E up \in Directories(tree) : \E i \in DOMAIN tree[up].names :
         path = Append(up, tree[up].names[i])
  /\ \A up \in Directories(tree) :
       LET names == tree[up].names
       IN  /\ IsSequence(up) /\ IsSequence(names)
           /\ \A i \in DOMAIN names : Append(up, names[i]) \in DOMAIN tree
           /\ \A i, j \in DOMAIN names : names[i] = names[j] => i = j

\* The entry for a node, if the directories are stored as the given digests.
EntryOf(tree, digests, path, name) ==
  IF path \in RegularFiles(tree)
  THEN DirectoryEntry("regular_file", name, Sha256(FileIndex(tree[path].content)),
                      Len(tree[path].content))
  ELSE DirectoryEntry("directory", name, digests[path], 0)

BlobOf(tree, digests, up) ==
  [i \in DOMAIN tree[up].names |->
     EntryOf(tree, digests, Append(up, tree[up].names[i]), tree[up].names[i])]

Holds(rows, digest, tree) ==
  /\ ContentAddressed(rows)
  /\ \A path \in RegularFiles(tree) : FileStored(rows, tree[path].content)
  /\ \E digests \in [Directories(tree) -> DOMAIN rows] :
       /\ digests[<<>>] = digest
       /\ \A up \in Directories(tree) : rows[digests[up]] = BlobOf(tree, digests, up)

ASSUME ImportedAssumption ==
  \A imported \in Imported :
    IsTree(imported.tree) /\ Holds(imported.table, imported.root, imported.tree)

VARIABLES
  table,          \* user_data::database
  root,           \* user_data::root
  read_cache_mode,\* user_data::read_cache_mode
  files,          \* user_data::files; slot fh is element fh + 1
  handles,        \* the kernel's open files: the path and the fh of each
  reading,        \* the read_file that is running, if any
  reply,          \* the last answer of a handler, if nothing has happened since
  terminated,     \* an exception has left a handler
  source          \* history: the tree that was imported with this root

vars == <<table, root, read_cache_mode, files, handles, reading, reply, terminated, source>>
database == <<table, root, read_cache_mode, source>>

The(optional) == CHOOSE x \in optional : TRUE

\* std::min; and the defect that the second bound is forgotten.
FirstOf(a, b) == a
Minimum(a, b) == IF a <= b THEN a ELSE b

NewOpenFile(entry) ==
  [file_size |-> entry.regular_file_size, hash_code |-> entry.hash_code,
   index |-> {}, cached_piece |-> {}, read_cache |-> <<>>]

Init ==
  /\ \E imported \in Imported :
       table = imported.table /\ root = imported.root /\ source = imported.tree
  /\ read_cache_mode \in {"none", "one_piece"}
  /\ files = <<>>
  /\ handles = [h \in Handle |-> {}]
  /\ reading = {}
  /\ reply = {}
  /\ terminated = FALSE

-----------------------------------------------------------------------------
\* fuse_loop takes the next request.
Idle == reading = {} /\ ~ terminated

\* A TO_DO: the exception leaves the handler and ends the process.
Throw ==
  /\ terminated' = TRUE
  /\ reading' = {}
  /\ reply' = {}
  /\ UNCHANGED <<database, files, handles>>

Answer(answer) ==
  /\ reply' = {answer}
  /\ UNCHANGED <<database, reading, terminated>>

Resolved(path) == ResolvePath(table, root, path)

Getattr(path) ==
  /\ Idle
  /\ IF Resolved(path) = {Unreadable}
     THEN Throw
     ELSE /\ Answer([to |-> "getattr", path |-> path,
                     stat |-> {Stat(entry) : entry \in Resolved(path)}])
          /\ UNCHANGED <<files, handles>>

\* The kernel lists what it has looked up as a directory.
Readdir(path) ==
  /\ Idle
  /\ \A entry \in Resolved(path) : entry.type # "regular_file"
  /\ IF \E entry \in Resolved(path) :
          entry = Unreadable \/ ~ Stored(table, entry.hash_code)
     THEN Throw
     ELSE /\ Answer([to |-> "readdir", path |-> path,
                     listing |-> {Listing(table[entry.hash_code]) :
                                    entry \in Resolved(path)}])
          /\ UNCHANGED <<files, handles>>

\* The slot a new file is put into: the first free one, or a new last one; and
\* the defect that free ones are not looked for.
AlwaysNewSlot == Len(files)
FreeSlot ==
  CHOOSE fh \in 0 .. Len(files) :
    /\ fh < Len(files) => files[fh + 1] = {}
    /\ \A other \in 0 .. fh - 1 : files[other + 1] # {}

OpenRegular(path, h, entry) ==
  /\ files' = IF FreeSlot = Len(files)
              THEN Append(files, {NewOpenFile(entry)})
              ELSE [files EXCEPT ![FreeSlot + 1] = {NewOpenFile(entry)}]
  /\ handles' = [handles EXCEPT ![h] = {[path |-> path, fh |-> FreeSlot]}]
  /\ Answer([to |-> "open", path |-> path, error |-> "none"])

Open(path, h) ==
  /\ Idle
  /\ handles[h] = {}
  /\ IF Resolved(path) = {Unreadable}
     THEN Throw
     ELSE \/ /\ \E entry \in Resolved(path) :
                  entry.type = "regular_file" /\ OpenRegular(path, h, entry)
          \/ /\ \A entry \in Resolved(path) : entry.type = "directory"
             /\ Answer([to |-> "open", path |-> path,
                        error |-> IF Resolved(path) = {} THEN "ENOENT" ELSE "EISDIR"])
             /\ UNCHANGED <<files, handles>>

Release(h) ==
  /\ Idle
  /\ handles[h] # {}
  /\ files' = [files EXCEPT ![The(handles[h]).fh + 1] = {}]
  /\ handles' = [handles EXCEPT ![h] = {}]
  /\ Answer([to |-> "release"])

-----------------------------------------------------------------------------
(* adaptor_read *)

\* The index is loaded by the first read of an open file, then the loop of
\* read_file starts.  The kernel knows the size of the file and starts no
\* read behind its end.
Read(h, offset, size) ==
  /\ Idle
  /\ handles[h] # {}
  /\ LET fh == The(handles[h]).fh
         opened == The(files[fh + 1])
         index == LoadIndex(table, opened.file_size, opened.hash_code)
     IN  IF opened.index = {} /\ ~ CanLoadIndex(table, opened.file_size, opened.hash_code)
         THEN Throw
         ELSE /\ files' = IF opened.index # {} THEN files
                          ELSE [files EXCEPT ![fh + 1] = {[opened EXCEPT !.index = {index}]}]
              /\ reading' = {[handle |-> h, fh |-> fh, offset |-> offset, size |-> size,
                              read_cursor |-> offset, remaining_size |-> size,
                              copied |-> <<>>]}
              /\ reply' = {}
              /\ UNCHANGED <<database, handles, terminated>>

\* The piece the cursor is in: the cached one, or one that is loaded, or else
\* the tail.  The defect is to take whatever is cached.
AnyInCache(opened, piece) == opened.cached_piece # {}
InCache(opened, piece) == opened.cached_piece = {piece}
MustLoad(opened, piece) ==
  ~ InCache(opened, piece) /\ piece < Len(The(opened.index).pieces)

Piece(opened, piece) ==
  IF InCache(opened, piece) THEN opened.read_cache
  ELSE IF MustLoad(opened, piece) THEN table[The(opened.index).pieces[piece + 1]]
  ELSE The(opened.index).tail

\* A piece that was loaded stays in the cache, if there is one.  The defect is
\* to note the tail as cached too, although it was not loaded.
CachedOrTail(opened, piece) ==
  IF read_cache_mode = "one_piece"
  THEN [opened EXCEPT !.cached_piece = {piece},
                      !.read_cache = IF MustLoad(opened, piece) THEN Piece(opened, piece) ELSE @]
  ELSE opened

Cached(opened, piece) ==
  IF read_cache_mode = "one_piece" /\ MustLoad(opened, piece)
  THEN [opened EXCEPT !.cached_piece = {piece}, !.read_cache = Piece(opened, piece)]
  ELSE opened

\* Nothing is left to copy from the piece; and the defect of one byte more.
WellBehindPiece(offset_in_piece, piece) == offset_in_piece > Len(piece)
BehindPiece(offset_in_piece, piece) == offset_in_piece >= Len(piece)

\* read_file returns, and so does the handler.
ReadReturns(r) ==
  /\ reading' = {}
  /\ reply' = {[to |-> "read", handle |-> r.handle, offset |-> r.offset,
                size |-> r.size, data |-> r.copied]}

\* One iteration of the loop of read_file.
ReadLoop ==
  /\ reading # {}
  /\ LET r == The(reading)
         opened == The(files[r.fh + 1])
         current_piece_index == r.read_cursor \div PieceLength
         offset_in_piece == r.read_cursor % PieceLength
         piece == Piece(opened, current_piece_index)
         copying == Minimum(Len(piece) - offset_in_piece, r.remaining_size)
     IN  IF r.remaining_size = 0
         THEN ReadReturns(r) /\ UNCHANGED <<database, files, handles, terminated>>
         ELSE IF /\ MustLoad(opened, current_piece_index)
                 /\ ~ Stored(table, The(opened.index).pieces[current_piece_index + 1])
         THEN Throw
         ELSE /\ files' = [files EXCEPT ![r.fh + 1] = {Cached(opened, current_piece_index)}]
              /\ IF BehindPiece(offset_in_piece, piece)
                 THEN ReadReturns(r)
                 ELSE /\ reading' = {[r EXCEPT
                            !.copied = @ \o ReadAt(piece, offset_in_piece, copying),
                            !.read_cursor = @ + copying,
                            !.remaining_size = @ - copying]}
                      /\ UNCHANGED reply
              /\ UNCHANGED <<database, handles, terminated>>

Next ==
  \/ \E path \in Path : Getattr(path) \/ Readdir(path)
  \/ \E path \in Path, h \in Handle : Open(path, h)
  \/ \E h \in Handle : Release(h)
  \/ \E h \in Handle, size \in ReadSizes : \E o \in handles[h] :
       \E offset \in 0 .. The(files[o.fh + 1]).file_size : Read(h, offset, size)
  \/ ReadLoop

Spec == Init /\ [][Next]_vars

\* A loop that is running goes on.
FairSpec == Spec /\ WF_vars(ReadLoop)

-----------------------------------------------------------------------------
\* The types of the variables; user_data::database and root stay what they
\* were when the adaptor was mounted (user_data.h:11).
TypeOK ==
  /\ \E imported \in Imported :
       table = imported.table /\ root = imported.root /\ source = imported.tree
  /\ read_cache_mode \in {"none", "one_piece"}
  /\ \A i \in DOMAIN files : \A opened \in files[i] :
       /\ opened.file_size \in Nat
       /\ opened.cached_piece \subseteq Nat
       /\ opened.read_cache \in Seq(Byte)
  /\ DOMAIN handles = Handle
  /\ \A h \in Handle : handles[h] \subseteq [path : Path, fh : Nat]
  /\ \A r \in reading : r.copied \in Seq(Byte) /\ r.remaining_size \in Nat
  /\ terminated \in BOOLEAN

\* A slot is in use for one open file of the kernel, with the digest and the
\* size the path of that file leads to, or it is free.  Slots of released
\* files are used again: there are never more than files were open at once
\* (operations.cpp:193 to 207 and 218).
SlotsMatchHandles ==
  /\ Len(files) <= Cardinality(Handle)
  /\ \A i \in DOMAIN files :
       Cardinality(files[i]) = Cardinality({h \in Handle : \E o \in handles[h] : o.fh + 1 = i})
  /\ \A h \in Handle : \A o \in handles[h] :
       \E entry \in Resolved(o.path), opened \in files[o.fh + 1] :
         /\ entry.type = "regular_file"
         /\ opened.hash_code = entry.hash_code
         /\ opened.file_size = entry.regular_file_size

\* The index and the one cached piece of an open file are those of the file
\* that has the slot now, and no other piece is served from the cache.  With
\* caching off there is no cached piece (read_file.cpp:20 and 39 to 44).
CacheCoherent ==
  \A i \in DOMAIN files : \A opened \in files[i] :
    /\ \A index \in opened.index :
         index = LoadIndex(table, opened.file_size, opened.hash_code)
    /\ \A piece \in opened.cached_piece :
         /\ read_cache_mode = "one_piece"
         /\ \E index \in opened.index :
              /\ piece < Len(index.pieces)
              /\ opened.read_cache = table[index.pieces[piece + 1]]

\* No request ever ends the process: whatever the root leads to is stored,
\* and an index is as long as the recorded size says (the TO_DO of
\* operations.cpp:70 and 152, read_file.cpp:34 and 41, and
\* regular_file_index.cpp:16, 29 and 38).
NeverThrows == ~ terminated

\* The adaptor serves the directory that was imported: every answer to a
\* lookup, a listing, an open or a read is what the source tree says, however
\* a read is cut into pieces and whatever is cached.
Fs == INSTANCE ReadOnlyFs WITH
  tree <- source,
  opened <- [h \in Handle |-> {o.path : o \in handles[h]}]
ServesSource == Fs!Spec

\* Every read returns (the loop at read_file.cpp:16 to 60 makes progress).
ReadsReturn == reading # {} ~> reading = {}
=============================================================================

------------------------- MODULE InMemoryFuseProofs -------------------------
(***************************************************************************)
(* Theorems about InMemoryFuse, for any number of threads and of changes   *)
(* of the input directory: what is scanned was there, no thread uses a     *)
(* tree that was replaced, only the scan ends the process, and the         *)
(* frontend serves one tree.                                               *)
(***************************************************************************)
EXTENDS InMemoryFuse, SequenceTheorems, FiniteSetTheorems, TLAPS

-----------------------------------------------------------------------------
(***************************************************************************)
(* The invariant.  A path in the tree, or one that is still to be scanned, *)
(* has only directories above it, so a walk to it does not end early.      *)
(***************************************************************************)
Reaches(nodes, path) ==
  \A i \in 0 .. Len(path) - 1 :
    Prefix(path, i) \in DOMAIN nodes /\ nodes[Prefix(path, i)].type = "directory"

NodesOK(nodes) ==
  \A path \in DOMAIN nodes :
    /\ IsSequence(path) /\ Reaches(nodes, path)
    /\ nodes[path].type \in {"directory", "regular_file"}
    /\ nodes[path].type = "regular_file" => IsSequence(nodes[path].content)

\* What a node says was on disk during the scan.
WasThere(disks, path, node) ==
  /\ \E d \in disks : path \in DOMAIN d /\ d[path].type = node.type
  /\ node.type = "regular_file" =>
       \E measured, d \in {e \in disks : path \in DOMAIN e} :
         /\ Len(node.content) = Len(measured[path].content)
         /\ IsPrefix(node.content, d[path].content)

OnDisk(d) == {path \in DOMAIN d : d[path].type \in {"directory", "regular_file"}}

RootFound(nodes) == <<>> \in DOMAIN nodes /\ nodes[<<>>].type = "directory"

TreeOK(trees, disks) ==
  \A nodes \in trees :
    /\ trees = {nodes}
    /\ NodesOK(nodes) /\ RootFound(nodes)
    /\ \A path \in DOMAIN nodes : WasThere(disks, path, nodes[path])
    /\ \A d \in disks : disks = {d} => DOMAIN nodes = OnDisk(d)

\* A path that is still to be scanned, or that of the file that is read next.
ToScan(s, path) ==
  IsSequence(path) /\ path \notin DOMAIN s.found /\ Reaches(s.found, path)

Measured(disks, s, file) ==
  /\ s.file = {file} /\ file = [path |-> file.path, content |-> file.content]
  /\ ToScan(s, file.path) /\ file.path \notin s.todo
  /\ IsSequence(file.content)
  /\ \E d \in disks : /\ file.path \in DOMAIN d /\ d[file.path].type = "regular_file"
                      /\ file.content = d[file.path].content

\* Whether a path is found already, or will be.
Covered(s, path) ==
  \/ path \in DOMAIN s.found
  \/ \E file \in s.file : file.path = path
  \/ \E i \in 0 .. Len(path) : Prefix(path, i) \in s.todo

ScanOK(disks, s) ==
  /\ s = [todo |-> s.todo, file |-> s.file, found |-> s.found]
  /\ NodesOK(s.found)
  /\ \A path \in s.todo : ToScan(s, path)
  /\ \A file \in s.file : Measured(disks, s, file)
  /\ \A path \in DOMAIN s.found : WasThere(disks, path, s.found[path])
  /\ <<>> \in s.todo \/ RootFound(s.found)
  /\ \A d \in disks : disks = {d} => \A path \in OnDisk(d) : Covered(s, path)

\* What the kernel knows of the tree.
ToldBy(trees, path, type) ==
  \/ path = <<>> /\ type = "directory"
  \/ \E nodes \in trees : path \in DOMAIN nodes /\ nodes[path].type = type

OpenFile == [path : Path, root : Nat]

HandlesOK(trees, last, open) ==
  /\ open \in [Handle -> SUBSET OpenFile]
  /\ \A h \in Handle : \A node \in open[h] :
       /\ open[h] = {node} /\ node.root = last
       /\ \E nodes \in trees : /\ node.path \in DOMAIN nodes
                               /\ nodes[node.path].type = "regular_file"

RequestOK(trees, open, q) ==
  \/ /\ q \in [to : {"getattr"}, path : Path]
     /\ \A i \in 0 .. Len(q.path) - 1 : ToldBy(trees, Prefix(q.path, i), "directory")
  \/ /\ q \in [to : {"readdir"}, path : Path]
     /\ ToldBy(trees, q.path, "directory")
  \/ /\ q \in [to : {"open"}, path : Path, handle : Handle, flags : {"O_RDONLY", "O_WRONLY"}]
     /\ ToldBy(trees, q.path, "regular_file") /\ open[q.handle] = {}
  \/ /\ q \in [to : {"read"}, handle : Handle, offset : Nat, size : Nat]
     /\ open[q.handle] # {}

\* A handler; those that have left require_tree have a tree.
ThreadOK(trees, last, open, th) ==
  /\ th = [at |-> th.at, request |-> th.request, root |-> th.root]
  /\ th.at \in {"require_tree", "scan", "answer"}
  /\ RequestOK(trees, open, th.request)
  /\ th.at # "answer" => th.request.to # "read"
  /\ th.at = "answer" => trees # {} /\ (th.request.to # "read" => th.root = last)

ThreadsOK(trees, last, open, ths) ==
  /\ DOMAIN ths = Thread
  /\ \A t \in Thread : ths[t] # Idle => ThreadOK(trees, last, open, ths[t])
  /\ \A t, u \in Thread :
       /\ ths[t] # Idle /\ ths[u] # Idle
       /\ ths[t].request.to = "open" /\ ths[u].request.to = "open"
       /\ ths[t].request.handle = ths[u].request.handle
       => t = u

ScansOK(d, disks, trees, scans, ths) ==
  /\ DOMAIN scans = Thread
  /\ \A t \in Thread :
       ths[t].at = "scan" => trees = {} /\ d \in disks /\ ScanOK(disks, scans[t])

MutexOK(owner, ths) ==
  /\ owner = {t \in Thread : ths[t].at = "scan"}
  /\ \A t \in owner : owner = {t}

MemInv ==
  /\ disk \in Disks /\ seen \subseteq Disks
  /\ generation \in Nat
  /\ TreeOK(tree, seen)
  /\ HandlesOK(tree, generation, handles)
  /\ ThreadsOK(tree, generation, handles, thread)
  /\ MutexOK(mutex, thread)
  /\ ScansOK(disk, seen, tree, scan, thread)
  /\ reply # {} => tree # {}
  /\ terminated \in BOOLEAN /\ (terminated => tree = {})

-----------------------------------------------------------------------------
(* Paths. *)

LEMMA SequenceShape ==
  ASSUME NEW s, IsSequence(s)
  PROVE  Len(s) \in Nat /\ DOMAIN s = 1 .. Len(s) /\ \E S : s \in Seq(S)
  BY DEF IsSequence

LEMMA AnySequence ==
  ASSUME NEW T, NEW s \in Seq(T)
  PROVE  IsSequence(s)
  <1>1. PICK n \in Nat : n = Len(s) /\ s \in [1 .. n -> T] /\ DOMAIN s = 1 .. n
    BY LenProperties
  <1>2. PICK U : U = {s[i] : i \in DOMAIN s}
    OBVIOUS
  <1>3. \A i \in 1 .. n : s[i] \in U
    BY <1>1, <1>2
  <1>4. s \in [1 .. n -> U]
    BY <1>1, <1>3
  <1>5. s \in Seq(U)
    BY <1>4
  <1> QED
    BY <1>2, <1>5 DEF IsSequence

LEMMA PrefixOfPrefix ==
  ASSUME NEW S, NEW path \in Seq(S), NEW i \in 0 .. Len(path), NEW j \in 0 .. i
  PROVE  /\ Prefix(path, i) \in Seq(S) /\ Len(Prefix(path, i)) = i
         /\ Prefix(Prefix(path, i), j) = Prefix(path, j)
  <1>1. PICK n \in Nat : n = Len(path) /\ \A k \in 1 .. n : path[k] \in S
    BY LenProperties
  <1>2. i \in Nat /\ j \in Nat /\ j <= i /\ i <= n
    BY <1>1
  <1>3. ASSUME NEW k \in 0 .. n
        PROVE  /\ Prefix(path, k) \in Seq(S) /\ Len(Prefix(path, k)) = k
               /\ \A m \in 1 .. k : Prefix(path, k)[m] = path[m]
    <2>1. k \in Int /\ 1 \in Int /\ \A m \in 1 .. k : path[m] \in S
      BY <1>1
    <2>2. /\ SubSeq(path, 1, k) \in Seq(S)
          /\ Len(SubSeq(path, 1, k)) = IF 1 <= k THEN k - 1 + 1 ELSE 0
          /\ \A m \in 1 .. k - 1 + 1 : SubSeq(path, 1, k)[m] = path[1 + m - 1]
      BY <2>1, SubSeqProperties
    <2>3. Len(SubSeq(path, 1, k)) = k
      BY <2>2
    <2>4. \A m \in 1 .. k : SubSeq(path, 1, k)[m] = path[m]
      <3>1. ASSUME NEW m \in 1 .. k PROVE SubSeq(path, 1, k)[m] = path[m]
        <4>1. m \in 1 .. k - 1 + 1 /\ 1 + m - 1 = m
          OBVIOUS
        <4> QED
          BY <2>2, <4>1
      <3> QED
        BY <3>1
    <2> QED
      BY <2>2, <2>3, <2>4 DEF Prefix
  <1>4. PICK above : above = Prefix(path, i)
    OBVIOUS
  <1>5. above \in Seq(S) /\ Len(above) = i /\ \A m \in 1 .. i : above[m] = path[m]
    BY <1>2, <1>3, <1>4
  <1>6. /\ Prefix(above, j) \in Seq(S) /\ Len(Prefix(above, j)) = j
        /\ \A m \in 1 .. j : Prefix(above, j)[m] = above[m]
    <2>1. j \in Int /\ 1 \in Int /\ \A m \in 1 .. j : above[m] \in S
      BY <1>1, <1>2, <1>5
    <2>2. /\ SubSeq(above, 1, j) \in Seq(S)
          /\ Len(SubSeq(above, 1, j)) = IF 1 <= j THEN j - 1 + 1 ELSE 0
          /\ \A m \in 1 .. j - 1 + 1 : SubSeq(above, 1, j)[m] = above[1 + m - 1]
      BY <2>1, SubSeqProperties
    <2>3. Len(SubSeq(above, 1, j)) = j
      BY <1>2, <2>2
    <2>4. ASSUME NEW m \in 1 .. j PROVE SubSeq(above, 1, j)[m] = above[m]
      <3>1. m \in 1 .. j - 1 + 1 /\ 1 + m - 1 = m
        BY <1>2
      <3> QED
        BY <2>2, <3>1
    <2> QED
      BY <2>2, <2>3, <2>4 DEF Prefix
  <1>7. /\ Prefix(path, j) \in Seq(S) /\ Len(Prefix(path, j)) = j
        /\ \A m \in 1 .. j : Prefix(path, j)[m] = path[m]
    BY <1>2, <1>3
  <1>8. \A m \in 1 .. j : above[m] = path[m]
    BY <1>2, <1>5
  <1>9. Prefix(above, j) = Prefix(path, j)
    <2>1. PICK s, t : s = Prefix(above, j) /\ t = Prefix(path, j)
      OBVIOUS
    <2>2. /\ s \in Seq(S) /\ t \in Seq(S) /\ Len(s) = j /\ Len(t) = j
          /\ \A m \in 1 .. j : s[m] = t[m]
      BY <1>6, <1>7, <1>8, <2>1
    <2> QED
      BY <2>1, <2>2, SeqEqual
  <1> QED
    BY <1>4, <1>5, <1>9

\* What a walk along a path goes through.
HasPrefixes(path, n) ==
  /\ n = Len(path)
  /\ Prefix(path, n) = path /\ Prefix(path, 0) = <<>>
  /\ \A i \in 0 .. n : IsSequence(Prefix(path, i)) /\ Len(Prefix(path, i)) = i
  /\ \A i \in 0 .. n : \A j \in 0 .. i : Prefix(Prefix(path, i), j) = Prefix(path, j)

LEMMA PathPrefixes ==
  ASSUME NEW path, IsSequence(path)
  PROVE  \E n \in Nat : HasPrefixes(path, n)
  <1>1. PICK n, S : n \in Nat /\ n = Len(path) /\ path \in Seq(S)
    BY SequenceShape
  <1>2. Prefix(path, n) = path
    BY <1>1, SubSeqFull DEF Prefix
  <1>3. Prefix(path, 0) = <<>>
    BY SubSeqEmpty DEF Prefix
  <1>4. ASSUME NEW i \in 0 .. n, NEW j \in 0 .. i
        PROVE  /\ Prefix(path, i) \in Seq(S) /\ Len(Prefix(path, i)) = i
               /\ Prefix(Prefix(path, i), j) = Prefix(path, j)
    BY <1>1, PrefixOfPrefix
  <1>5. ASSUME NEW i \in 0 .. n PROVE IsSequence(Prefix(path, i)) /\ Len(Prefix(path, i)) = i
    <2>1. 0 \in 0 .. i
      OBVIOUS
    <2>2. Prefix(path, i) \in Seq(S) /\ Len(Prefix(path, i)) = i
      BY <1>4, <2>1
    <2> QED
      BY <2>2, AnySequence
  <1> QED
    BY <1>1, <1>2, <1>3, <1>4, <1>5 DEF HasPrefixes

\* A walk to a path with directories above it ends there.
LEMMA WalkReaches ==
  ASSUME NEW path, IsSequence(path), Reaches(Nodes, path)
  PROVE  WalkEnd(path) = path /\ Reached(path) = {Nodes[p] : p \in DOMAIN Nodes \cap {path}}
  <1>1. PICK n \in Nat : HasPrefixes(path, n)
    BY PathPrefixes
  <1>2. PICK ends : ends = {i \in 0 .. Len(path) : i = Len(path) \/ ~ IsDirectory(Prefix(path, i))}
    OBVIOUS
  <1>3. ends = {n}
    <2>1. ASSUME NEW i \in 0 .. n - 1 PROVE IsDirectory(Prefix(path, i))
      BY <1>1 DEF Reaches, IsDirectory, HasPrefixes
    <2>2. Len(path) = n
      BY <1>1 DEF HasPrefixes
    <2>3. \A i \in 0 .. n : i = n \/ i \in 0 .. n - 1
      OBVIOUS
    <2> QED
      BY <1>2, <2>1, <2>2, <2>3
  <1>4. (CHOOSE i \in ends : \A j \in ends : i <= j) = n
    BY <1>3
  <1>5. WalkEnd(path) = Prefix(path, n)
    BY <1>2, <1>4 DEF WalkEnd
  <1>6. WalkEnd(path) = path
    BY <1>1, <1>5 DEF HasPrefixes
  <1> QED
    BY <1>6 DEF Reached

\* What the kernel was told is there.
LEMMA ToldPath ==
  ASSUME NEW nodes, NodesOK(nodes), RootFound(nodes), NEW path, NEW type, ToldBy({nodes}, path, type)
  PROVE  /\ path \in DOMAIN nodes /\ nodes[path].type = type
         /\ IsSequence(path) /\ Reaches(nodes, path)
  <1>1. path \in DOMAIN nodes /\ nodes[path].type = type
    BY DEF ToldBy, RootFound
  <1> QED
    BY <1>1 DEF NodesOK

\* The entries of a directory are in the tree.
LEMMA EntriesPresent ==
  ASSUME NEW path
  PROVE  \E n \in Nat : /\ n = Len(EntriesOf(path)) /\ DOMAIN EntriesOf(path) = 1 .. n
                        /\ IsSequence(EntriesOf(path))
                        /\ \A k \in 1 .. n : Append(path, EntriesOf(path)[k]) \in DOMAIN Nodes
  <1>1. PICK N \in Nat : DOMAIN Names = 1 .. N
    BY NamesAssumption, SequenceShape
  <1>2. PICK here : here = Present(path)
    OBVIOUS
  <1>3. here \subseteq 1 .. N
    BY <1>1, <1>2 DEF Present
  <1>4. IsFiniteSet(here)
    <2>1. IsFiniteSet(1 .. N)
      BY FS_Interval
    <2> QED
      BY <1>3, <2>1, FS_Subset
  <1>5. PICK n \in Nat : n = Cardinality(here)
    BY <1>4, FS_CardinalityType
  <1>6. PICK rank : rank = [i \in here |-> Rank(path, i)]
    OBVIOUS
  <1> DEFINE upto(i) == {j \in here : j <= i}
  <1>7. ASSUME NEW i \in here
        PROVE  IsFiniteSet(upto(i)) /\ rank[i] = Cardinality(upto(i)) /\ rank[i] \in 1 .. n
    <2>1. IsFiniteSet(upto(i)) /\ Cardinality(upto(i)) <= n
      BY <1>4, <1>5, FS_Subset
    <2>2. Cardinality(upto(i)) \in Nat
      BY <2>1, FS_CardinalityType
    <2>3. i \in upto(i)
      BY <1>3
    <2>4. Cardinality(upto(i)) # 0
      BY <2>1, <2>3, FS_EmptySet
    <2>5. rank[i] = Cardinality(upto(i))
      BY <1>2, <1>6 DEF Rank
    <2> QED
      BY <2>1, <2>2, <2>4, <2>5
  <1>8. rank \in [here -> 1 .. n]
    BY <1>6, <1>7
  <1>9. ASSUME NEW i \in here, NEW j \in here, i < j PROVE rank[i] # rank[j]
    <2>1. i \in Nat /\ j \in Nat /\ \A k \in here : k \in Nat
      BY <1>3
    <2>4. j \in upto(j) /\ ~ (j \in upto(i))
      BY <1>9, <2>1
    <2>5. \A k \in here : k <= i => k <= j
      BY <1>9, <2>1
    <2>6. upto(i) \subseteq upto(j)
      BY <2>5
    <2>2. upto(i) # upto(j)
      BY <2>4
    <2>3. Cardinality(upto(i)) # Cardinality(upto(j))
      <3>1. IsFiniteSet(upto(j))
        BY <1>7
      <3> HIDE DEF upto
      <3> QED
        BY <2>2, <2>6, <3>1, FS_Subset
    <2> QED
      BY <1>7, <2>3
  <1>10. ASSUME NEW i \in here, NEW j \in here, i # j PROVE rank[i] # rank[j]
    <2>1. i < j \/ j < i
      BY <1>3, <1>10
    <2> QED
      BY <1>9, <2>1
  <1>11. rank \in Injection(here, 1 .. n)
    BY <1>8, <1>10 DEF Injection, IsInjective
  <1>12. rank \in Surjection(here, 1 .. n)
    <2>1. IsFiniteSet(1 .. n) /\ Cardinality(1 .. n) = n
      BY FS_Interval
    <2> QED
      BY <1>5, <1>11, <2>1, FS_Injection
  <1>13. ASSUME NEW k \in 1 .. n
         PROVE  /\ EntriesOf(path)[k] = Names[CHOOSE i \in here : Rank(path, i) = k]
                /\ (CHOOSE i \in here : Rank(path, i) = k) \in here
    <2>1. \E i \in here : rank[i] = k
      BY <1>12 DEF Surjection
    <2>2. \E i \in here : Rank(path, i) = k
      BY <1>6, <2>1
    <2>3. EntriesOf(path)[k] = Names[CHOOSE i \in here : Rank(path, i) = k]
      BY <1>2, <1>5 DEF EntriesOf
    <2> QED
      BY <2>2, <2>3
  <1>14. \A k \in 1 .. n : Append(path, EntriesOf(path)[k]) \in DOMAIN Nodes
    BY <1>2, <1>13 DEF Present
  <1>15. n = Len(EntriesOf(path)) /\ DOMAIN EntriesOf(path) = 1 .. n /\ IsSequence(EntriesOf(path))
    <2>1. PICK e : e = EntriesOf(path)
      OBVIOUS
    <2>2. e = [k \in 1 .. n |-> Names[CHOOSE i \in here : Rank(path, i) = k]]
      BY <1>2, <1>5, <2>1 DEF EntriesOf
    <2>3. PICK T : T = {e[k] : k \in 1 .. n}
      OBVIOUS
    <2>4. DOMAIN e = 1 .. n /\ e \in [1 .. n -> T]
      BY <2>2, <2>3
    <2>5. e \in Seq(T)
      BY <2>4
    <2>6. Len(e) = n
      BY <2>4, <2>5
    <2> QED
      BY <2>1, <2>4, <2>5, <2>6, AnySequence
  <1> QED
    BY <1>14, <1>15

-----------------------------------------------------------------------------
(* scan_directory and scan_regular_file (directory.cpp). *)

\* A node is added to what was found.
Added(found, later, path, node) ==
  /\ DOMAIN later = DOMAIN found \cup {path}
  /\ later[path] = node
  /\ \A p \in DOMAIN found : later[p] = found[p]

LEMMA NodeAdded ==
  ASSUME NEW found, NEW path, NEW node, path \notin DOMAIN found
  PROVE  Added(found, AddNode(found, path, node), path, node)
  BY DEF Added, AddNode

LEMMA StillReaches ==
  ASSUME NEW found, NEW later, NEW path, NEW node, Added(found, later, path, node),
         path \notin DOMAIN found, NEW p, Reaches(found, p)
  PROVE  Reaches(later, p)
  BY DEF Added, Reaches

LEMMA NodesAdded ==
  ASSUME NEW found, NEW later, NEW path, NEW node, Added(found, later, path, node),
         path \notin DOMAIN found, NodesOK(found), IsSequence(path), Reaches(found, path),
         node.type \in {"directory", "regular_file"},
         node.type = "regular_file" => IsSequence(node.content)
  PROVE  NodesOK(later)
  <1>1. ASSUME NEW p \in DOMAIN later
        PROVE  /\ IsSequence(p) /\ Reaches(later, p)
               /\ later[p].type \in {"directory", "regular_file"}
               /\ later[p].type = "regular_file" => IsSequence(later[p].content)
    <2>1. CASE p = path
      <3>1. Reaches(later, p)
        BY <2>1, StillReaches
      <3> QED
        BY <2>1, <3>1 DEF Added
    <2>2. CASE p # path
      <3>1. p \in DOMAIN found /\ later[p] = found[p]
        BY <2>2 DEF Added
      <3>2. Reaches(found, p)
        BY <3>1 DEF NodesOK
      <3>3. Reaches(later, p)
        BY <3>2, StillReaches
      <3> QED
        BY <3>1, <3>3 DEF NodesOK
    <2> QED
      BY <2>1, <2>2
  <1> QED
    BY <1>1 DEF NodesOK

LEMMA WasThereLater ==
  ASSUME NEW disks, NEW more, disks \subseteq more, NEW path, NEW node, WasThere(disks, path, node)
  PROVE  WasThere(more, path, node)
  BY DEF WasThere

LEMMA NodesWereThere ==
  ASSUME NEW disks, NEW found, NEW later, NEW path, NEW node, Added(found, later, path, node),
         path \notin DOMAIN found, WasThere(disks, path, node),
         \A p \in DOMAIN found : WasThere(disks, p, found[p])
  PROVE  \A p \in DOMAIN later : WasThere(disks, p, later[p])
  <1>1. ASSUME NEW p \in DOMAIN later PROVE WasThere(disks, p, later[p])
    <2>1. CASE p = path
      BY <2>1 DEF Added
    <2>2. CASE p # path
      BY <2>2 DEF Added
    <2> QED
      BY <2>1, <2>2
  <1> QED
    BY <1>1

\* Everything on a disk is below directories only.
LEMMA DiskShape ==
  ASSUME NEW d \in Disks
  PROVE  /\ <<>> \in DOMAIN d /\ d[<<>>].type = "directory"
         /\ \A p \in DOMAIN d : \E n \in Nat :
              /\ IsSequence(p) /\ HasPrefixes(p, n)
              /\ \A i \in 0 .. n - 1 : Prefix(p, i) \in DOMAIN d /\ d[Prefix(p, i)].type = "directory"
              /\ d[p].type = "regular_file" => IsSequence(d[p].content)
  <1>1. ASSUME NEW p \in DOMAIN d
        PROVE  \E n \in Nat :
                 /\ IsSequence(p) /\ HasPrefixes(p, n)
                 /\ \A i \in 0 .. n - 1 : Prefix(p, i) \in DOMAIN d /\ d[Prefix(p, i)].type = "directory"
                 /\ d[p].type = "regular_file" => IsSequence(d[p].content)
    <2>1. IsSequence(p)
      BY DisksAssumption
    <2>2. PICK n \in Nat : HasPrefixes(p, n)
      BY <2>1, PathPrefixes
    <2>3. n = Len(p)
      BY <2>2 DEF HasPrefixes
    <2> QED
      BY <2>1, <2>2, <2>3, DisksAssumption
  <1> QED
    BY <1>1, DisksAssumption

\* The scan begins at the root.
LEMMA ScanStarts ==
  ASSUME NEW d \in Disks, NEW s, s = [todo |-> {<<>>}, file |-> {}, found |-> <<>>]
  PROVE  ScanOK({d}, s)
  <1>1. s.todo = {<<>>} /\ s.file = {} /\ s.found = <<>> /\ DOMAIN s.found = {}
    OBVIOUS
  <1>2. IsSequence(<<>>) /\ Len(<<>>) = 0
    BY DEF IsSequence
  <1>3. ToScan(s, <<>>)
    BY <1>1, <1>2 DEF ToScan, Reaches
  <1>4. ASSUME NEW path \in OnDisk(d) PROVE Covered(s, path)
    <2>1. PICK n \in Nat : HasPrefixes(path, n)
      BY DiskShape DEF OnDisk
    <2>2. Prefix(path, 0) = <<>> /\ 0 \in 0 .. Len(path)
      BY <2>1 DEF HasPrefixes
    <2> QED
      BY <1>1, <2>2 DEF Covered
  <1>5. NodesOK(s.found) /\ \A path \in DOMAIN s.found : WasThere({d}, path, s.found[path])
    BY <1>1 DEF NodesOK
  <1>6. \A e \in {d} : {d} = {e} => \A path \in OnDisk(e) : Covered(s, path)
    BY <1>4
  <1> QED
    BY <1>1, <1>3, <1>5, <1>6 DEF ScanOK

\* The entries of a directory are still to be scanned after it.
LEMMA ScanDirectory ==
  ASSUME NEW d \in Disks, NEW disks, d \in disks, NEW s, ScanOK(disks, s), s.file = {},
         NEW path \in s.todo, path \in DOMAIN d, d[path].type = "directory",
         NEW children,
         children = {p \in DOMAIN d : Len(p) = Len(path) + 1 /\ Prefix(p, Len(path)) = path},
         NEW later, later = [todo |-> (s.todo \ {path}) \cup children, file |-> {},
                             found |-> AddNode(s.found, path, [type |-> "directory"])]
  PROVE  ScanOK(disks, later)
  <1>1. /\ NodesOK(s.found)
        /\ \A p \in s.todo : ToScan(s, p)
        /\ \A p \in DOMAIN s.found : WasThere(disks, p, s.found[p])
        /\ <<>> \in s.todo \/ RootFound(s.found)
        /\ \A e \in disks : disks = {e} => \A p \in OnDisk(e) : Covered(s, p)
    BY DEF ScanOK
  <1>2. IsSequence(path) /\ path \notin DOMAIN s.found /\ Reaches(s.found, path)
    BY <1>1 DEF ToScan
  <1>3. PICK found, node : /\ found = later.found /\ node = [type |-> "directory"]
                           /\ node.type = "directory"
    OBVIOUS
  <1>4. Added(s.found, found, path, node)
    BY <1>2, <1>3, NodeAdded
  <1>5. NodesOK(found)
    BY <1>1, <1>2, <1>3, <1>4, NodesAdded
  <1>6. later.todo = (s.todo \ {path}) \cup children /\ later.file = {}
    OBVIOUS
  <1>7. PICK n \in Nat : n = Len(path) /\ HasPrefixes(path, n)
    BY <1>2, PathPrefixes DEF HasPrefixes
  <1>8. ASSUME NEW p \in children PROVE ToScan(later, p)
    <2>1. p \in DOMAIN d /\ Len(p) = n + 1 /\ Prefix(p, n) = path
      BY <1>7
    <2>2. IsSequence(p) /\ HasPrefixes(p, n + 1)
      BY <2>1, DiskShape DEF HasPrefixes
    <2>3. p # path
      BY <1>7, <2>1
    <2>4. n \in 0 .. Len(p) - 1
      BY <2>1
    <2>5. p \notin DOMAIN s.found
      BY <1>1, <1>2, <2>1, <2>4 DEF NodesOK, Reaches
    <2>6. p \notin DOMAIN found
      BY <1>4, <2>3, <2>5 DEF Added
    <2>7. ASSUME NEW i \in 0 .. Len(p) - 1
          PROVE  Prefix(p, i) \in DOMAIN found /\ found[Prefix(p, i)].type = "directory"
      <3>1. CASE i = n
        BY <1>3, <1>4, <2>1, <3>1 DEF Added
      <3>2. CASE i # n
        <4>1. i \in 0 .. n - 1 /\ n \in 0 .. n + 1 /\ i \in 0 .. n
          BY <2>1, <3>2
        <4>2. Prefix(p, i) = Prefix(path, i)
          BY <2>1, <2>2, <4>1 DEF HasPrefixes
        <4>3. Prefix(path, i) \in DOMAIN s.found /\ s.found[Prefix(path, i)].type = "directory"
          BY <1>2, <1>7, <4>1 DEF Reaches
        <4> QED
          BY <1>4, <4>2, <4>3 DEF Added
      <3> QED
        BY <3>1, <3>2
    <2> QED
      BY <1>3, <2>2, <2>6, <2>7 DEF ToScan, Reaches
  <1>9. ASSUME NEW p \in s.todo, p # path PROVE ToScan(later, p)
    <2>1. IsSequence(p) /\ p \notin DOMAIN s.found /\ Reaches(s.found, p)
      BY <1>1 DEF ToScan
    <2>2. Reaches(found, p)
      BY <1>2, <1>4, <2>1, StillReaches
    <2>3. p \notin DOMAIN found
      BY <1>4, <1>9, <2>1 DEF Added
    <2> QED
      BY <1>3, <2>1, <2>2, <2>3 DEF ToScan
  <1>10. \A p \in DOMAIN found : WasThere(disks, p, found[p])
    <2>1. WasThere(disks, path, node)
      BY <1>3 DEF WasThere
    <2> QED
      BY <1>1, <1>2, <1>4, <2>1, NodesWereThere
  <1>11. <<>> \in later.todo \/ RootFound(found)
    BY <1>1, <1>3, <1>4, <1>6 DEF Added, RootFound
  <1>12. ASSUME NEW e \in disks, disks = {e} PROVE \A p \in OnDisk(e) : Covered(later, p)
    <2>1. e = d
      BY <1>12
    <2>2. ASSUME NEW p \in OnDisk(d), NEW i \in 0 .. Len(p), Prefix(p, i) = path
          PROVE  Covered(later, p)
      <3>1. PICK m \in Nat : /\ HasPrefixes(p, m) /\ p \in DOMAIN d
                             /\ \A j \in 0 .. m - 1 : Prefix(p, j) \in DOMAIN d
        BY DiskShape DEF OnDisk
      <3>2. m = Len(p) /\ i \in 0 .. m
        BY <3>1 DEF HasPrefixes
      <3>3. i = n
        BY <1>7, <2>2, <3>1, <3>2 DEF HasPrefixes
      <3>4. CASE i = m
        <4>1. p = path
          BY <2>2, <3>1, <3>4 DEF HasPrefixes
        <4> QED
          BY <1>3, <1>4, <4>1 DEF Covered, Added
      <3>5. CASE i # m
        <4>1. n + 1 \in 0 .. m /\ n \in 0 .. n + 1
          BY <3>2, <3>3, <3>5
        <4>2. PICK q : q = Prefix(p, n + 1)
          OBVIOUS
        <4>3. Len(q) = n + 1 /\ Prefix(q, n) = path
          BY <2>2, <3>1, <3>3, <4>1, <4>2 DEF HasPrefixes
        <4>4. q \in DOMAIN d
          <5>1. CASE n + 1 = m
            BY <3>1, <4>2, <5>1 DEF HasPrefixes
          <5>2. CASE n + 1 # m
            <6>1. n + 1 \in 0 .. m - 1
              BY <4>1, <5>2
            <6> QED
              BY <3>1, <4>2, <6>1
          <5> QED
            BY <5>1, <5>2
        <4>5. q \in children
          BY <1>7, <4>3, <4>4
        <4> QED
          BY <1>6, <3>2, <4>1, <4>2, <4>5 DEF Covered
      <3> QED
        BY <3>4, <3>5
    <2>3. DOMAIN s.found \subseteq DOMAIN later.found /\ s.todo \ {path} \subseteq later.todo
      BY <1>3, <1>4, <1>6 DEF Added
    <2>4. \A p \in OnDisk(d) : Covered(s, p)
      BY <1>1, <1>12, <2>1
    <2>5. ASSUME NEW p \in OnDisk(d) PROVE Covered(later, p)
      <3>1. \A i \in 0 .. Len(p) : Prefix(p, i) = path => Covered(later, p)
        BY <2>2
      <3>2. Covered(s, p)
        BY <2>4
      <3> QED
        BY <2>3, <3>1, <3>2 DEF Covered
    <2> QED
      BY <2>1, <2>5
  <1>13. \A p \in later.todo : ToScan(later, p)
    BY <1>6, <1>8, <1>9
  <1>14. later = [todo |-> later.todo, file |-> later.file, found |-> later.found]
    OBVIOUS
  <1> QED
    BY <1>3, <1>5, <1>6, <1>10, <1>11, <1>12, <1>13, <1>14 DEF ScanOK

\* Nothing is below a path that is not a directory.
LEMMA NothingBelow ==
  ASSUME NEW d \in Disks, NEW p \in OnDisk(d), NEW i \in 0 .. Len(p), NEW path, Prefix(p, i) = path,
         ~ (path \in DOMAIN d /\ d[path].type = "directory")
  PROVE  p = path
  <1>1. PICK m \in Nat : /\ HasPrefixes(p, m)
                         /\ \A j \in 0 .. m - 1 : Prefix(p, j) \in DOMAIN d /\ d[Prefix(p, j)].type = "directory"
    BY DiskShape DEF OnDisk
  <1>2. m = Len(p) /\ i \in 0 .. m
    BY <1>1 DEF HasPrefixes
  <1>3. ~ (i \in 0 .. m - 1)
    BY <1>1
  <1>4. i = m
    BY <1>2, <1>3
  <1> QED
    BY <1>1, <1>4 DEF HasPrefixes

\* An entry that is a regular file is opened and measured.
LEMMA ScanFileStarts ==
  ASSUME NEW d \in Disks, NEW disks, d \in disks, NEW s, ScanOK(disks, s), s.file = {},
         NEW path \in s.todo, path \in DOMAIN d, d[path].type = "regular_file",
         NEW later, later = [todo |-> s.todo \ {path},
                             file |-> {[path |-> path, content |-> d[path].content]},
                             found |-> s.found]
  PROVE  ScanOK(disks, later)
  <1>1. /\ NodesOK(s.found)
        /\ \A p \in s.todo : ToScan(s, p)
        /\ \A p \in DOMAIN s.found : WasThere(disks, p, s.found[p])
        /\ <<>> \in s.todo \/ RootFound(s.found)
        /\ \A e \in disks : disks = {e} => \A p \in OnDisk(e) : Covered(s, p)
    BY DEF ScanOK
  <1>2. PICK file : file = [path |-> path, content |-> d[path].content]
    OBVIOUS
  <1>3. later.todo = s.todo \ {path} /\ later.file = {file} /\ later.found = s.found
    BY <1>2
  <1>4. file.path = path /\ file.content = d[path].content
    BY <1>2
  <1>5. \A p \in s.todo : ToScan(later, p)
    BY <1>1, <1>3 DEF ToScan
  <1>6. Measured(disks, later, file)
    <2>1. IsSequence(file.content)
      BY <1>4, DiskShape
    <2>2. file = [path |-> file.path, content |-> file.content]
      BY <1>2
    <2> QED
      BY <1>3, <1>4, <1>5, <2>1, <2>2 DEF Measured
  <1>7. <<>> \in later.todo \/ RootFound(later.found)
    <2>1. path # <<>>
      BY DiskShape
    <2> QED
      BY <1>1, <1>3, <2>1
  <1>8. ASSUME NEW e \in disks, disks = {e}, NEW p \in OnDisk(e) PROVE Covered(later, p)
    <2>1. e = d
      BY <1>8
    <2>2. ASSUME NEW i \in 0 .. Len(p), Prefix(p, i) = path PROVE Covered(later, p)
      <3>1. ~ (path \in DOMAIN d /\ d[path].type = "directory")
        OBVIOUS
      <3>2. p = path
        BY <2>1, <2>2, <3>1, NothingBelow
      <3> QED
        BY <1>3, <1>4, <3>2 DEF Covered
    <2>3. Covered(s, p)
      BY <1>1, <1>8
    <2> QED
      BY <1>3, <2>2, <2>3 DEF Covered
  <1>9. later = [todo |-> later.todo, file |-> later.file, found |-> later.found]
    OBVIOUS
  <1>10. \A p \in later.todo : ToScan(later, p)
    BY <1>3, <1>5
  <1>11. \A f \in later.file : Measured(disks, later, f)
    BY <1>3, <1>6
  <1> QED
    BY <1>1, <1>3, <1>7, <1>8, <1>9, <1>10, <1>11 DEF ScanOK

\* An entry that is gone or neither a file nor a directory is skipped.
LEMMA ScanSkips ==
  ASSUME NEW d \in Disks, NEW disks, d \in disks, NEW s, ScanOK(disks, s), s.file = {},
         NEW path \in s.todo, path \notin OnDisk(d),
         NEW later, later = [todo |-> s.todo \ {path}, file |-> {}, found |-> s.found]
  PROVE  ScanOK(disks, later)
  <1>1. /\ NodesOK(s.found)
        /\ \A p \in s.todo : ToScan(s, p)
        /\ \A p \in DOMAIN s.found : WasThere(disks, p, s.found[p])
        /\ <<>> \in s.todo \/ RootFound(s.found)
        /\ \A e \in disks : disks = {e} => \A p \in OnDisk(e) : Covered(s, p)
    BY DEF ScanOK
  <1>2. later.todo = s.todo \ {path} /\ later.file = {} /\ later.found = s.found
    OBVIOUS
  <1>3. \A p \in later.todo : ToScan(later, p)
    BY <1>1, <1>2 DEF ToScan
  <1>4. <<>> \in later.todo \/ RootFound(later.found)
    <2>1. path # <<>>
      BY DiskShape DEF OnDisk
    <2> QED
      BY <1>1, <1>2, <2>1
  <1>5. ASSUME NEW e \in disks, disks = {e}, NEW p \in OnDisk(e) PROVE Covered(later, p)
    <2>1. e = d
      BY <1>5
    <2>2. ASSUME NEW i \in 0 .. Len(p), Prefix(p, i) = path PROVE FALSE
      <3>1. ~ (path \in DOMAIN d /\ d[path].type = "directory")
        BY DEF OnDisk
      <3>2. p = path
        BY <2>1, <2>2, <3>1, NothingBelow
      <3> QED
        BY <2>1, <3>2
    <2>3. Covered(s, p)
      BY <1>1, <1>5
    <2> QED
      BY <1>2, <2>2, <2>3 DEF Covered
  <1>6. later = [todo |-> later.todo, file |-> later.file, found |-> later.found]
    OBVIOUS
  <1> QED
    BY <1>1, <1>2, <1>3, <1>4, <1>5, <1>6 DEF ScanOK

\* The bytes that are read are a prefix of those of one moment.
LEMMA FirstBytes ==
  ASSUME NEW now, IsSequence(now), NEW m \in Nat, m <= Len(now),
         NEW c, c = [i \in 1 .. m |-> now[i]]
  PROVE  IsSequence(c) /\ Len(c) = m /\ IsPrefix(c, now)
  <1>1. PICK n, S : n \in Nat /\ n = Len(now) /\ now \in Seq(S)
    BY SequenceShape
  <1>2. \A i \in 1 .. m : now[i] \in S
    <2>1. \A i \in 1 .. n : now[i] \in S
      BY <1>1, LenProperties
    <2> QED
      BY <1>1, <2>1
  <1>3. c \in [1 .. m -> S]
    BY <1>2
  <1>4. c \in Seq(S) /\ Len(c) = m
    BY <1>3
  <1>5. SubSeq(c, 1, m) = c
    BY <1>4, SubSeqFull
  <1>6. SubSeq(now, 1, m) = c
    <2>1. m \in Int /\ 1 \in Int /\ \A i \in 1 .. m : now[i] \in S
      BY <1>2
    <2>2. PICK t : t = SubSeq(now, 1, m)
      OBVIOUS
    <2>3. /\ t \in Seq(S)
          /\ Len(t) = IF 1 <= m THEN m - 1 + 1 ELSE 0
          /\ \A i \in 1 .. m - 1 + 1 : t[i] = now[1 + i - 1]
      BY <2>1, <2>2, SubSeqProperties
    <2>4. Len(t) = m
      BY <2>3
    <2>5. ASSUME NEW i \in 1 .. m PROVE t[i] = c[i]
      <3>1. i \in 1 .. m - 1 + 1 /\ 1 + i - 1 = i
        OBVIOUS
      <3> QED
        BY <2>3, <3>1
    <2> QED
      BY <1>4, <2>2, <2>3, <2>4, <2>5, SeqEqual
  <1>7. IsPrefix(c, now)
    BY <1>4, <1>5, <1>6 DEF IsPrefix
  <1> QED
    BY <1>4, <1>7, AnySequence

\* What a file that was measured is given as its content.
LEMMA FileRead ==
  ASSUME disk \in Disks, NEW disks, disk \in disks, NEW s, NEW file, Measured(disks, s, file),
         ~ TooShort(file)
  PROVE  LET c == ReadContent(file)
         IN  /\ IsSequence(c) /\ Len(c) = Len(file.content)
             /\ \E d \in {e \in disks : file.path \in DOMAIN e} : IsPrefix(c, d[file.path].content)
  <1>1. IsSequence(file.content)
    BY DEF Measured
  <1>2. PICK m \in Nat : m = Len(file.content) /\ DOMAIN file.content = 1 .. m
    BY <1>1, SequenceShape
  <1>3. PICK now : now = ContentNow(file)
    OBVIOUS
  <1>4. PICK d \in disks : file.path \in DOMAIN d /\ now = d[file.path].content /\ IsSequence(now)
    <2>1. CASE file.path \in DOMAIN disk /\ disk[file.path].type = "regular_file"
      BY <1>3, <2>1, DiskShape DEF ContentNow
    <2>2. CASE ~ (file.path \in DOMAIN disk /\ disk[file.path].type = "regular_file")
      <3>1. now = file.content
        BY <1>3, <2>2 DEF ContentNow
      <3> QED
        BY <1>1, <3>1 DEF Measured
    <2> QED
      BY <2>1, <2>2
  <1>5. PICK n \in Nat : n = Len(now) /\ DOMAIN now = 1 .. n
    BY <1>4, SequenceShape
  <1>6. m <= n
    BY <1>2, <1>3, <1>5 DEF TooShort
  <1>7. PICK c : c = ReadContent(file)
    OBVIOUS
  <1>8. c = [i \in 1 .. m |-> now[i]]
    <2>1. \A i \in 1 .. m : i \in DOMAIN now
      BY <1>5, <1>6
    <2> QED
      BY <1>2, <1>3, <1>7, <2>1 DEF ReadContent
  <1>9. IsSequence(c) /\ Len(c) = m /\ IsPrefix(c, now)
    BY <1>4, <1>5, <1>6, <1>8, FirstBytes
  <1> QED
    BY <1>2, <1>4, <1>7, <1>9

\* A file that was read is found.
LEMMA ScanFileEnds ==
  ASSUME NEW disks, NEW s, ScanOK(disks, s), NEW file \in s.file,
         NEW c, IsSequence(c), Len(c) = Len(file.content),
         \E d \in {e \in disks : file.path \in DOMAIN e} : IsPrefix(c, d[file.path].content),
         NEW later, later = [todo |-> s.todo, file |-> {},
                             found |-> AddNode(s.found, file.path,
                                               [type |-> "regular_file", content |-> c])]
  PROVE  ScanOK(disks, later)
  <1>1. /\ NodesOK(s.found)
        /\ \A p \in s.todo : ToScan(s, p)
        /\ Measured(disks, s, file)
        /\ \A p \in DOMAIN s.found : WasThere(disks, p, s.found[p])
        /\ <<>> \in s.todo \/ RootFound(s.found)
        /\ \A e \in disks : disks = {e} => \A p \in OnDisk(e) : Covered(s, p)
    BY DEF ScanOK
  <1>2. PICK path : path = file.path
    OBVIOUS
  <1>3. /\ IsSequence(path) /\ path \notin DOMAIN s.found /\ Reaches(s.found, path)
        /\ path \notin s.todo /\ s.file = {file}
    BY <1>1, <1>2 DEF Measured, ToScan
  <1>4. PICK found, node : /\ found = later.found /\ node = [type |-> "regular_file", content |-> c]
                           /\ node.type = "regular_file" /\ node.content = c
    OBVIOUS
  <1>5. later.todo = s.todo /\ later.file = {}
    OBVIOUS
  <1>6. Added(s.found, found, path, node)
    BY <1>2, <1>3, <1>4, NodeAdded
  <1>7. NodesOK(found)
    BY <1>1, <1>3, <1>4, <1>6, NodesAdded
  <1>8. ASSUME NEW p \in s.todo PROVE ToScan(later, p)
    <2>1. IsSequence(p) /\ p \notin DOMAIN s.found /\ Reaches(s.found, p)
      BY <1>1 DEF ToScan
    <2>2. Reaches(found, p)
      BY <1>3, <1>6, <2>1, StillReaches
    <2>3. p \notin DOMAIN found
      BY <1>3, <1>6, <2>1 DEF Added
    <2> QED
      BY <1>4, <2>1, <2>2, <2>3 DEF ToScan
  <1>9. \A p \in DOMAIN found : WasThere(disks, p, found[p])
    <2>1. PICK measured \in disks : /\ path \in DOMAIN measured /\ measured[path].type = "regular_file"
                                    /\ file.content = measured[path].content
      BY <1>1, <1>2 DEF Measured
    <2>2. WasThere(disks, path, node)
      BY <1>2, <1>4, <2>1 DEF WasThere
    <2> QED
      BY <1>1, <1>3, <1>6, <2>2, NodesWereThere
  <1>10. <<>> \in later.todo \/ RootFound(found)
    BY <1>1, <1>3, <1>5, <1>6 DEF Added, RootFound
  <1>11. ASSUME NEW e \in disks, disks = {e}, NEW p \in OnDisk(e) PROVE Covered(later, p)
    <2>1. Covered(s, p)
      BY <1>1, <1>11
    <2>2. DOMAIN found = DOMAIN s.found \cup {path}
      BY <1>6 DEF Added
    <2> QED
      BY <1>2, <1>3, <1>4, <1>5, <2>1, <2>2 DEF Covered
  <1>12. later = [todo |-> later.todo, file |-> later.file, found |-> later.found]
    OBVIOUS
  <1> QED
    BY <1>4, <1>5, <1>7, <1>8, <1>9, <1>10, <1>11, <1>12 DEF ScanOK

\* A scan with nothing left to do has a tree.
LEMMA ScanEnds ==
  ASSUME NEW disks, NEW s, ScanOK(disks, s), s.todo = {}, s.file = {}
  PROVE  TreeOK({s.found}, disks)
  <1>1. /\ NodesOK(s.found) /\ RootFound(s.found)
        /\ \A p \in DOMAIN s.found : WasThere(disks, p, s.found[p])
    BY DEF ScanOK
  <1>2. ASSUME NEW d \in disks, disks = {d} PROVE DOMAIN s.found = OnDisk(d)
    <2>1. ASSUME NEW p \in OnDisk(d) PROVE p \in DOMAIN s.found
      <3>1. Covered(s, p)
        BY <1>2 DEF ScanOK
      <3> QED
        BY <3>1 DEF Covered
    <2>2. ASSUME NEW p \in DOMAIN s.found PROVE p \in OnDisk(d)
      BY <1>1, <1>2 DEF NodesOK, WasThere, OnDisk
    <2> QED
      BY <2>1, <2>2
  <1> QED
    BY <1>1, <1>2 DEF TreeOK

\* Once something has changed, a scan need not have found everything.
LEMMA DiskChanges ==
  ASSUME NEW disks, NEW s, ScanOK(disks, s), NEW d \in disks, NEW e, e # d
  PROVE  ScanOK(disks \cup {e}, s)
  <1>1. PICK more : more = disks \cup {e}
    OBVIOUS
  <1>2. disks \subseteq more /\ \A x \in more : more # {x}
    BY <1>1
  <1>3. \A p \in DOMAIN s.found : WasThere(more, p, s.found[p])
    BY <1>2, WasThereLater DEF ScanOK
  <1>4. \A file \in s.file : Measured(more, s, file)
    BY <1>2 DEF ScanOK, Measured
  <1>5. ScanOK(more, s)
    BY <1>2, <1>3, <1>4 DEF ScanOK
  <1> QED
    BY <1>1, <1>5

-----------------------------------------------------------------------------
(* The threads. *)

\* One thread is at another place, or has another request.
Moves(ths, later, t, th) ==
  /\ DOMAIN later = Thread /\ later[t] = th
  /\ \A u \in Thread \ {t} : later[u] = ths[u]

\* A thread that is not idle is in order, and is the only one that opens its
\* handle.
FitsIn(trees, last, open, ths, t, th) ==
  th # Idle => /\ ThreadOK(trees, last, open, th)
               /\ th.request.to = "open" =>
                    \A u \in Thread \ {t} :
                      ~ (/\ ths[u] # Idle /\ ths[u].request.to = "open"
                         /\ ths[u].request.handle = th.request.handle)

LEMMA ThreadMoves ==
  ASSUME NEW trees, NEW last, NEW open, NEW ths, ThreadsOK(trees, last, open, ths),
         NEW t \in Thread, NEW th, FitsIn(trees, last, open, ths, t, th),
         NEW later, Moves(ths, later, t, th)
  PROVE  ThreadsOK(trees, last, open, later)
  <1>1. ASSUME NEW u \in Thread, later[u] # Idle PROVE ThreadOK(trees, last, open, later[u])
    <2>1. CASE u = t
      BY <1>1, <2>1 DEF Moves, FitsIn
    <2>2. CASE u # t
      BY <1>1, <2>2 DEF Moves, ThreadsOK
    <2> QED
      BY <2>1, <2>2
  <1>2. ASSUME NEW u \in Thread, NEW v \in Thread, later[u] # Idle, later[v] # Idle,
               later[u].request.to = "open", later[v].request.to = "open",
               later[u].request.handle = later[v].request.handle
        PROVE  u = v
    <2>1. CASE u = t /\ v # t
      BY <1>2, <2>1 DEF Moves, FitsIn
    <2>2. CASE u # t /\ v = t
      BY <1>2, <2>2 DEF Moves, FitsIn
    <2>3. CASE u # t /\ v # t
      BY <1>2, <2>3 DEF Moves, ThreadsOK
    <2> QED
      BY <2>1, <2>2, <2>3
  <1> QED
    BY <1>1, <1>2 DEF ThreadsOK, Moves

\* A thread that goes on with the same request.
LEMMA SameRequest ==
  ASSUME NEW trees, NEW last, NEW open, NEW ths, ThreadsOK(trees, last, open, ths),
         NEW t \in Thread, ths[t] # Idle, NEW th, ThreadOK(trees, last, open, th),
         th.request = ths[t].request
  PROVE  FitsIn(trees, last, open, ths, t, th)
  BY DEF ThreadsOK, FitsIn

\* The threads that scan stay the same.
LEMMA ScansStay ==
  ASSUME NEW ths, NEW t \in Thread, NEW th, NEW later, Moves(ths, later, t, th),
         ths[t].at # "scan", th.at # "scan", NEW owner, MutexOK(owner, ths),
         NEW d, NEW disks, NEW trees, NEW scans, ScansOK(d, disks, trees, scans, ths)
  PROVE  MutexOK(owner, later) /\ ScansOK(d, disks, trees, scans, later)
  <1>1. \A u \in Thread : later[u].at = "scan" <=> ths[u].at = "scan"
    BY DEF Moves
  <1>2. MutexOK(owner, later)
    BY <1>1 DEF MutexOK
  <1>3. ScansOK(d, disks, trees, scans, later)
    BY <1>1 DEF ScansOK
  <1> QED
    BY <1>2, <1>3

\* Only one thread scans, and it has the mutex.
LEMMA OneScans ==
  ASSUME NEW ths, NEW owner, MutexOK(owner, ths), NEW t \in Thread, ths[t].at = "scan"
  PROVE  owner = {t} /\ \A u \in Thread \ {t} : ths[u].at # "scan"
  BY DEF MutexOK

\* As soon as there is a tree, the requests know more, and none has been
\* answered before.
LEMMA ThreadsSeeTree ==
  ASSUME NEW last, NEW open, HandlesOK({}, last, open), NEW ths, ThreadsOK({}, last, open, ths),
         NEW nodes, NEW now
  PROVE  ThreadsOK({nodes}, now, open, ths)
  <1>1. ASSUME NEW path, NEW type, ToldBy({}, path, type) PROVE ToldBy({nodes}, path, type)
    BY <1>1 DEF ToldBy
  <1>2. \A h \in Handle : open[h] = {}
    BY DEF HandlesOK
  <1>3. ASSUME NEW q, RequestOK({}, open, q) PROVE RequestOK({nodes}, open, q)
    BY <1>1, <1>3 DEF RequestOK
  <1>4. ASSUME NEW th, ThreadOK({}, last, open, th) PROVE ThreadOK({nodes}, now, open, th)
    BY <1>3, <1>4 DEF ThreadOK
  <1> QED
    BY <1>4 DEF ThreadsOK

\* A file that is opened or released matters to no other request.
LEMMA RequestsStay ==
  ASSUME NEW trees, NEW last, NEW open, NEW ths, ThreadsOK(trees, last, open, ths),
         NEW h \in Handle, NEW later, \A g \in Handle \ {h} : later[g] = open[g],
         \A u \in Thread : ths[u] # Idle /\ ths[u].request.to = "open" /\ ths[u].request.handle = h =>
                             later[h] = {},
         \A u \in Thread : ths[u] # Idle /\ ths[u].request.to = "read" /\ ths[u].request.handle = h =>
                             later[h] # {}
  PROVE  ThreadsOK(trees, last, later, ths)
  <1>1. ASSUME NEW u \in Thread, ths[u] # Idle PROVE ThreadOK(trees, last, later, ths[u])
    <2>1. PICK th, q : th = ths[u] /\ q = th.request
      OBVIOUS
    <2>2. ThreadOK(trees, last, open, th) /\ RequestOK(trees, open, q)
      BY <1>1, <2>1 DEF ThreadsOK, ThreadOK
    <2>3. q.to = "open" /\ q.handle = h => later[h] = {}
      BY <1>1, <2>1
    <2>4. q.to = "read" /\ q.handle = h => later[h] # {}
      BY <1>1, <2>1
    <2>5. RequestOK(trees, later, q)
      BY <2>2, <2>3, <2>4 DEF RequestOK
    <2> QED
      BY <2>1, <2>2, <2>5 DEF ThreadOK
  <1> QED
    BY <1>1 DEF ThreadsOK

\* The mutex is not taken and nobody scans once all threads are gone.
LEMMA AllIdle ==
  ASSUME NEW ths, ths = [t \in Thread |-> Idle], NEW trees, NEW last, NEW open,
         NEW d, NEW disks, NEW scans, scans = [t \in Thread |-> NoScan]
  PROVE  ThreadsOK(trees, last, open, ths) /\ MutexOK({}, ths) /\ ScansOK(d, disks, trees, scans, ths)
  <1>1. DOMAIN ths = Thread /\ DOMAIN scans = Thread /\ \A t \in Thread : ths[t] = Idle
    OBVIOUS
  <1>2. \A t \in Thread : ths[t].at # "scan"
    BY <1>1 DEF Idle
  <1>3. ThreadsOK(trees, last, open, ths)
    BY <1>1 DEF ThreadsOK
  <1>4. MutexOK({}, ths)
    BY <1>2 DEF MutexOK
  <1>5. ScansOK(d, disks, trees, scans, ths)
    BY <1>1, <1>2 DEF ScansOK
  <1> QED
    BY <1>3, <1>4, <1>5

\* A request that arrives.
LEMMA Arrived ==
  ASSUME MemInv, NEW t \in Thread, NEW at, NEW q, Arrives(t, at, q),
         RequestOK(tree, handles, q),
         \/ at = "require_tree" /\ q.to # "read"
         \/ at = "answer" /\ q.to = "read" /\ tree # {},
         q.to = "open" => ~ Pending("open", q.handle)
  PROVE  MemInv'
  <1>1. PICK th : th = [at |-> at, request |-> q, root |-> 0]
    OBVIOUS
  <1>2. th.at = at /\ th.request = q /\ th # Idle /\ th.at # "scan"
    BY <1>1 DEF Idle
  <1>3. ThreadsOK(tree, generation, handles, thread) /\ DOMAIN thread = Thread
    BY DEF MemInv, ThreadsOK
  <1>4. thread[t].at # "scan" /\ Moves(thread, thread', t, th)
    BY <1>1, <1>3 DEF Arrives, Moves, Idle
  <1>5. ThreadOK(tree, generation, handles, th)
    BY <1>1, <1>2 DEF ThreadOK
  <1>6. FitsIn(tree, generation, handles, thread, t, th)
    BY <1>2, <1>5 DEF FitsIn, Pending
  <1>7. ThreadsOK(tree, generation, handles, thread')
    BY <1>3, <1>4, <1>6, ThreadMoves
  <1>8. MutexOK(mutex, thread') /\ ScansOK(disk, seen, tree, scan, thread')
    <2>1. MutexOK(mutex, thread) /\ ScansOK(disk, seen, tree, scan, thread)
      BY DEF MemInv
    <2> QED
      BY <1>2, <1>4, <2>1, ScansStay
  <1> QED
    BY <1>7, <1>8 DEF MemInv, Arrives, outside, held

\* A thread that has answered, with no file opened.
LEMMA Answered ==
  ASSUME MemInv, NEW t \in Thread, thread[t].at = "answer", NEW answer, Ends(t, answer),
         handles' = handles
  PROVE  MemInv'
  <1>1. thread[t] # Idle /\ Idle.at # "scan"
    BY DEF Idle
  <1>2. ThreadsOK(tree, generation, handles, thread) /\ DOMAIN thread = Thread /\ tree # {}
    BY <1>1 DEF MemInv, ThreadsOK, ThreadOK
  <1>3. Moves(thread, thread', t, Idle)
    BY <1>2 DEF Ends, Moves
  <1>4. ThreadsOK(tree, generation, handles, thread')
    <2>1. FitsIn(tree, generation, handles, thread, t, Idle)
      BY DEF FitsIn
    <2> QED
      BY <1>2, <1>3, <2>1, ThreadMoves
  <1>5. MutexOK(mutex, thread') /\ ScansOK(disk, seen, tree, scan, thread')
    <2>1. MutexOK(mutex, thread) /\ ScansOK(disk, seen, tree, scan, thread)
      BY DEF MemInv
    <2> QED
      BY <1>1, <1>3, <2>1, ScansStay
  <1> QED
    BY <1>2, <1>4, <1>5 DEF MemInv, Ends, outside, held

-----------------------------------------------------------------------------
(* The steps keep the invariant. *)

LEMMA InitInv ==
  ASSUME Init
  PROVE  MemInv
  <1>1. HandlesOK(tree, generation, handles) /\ TreeOK(tree, seen)
    BY DEF Init, HandlesOK, TreeOK
  <1>2. /\ ThreadsOK(tree, generation, handles, thread)
        /\ MutexOK(mutex, thread) /\ ScansOK(disk, seen, tree, scan, thread)
    BY AllIdle DEF Init
  <1> QED
    BY <1>1, <1>2 DEF Init, MemInv

\* There is one tree.
LEMMA OneTree ==
  ASSUME MemInv, tree # {}
  PROVE  tree = {Nodes} /\ NodesOK(Nodes) /\ RootFound(Nodes)
  <1>1. PICK nodes \in tree : tree = {nodes} /\ NodesOK(nodes) /\ RootFound(nodes)
    BY DEF MemInv, TreeOK
  <1>2. Nodes = nodes
    BY <1>1 DEF Nodes, The
  <1> QED
    BY <1>1, <1>2

\* An open file is a regular file of the tree.
LEMMA OpenFileThere ==
  ASSUME MemInv, NEW h \in Handle, NEW node \in handles[h]
  PROVE  /\ handles[h] = {node} /\ tree # {} /\ node.path \in Path
         /\ node.path \in DOMAIN Nodes /\ Nodes[node.path].type = "regular_file"
         /\ IsSequence(Nodes[node.path].content)
  <1>1. PICK nodes \in tree : /\ handles[h] = {node} /\ node.path \in Path
                              /\ node.path \in DOMAIN nodes /\ nodes[node.path].type = "regular_file"
    BY DEF MemInv, HandlesOK, OpenFile
  <1>2. tree = {Nodes} /\ NodesOK(Nodes)
    BY <1>1, OneTree
  <1> QED
    BY <1>1, <1>2 DEF NodesOK

LEMMA StepAsk ==
  ASSUME MemInv, NEW t \in Thread, Ask(t)
  PROVE  MemInv'
  <1>1. ASSUME NEW path \in Path, AskGetattr(t, path) PROVE MemInv'
    <2>1. PICK q : q = [to |-> "getattr", path |-> path]
      OBVIOUS
    <2>2. q.to = "getattr" /\ q.path = path /\ q \in [to : {"getattr"}, path : Path]
      BY <2>1
    <2>3. RequestOK(tree, handles, q)
      BY <1>1, <2>2 DEF RequestOK, AskGetattr, Told, ToldBy
    <2>4. Arrives(t, "require_tree", q)
      BY <1>1, <2>1 DEF AskGetattr
    <2> QED
      BY <2>2, <2>3, <2>4, Arrived
  <1>2. ASSUME NEW path \in Path, AskReaddir(t, path) PROVE MemInv'
    <2>1. PICK q : q = [to |-> "readdir", path |-> path]
      OBVIOUS
    <2>2. q.to = "readdir" /\ q.path = path /\ q \in [to : {"readdir"}, path : Path]
      BY <2>1
    <2>3. RequestOK(tree, handles, q)
      BY <1>2, <2>2 DEF RequestOK, AskReaddir, Told, ToldBy
    <2>4. Arrives(t, "require_tree", q)
      BY <1>2, <2>1 DEF AskReaddir
    <2> QED
      BY <2>2, <2>3, <2>4, Arrived
  <1>3. ASSUME NEW path \in Path, NEW h \in Handle, NEW flags \in {"O_RDONLY", "O_WRONLY"},
               AskOpen(t, path, h, flags)
        PROVE  MemInv'
    <2>1. PICK q : q = [to |-> "open", path |-> path, handle |-> h, flags |-> flags]
      OBVIOUS
    <2>2. q.to = "open" /\ q.path = path /\ q.handle = h
      BY <2>1
    <2>3. q \in [to : {"open"}, path : Path, handle : Handle, flags : {"O_RDONLY", "O_WRONLY"}]
      BY <2>1
    <2>4. RequestOK(tree, handles, q)
      BY <1>3, <2>2, <2>3 DEF RequestOK, AskOpen, Told, ToldBy
    <2>5. Arrives(t, "require_tree", q) /\ ~ Pending("open", q.handle)
      BY <1>3, <2>1, <2>2 DEF AskOpen
    <2> QED
      BY <2>2, <2>4, <2>5, Arrived
  <1>4. ASSUME NEW h \in Handle, NEW size \in ReadSizes, NEW node \in handles[h],
               NEW offset \in 0 .. Len(Nodes[node.path].content) + 1, AskRead(t, h, offset, size)
        PROVE  MemInv'
    <2>1. PICK q : q = [to |-> "read", handle |-> h, offset |-> offset, size |-> size]
      OBVIOUS
    <2>2. size \in Nat /\ tree # {}
      BY OpenFileThere, KernelAssumption
    <2>3. offset \in Nat
      <3>1. IsSequence(Nodes[node.path].content)
        BY OpenFileThere
      <3>2. Len(Nodes[node.path].content) \in Nat
        BY <3>1, SequenceShape
      <3> QED
        BY <3>2
    <2>4. q.to = "read" /\ q.handle = h /\ q \in [to : {"read"}, handle : Handle, offset : Nat, size : Nat]
      BY <2>1, <2>2, <2>3
    <2>5. RequestOK(tree, handles, q)
      BY <1>4, <2>4 DEF RequestOK, AskRead
    <2>6. Arrives(t, "answer", q)
      BY <1>4, <2>1 DEF AskRead
    <2> QED
      BY <2>2, <2>4, <2>5, <2>6, Arrived
  <1> QED
    BY <1>1, <1>2, <1>3, <1>4 DEF Ask

LEMMA StepRelease ==
  ASSUME MemInv, NEW h \in Handle, Release(h)
  PROVE  MemInv'
  <1>1. HandlesOK(tree, generation, handles) /\ ThreadsOK(tree, generation, handles, thread)
    BY DEF MemInv
  <1>2. DOMAIN handles = Handle
    BY <1>1 DEF HandlesOK
  <1>3. handles'[h] = {} /\ \A g \in Handle \ {h} : handles'[g] = handles[g]
    BY <1>2 DEF Release
  <1>4. handles' \in [Handle -> SUBSET OpenFile]
    BY <1>1 DEF Release, HandlesOK
  <1>5. HandlesOK(tree, generation, handles')
    <2>1. ASSUME NEW g \in Handle, NEW node \in handles'[g]
          PROVE  handles'[g] = handles[g]
      BY <1>3
    <2> QED
      BY <1>1, <1>4, <2>1 DEF HandlesOK
  <1>6. ThreadsOK(tree, generation, handles', thread)
    <2>1. \A u \in Thread : ~ (thread[u] # Idle /\ thread[u].request.to = "read" /\ thread[u].request.handle = h)
      BY DEF Release, Pending
    <2> QED
      BY <1>1, <1>3, <2>1, RequestsStay
  <1>7. tree # {}
    BY OpenFileThere DEF Release
  <1> QED
    BY <1>5, <1>6, <1>7 DEF MemInv, Release, outside, held

LEMMA StepChangeDisk ==
  ASSUME MemInv, ChangeDisk
  PROVE  MemInv'
  <1>1. /\ UNCHANGED <<tree, generation, mutex, scan, thread, handles, reply, terminated>>
        /\ disk' \in Disks /\ disk' # disk
        /\ seen' = IF tree = {} /\ seen # {} THEN seen \cup {disk'} ELSE seen
    BY DEF ChangeDisk, held
  <1>2. TreeOK(tree, seen')
    <2>1. CASE tree = {}
      BY <2>1 DEF TreeOK
    <2>2. CASE tree # {}
      <3>1. seen' = seen
        BY <1>1, <2>2
      <3>2. TreeOK(tree, seen)
        BY DEF MemInv
      <3> QED
        BY <3>1, <3>2
    <2> QED
      BY <2>1, <2>2
  <1>3. ScansOK(disk', seen', tree, scan, thread)
    <2>1. ScansOK(disk, seen, tree, scan, thread)
      BY DEF MemInv
    <2>2. ASSUME NEW t \in Thread, thread[t].at = "scan"
          PROVE  tree = {} /\ disk' \in seen' /\ ScanOK(seen', scan[t])
      <3>1. tree = {} /\ disk \in seen /\ ScanOK(seen, scan[t])
        BY <2>1, <2>2 DEF ScansOK
      <3>2. seen' = seen \cup {disk'}
        BY <1>1, <3>1
      <3>3. ScanOK(seen \cup {disk'}, scan[t])
        BY <1>1, <3>1, DiskChanges
      <3> QED
        BY <3>1, <3>2, <3>3
    <2> QED
      BY <2>1, <2>2 DEF ScansOK
  <1>4. seen' \subseteq Disks
    BY <1>1 DEF MemInv
  <1> QED
    BY <1>1, <1>2, <1>3, <1>4 DEF MemInv

\* An exception in the scan ends the process before there is a tree.
LEMMA ScanThrows ==
  ASSUME MemInv, NEW t \in Thread, thread[t].at = "scan", Throw
  PROVE  MemInv' /\ tree' = {}
  <1>1. tree = {}
    BY DEF MemInv, ScansOK
  <1>2. /\ ThreadsOK(tree, generation, handles, thread')
        /\ MutexOK({}, thread') /\ ScansOK(disk, seen, tree, scan', thread')
    BY AllIdle DEF Throw
  <1> QED
    BY <1>1, <1>2 DEF MemInv, Throw, outside

\* A handler that leaves require_tree.
LEMMA GoesOn ==
  ASSUME NEW trees, NEW last, NEW open, NEW ths, ThreadsOK(trees, last, open, ths), trees # {},
         NEW t \in Thread, ths[t] # Idle, ths[t].at # "answer", NEW th,
         th = [at |-> "answer", request |-> ths[t].request, root |-> last],
         NEW later, Moves(ths, later, t, th)
  PROVE  ThreadsOK(trees, last, open, later)
  <1>1. ThreadOK(trees, last, open, ths[t])
    BY DEF ThreadsOK
  <1>2. th.at = "answer" /\ th.request = ths[t].request /\ th.root = last
    OBVIOUS
  <1>3. ThreadOK(trees, last, open, th)
    BY <1>1, <1>2 DEF ThreadOK
  <1>4. FitsIn(trees, last, open, ths, t, th)
    BY <1>2, <1>3, SameRequest
  <1> QED
    BY <1>4, ThreadMoves

LEMMA StepRequireTree ==
  ASSUME MemInv, NEW t \in Thread, ~ terminated, RequireTree(t)
  PROVE  MemInv'
  <1>1. ThreadsOK(tree, generation, handles, thread) /\ DOMAIN thread = Thread
    BY DEF MemInv, ThreadsOK
  <1>2. thread[t].at = "require_tree" /\ thread[t] # Idle /\ mutex = {}
    BY DEF RequireTree, CanLock, Idle
  <1>3. PICK r, o : thread[t] = [at |-> "require_tree", request |-> r, root |-> o]
    BY <1>1, <1>2 DEF ThreadsOK, ThreadOK
  <1>4. MutexOK({}, thread) /\ ScansOK(disk, seen, tree, scan, thread)
    BY <1>2 DEF MemInv
  <1>5. UNCHANGED <<disk, changes, handles, reply, terminated>>
    BY DEF RequireTree
  <1>6. CASE tree = {}
    <2>1. /\ mutex' = {t} /\ scan' = [scan EXCEPT ![t] = [NoScan EXCEPT !.todo = {<<>>}]]
          /\ seen' = {disk} /\ thread' = [thread EXCEPT ![t].at = "scan"]
          /\ UNCHANGED <<tree, generation>>
      BY <1>6 DEF RequireTree, MustScan
    <2>2. PICK th : th = [at |-> "scan", request |-> r, root |-> o]
      OBVIOUS
    <2>3. th.at = "scan" /\ th.request = r /\ th # Idle /\ thread[t].request = r /\ th.root = o
      BY <1>3, <2>2 DEF Idle
    <2>4. Moves(thread, thread', t, th)
      BY <1>1, <1>3, <2>1, <2>2 DEF Moves
    <2>5. ThreadOK(tree, generation, handles, thread[t])
      BY <1>1, <1>2 DEF ThreadsOK
    <2>6. ThreadOK(tree, generation, handles, th)
      BY <1>2, <2>2, <2>3, <2>5 DEF ThreadOK
    <2>7. ThreadsOK(tree, generation, handles, thread')
      <3>1. FitsIn(tree, generation, handles, thread, t, th)
        BY <1>1, <1>2, <2>3, <2>6, SameRequest
      <3> QED
        BY <1>1, <2>4, <3>1, ThreadMoves
    <2>8. \A u \in Thread : thread'[u].at = "scan" <=> u = t
      BY <1>4, <2>3, <2>4 DEF Moves, MutexOK
    <2>9. MutexOK(mutex', thread')
      BY <2>1, <2>8 DEF MutexOK
    <2>10. ScanOK({disk}, [todo |-> {<<>>}, file |-> {}, found |-> <<>>])
      BY ScanStarts DEF MemInv
    <2>11. DOMAIN scan' = Thread /\ scan'[t] = [todo |-> {<<>>}, file |-> {}, found |-> <<>>]
      BY <1>4, <2>1 DEF ScansOK, NoScan
    <2>12. ScansOK(disk, seen', tree, scan', thread')
      BY <1>6, <2>1, <2>8, <2>10, <2>11 DEF ScansOK
    <2>13. TreeOK(tree, seen') /\ seen' \subseteq Disks
      BY <1>6, <2>1 DEF TreeOK, MemInv
    <2> QED
      BY <1>5, <2>1, <2>7, <2>9, <2>12, <2>13 DEF MemInv
  <1>7. CASE tree # {}
    <2>1. UNCHANGED <<seen, tree, generation, mutex, scan>> /\ GoOn(t)
      BY <1>7 DEF RequireTree, MustScan, held
    <2>2. PICK th : th = [at |-> "answer", request |-> thread[t].request, root |-> generation]
      OBVIOUS
    <2>3. thread[t].request = r
      BY <1>3
    <2>4. Moves(thread, thread', t, th)
      BY <1>1, <1>3, <2>1, <2>2, <2>3 DEF Moves, GoOn
    <2>5. thread[t].at # "scan" /\ th.at # "scan" /\ thread[t].at # "answer"
      BY <1>2, <2>2
    <2>6. ThreadsOK(tree, generation, handles, thread')
      BY <1>1, <1>2, <1>7, <2>2, <2>4, <2>5, GoesOn
    <2>7. MutexOK(mutex, thread') /\ ScansOK(disk, seen, tree, scan, thread')
      BY <1>2, <1>4, <2>4, <2>5, ScansStay
    <2> QED
      BY <1>5, <2>1, <2>6, <2>7 DEF MemInv
  <1> QED
    BY <1>6, <1>7

\* A step of the scan.
LEMMA ScanGoesOn ==
  ASSUME MemInv, NEW t \in Thread, thread[t].at = "scan", NEW s, Scanning(t, s), ScanOK(seen, s)
  PROVE  MemInv'
  <1>1. ScansOK(disk, seen, tree, scan, thread)
    BY DEF MemInv
  <1>2. scan' = [scan EXCEPT ![t] = s]
    BY DEF Scanning
  <1>3. DOMAIN scan' = Thread /\ scan'[t] = s /\ \A u \in Thread \ {t} : scan'[u] = scan[u]
    BY <1>1, <1>2 DEF ScansOK
  <1>4. ScansOK(disk, seen, tree, scan', thread)
    BY <1>1, <1>3 DEF ScansOK
  <1> QED
    BY <1>4 DEF MemInv, Scanning, outside

LEMMA StepScanEntry ==
  ASSUME MemInv, NEW t \in Thread, ScanEntry(t)
  PROVE  MemInv'
  <1>1. thread[t].at = "scan" /\ scan[t].file = {}
    BY DEF ScanEntry
  <1>2. disk \in Disks /\ disk \in seen /\ ScanOK(seen, scan[t])
    BY <1>1 DEF MemInv, ScansOK
  <1>3. PICK s : s = scan[t]
    OBVIOUS
  <1>4. s = [todo |-> s.todo, file |-> s.file, found |-> s.found] /\ s.file = {} /\ ScanOK(seen, s)
    BY <1>1, <1>2, <1>3 DEF ScanOK
  <1>5. PICK path \in s.todo :
          LET rest == [s EXCEPT !.todo = @ \ {path}]
              type == IF path \in DOMAIN disk THEN disk[path].type ELSE "not_found"
          IN  Scanning(t,
                CASE type = "directory" ->
                       [rest EXCEPT !.todo = @ \cup Children(path),
                                    !.found = AddNode(@, path, [type |-> "directory"])]
                  [] type = "regular_file" ->
                       [rest EXCEPT !.file = {[path |-> path, content |-> disk[path].content]}]
                  [] OTHER -> rest)
    BY <1>3 DEF ScanEntry
  <1>6. PICK rest : rest = [todo |-> s.todo \ {path}, file |-> {}, found |-> s.found]
    OBVIOUS
  <1>7. rest = [s EXCEPT !.todo = @ \ {path}]
    BY <1>4, <1>6
  <1>8. CASE path \in DOMAIN disk /\ disk[path].type = "directory"
    <2>1. PICK later, found : /\ found = AddNode(s.found, path, [type |-> "directory"])
                              /\ later = [todo |-> (s.todo \ {path}) \cup Children(path), file |-> {},
                                          found |-> found]
      OBVIOUS
    <2>2. later = [rest EXCEPT !.todo = @ \cup Children(path),
                               !.found = AddNode(@, path, [type |-> "directory"])]
      <3>1. PICK todo : todo = rest.todo \cup Children(path)
        OBVIOUS
      <3>2. rest.found = s.found /\ rest.todo = s.todo \ {path}
        BY <1>6
      <3>3. PICK one : one = [rest EXCEPT !.todo = todo]
        OBVIOUS
      <3>4. one = [todo |-> todo, file |-> {}, found |-> s.found]
        BY <1>6, <3>3
      <3>5. later = [one EXCEPT !.found = found]
        BY <2>1, <3>1, <3>2, <3>4
      <3>6. [one EXCEPT !.found = found] = [rest EXCEPT !.todo = todo, !.found = found]
        BY <3>3
      <3> QED
        BY <2>1, <3>1, <3>2, <3>5, <3>6
    <2>3. Scanning(t, later)
      BY <1>5, <1>7, <1>8, <2>2
    <2>4. ScanOK(seen, later)
      BY <1>2, <1>4, <1>8, <2>1, ScanDirectory DEF Children
    <2> QED
      BY <1>1, <2>3, <2>4, ScanGoesOn
  <1>9. CASE path \in DOMAIN disk /\ disk[path].type = "regular_file"
    <2>1. PICK later : later = [todo |-> s.todo \ {path},
                                file |-> {[path |-> path, content |-> disk[path].content]},
                                found |-> s.found]
      OBVIOUS
    <2>2. later = [rest EXCEPT !.file = {[path |-> path, content |-> disk[path].content]}]
      BY <1>6, <2>1
    <2>3. Scanning(t, later)
      BY <1>5, <1>7, <1>9, <2>2
    <2>4. ScanOK(seen, later)
      BY <1>2, <1>4, <1>9, <2>1, ScanFileStarts
    <2> QED
      BY <1>1, <2>3, <2>4, ScanGoesOn
  <1>10. CASE path \notin OnDisk(disk)
    <2>1. PICK type : type = IF path \in DOMAIN disk THEN disk[path].type ELSE "not_found"
      OBVIOUS
    <2>2. type # "directory" /\ type # "regular_file"
      BY <1>10, <2>1 DEF OnDisk
    <2>3. Scanning(t, rest)
      BY <1>5, <1>7, <2>1, <2>2
    <2>4. ScanOK(seen, rest)
      BY <1>2, <1>4, <1>6, <1>10, ScanSkips
    <2> QED
      BY <1>1, <2>3, <2>4, ScanGoesOn
  <1> QED
    BY <1>8, <1>9, <1>10 DEF OnDisk

LEMMA StepScanFile ==
  ASSUME MemInv, NEW t \in Thread, ScanFile(t)
  PROVE  MemInv'
  <1>1. thread[t].at = "scan"
    BY DEF ScanFile
  <1>2. PICK file \in scan[t].file :
          \/ TooShort(file) /\ Throw
          \/ /\ ~ TooShort(file)
             /\ Scanning(t, [scan[t] EXCEPT !.file = {},
                  !.found = AddNode(@, file.path,
                              [type |-> "regular_file", content |-> ReadContent(file)])])
    BY DEF ScanFile
  <1>3. CASE Throw
    BY <1>1, <1>3, ScanThrows
  <1>4. CASE ~ TooShort(file) /\ Scanning(t, [scan[t] EXCEPT !.file = {},
                  !.found = AddNode(@, file.path,
                              [type |-> "regular_file", content |-> ReadContent(file)])])
    <2>1. disk \in Disks /\ disk \in seen /\ ScanOK(seen, scan[t])
      BY <1>1 DEF MemInv, ScansOK
    <2>2. PICK s, c : s = scan[t] /\ c = ReadContent(file)
      OBVIOUS
    <2>3. /\ s = [todo |-> s.todo, file |-> s.file, found |-> s.found]
          /\ ScanOK(seen, s) /\ Measured(seen, s, file)
      BY <2>1, <2>2 DEF ScanOK
    <2>4. /\ IsSequence(c) /\ Len(c) = Len(file.content)
          /\ \E d \in {e \in seen : file.path \in DOMAIN e} : IsPrefix(c, d[file.path].content)
      BY <1>4, <2>1, <2>2, <2>3, FileRead
    <2>5. PICK later, found : /\ found = AddNode(s.found, file.path,
                                                [type |-> "regular_file", content |-> c])
                              /\ later = [todo |-> s.todo, file |-> {}, found |-> found]
      OBVIOUS
    <2>6. later = [s EXCEPT !.file = {},
                     !.found = AddNode(@, file.path, [type |-> "regular_file", content |-> c])]
      <3>1. PICK one : one = [s EXCEPT !.file = {}]
        OBVIOUS
      <3>2. one = [todo |-> s.todo, file |-> {}, found |-> s.found]
        BY <2>3, <3>1
      <3>3. later = [one EXCEPT !.found = found]
        BY <2>5, <3>2
      <3>4. [one EXCEPT !.found = found] = [s EXCEPT !.file = {}, !.found = found]
        BY <3>1
      <3> QED
        BY <2>5, <3>3, <3>4
    <2>7. Scanning(t, later)
      BY <1>4, <2>2, <2>6
    <2>8. ScanOK(seen, later)
      BY <2>2, <2>3, <2>4, <2>5, ScanFileEnds
    <2> QED
      BY <1>1, <2>7, <2>8, ScanGoesOn
  <1> QED
    BY <1>2, <1>3, <1>4

LEMMA StepFinishScan ==
  ASSUME MemInv, NEW t \in Thread, ~ terminated, FinishScan(t)
  PROVE  MemInv'
  <1>1. /\ thread[t].at = "scan" /\ scan[t].todo = {} /\ scan[t].file = {}
        /\ tree' = {scan[t].found} /\ generation' = generation + 1
        /\ mutex' = mutex \ {t} /\ scan' = [scan EXCEPT ![t] = NoScan]
        /\ GoOn(t) /\ UNCHANGED <<disk, changes, seen, handles, reply, terminated>>
    BY DEF FinishScan, Unlocked, outside
  <1>2. tree = {} /\ ScanOK(seen, scan[t]) /\ DOMAIN scan = Thread
    BY <1>1 DEF MemInv, ScansOK
  <1>3. TreeOK(tree', seen)
    BY <1>1, <1>2, ScanEnds
  <1>4. generation' \in Nat
    BY <1>1 DEF MemInv
  <1>5. HandlesOK({}, generation, handles) /\ ThreadsOK({}, generation, handles, thread)
    BY <1>2 DEF MemInv
  <1>6. HandlesOK(tree', generation', handles)
    BY <1>5 DEF HandlesOK
  <1>7. ThreadsOK(tree', generation', handles, thread) /\ tree' # {}
    BY <1>1, <1>5, ThreadsSeeTree
  <1>8. thread[t] # Idle /\ thread[t].at # "answer" /\ DOMAIN thread = Thread
    BY <1>1, <1>5 DEF Idle, ThreadsOK
  <1>9. PICK th : th = [at |-> "answer", request |-> thread[t].request, root |-> generation']
    OBVIOUS
  <1>10. PICK r, o : thread[t] = [at |-> "scan", request |-> r, root |-> o] /\ thread[t].request = r
    <2>1. PICK q : q = thread[t]
      OBVIOUS
    <2>2. q = [at |-> q.at, request |-> q.request, root |-> q.root] /\ q.at = "scan"
      BY <1>1, <1>5, <1>8, <2>1 DEF ThreadsOK, ThreadOK
    <2> QED
      BY <2>1, <2>2
  <1>11. Moves(thread, thread', t, th)
    BY <1>1, <1>8, <1>9, <1>10 DEF Moves, GoOn
  <1>12. ThreadsOK(tree', generation', handles, thread')
    BY <1>7, <1>8, <1>9, <1>11, GoesOn
  <1>13. mutex = {t} /\ \A u \in Thread \ {t} : thread[u].at # "scan"
    BY <1>1, OneScans DEF MemInv
  <1>14. \A u \in Thread : thread'[u].at # "scan"
    BY <1>9, <1>11, <1>13 DEF Moves
  <1>15. MutexOK(mutex', thread')
    BY <1>1, <1>13, <1>14 DEF MutexOK
  <1>16. ScansOK(disk, seen, tree', scan', thread')
    <2>1. DOMAIN scan' = Thread
      BY <1>1, <1>2
    <2> QED
      BY <1>14, <2>1 DEF ScansOK
  <1> QED
    BY <1>1, <1>3, <1>4, <1>6, <1>7, <1>12, <1>15, <1>16 DEF MemInv

\* A handler that answers has a tree, and what it was asked for is there as
\* the kernel was told.
LEMMA AnswerReady ==
  ASSUME MemInv, NEW t \in Thread, NEW to, Answering(t, to)
  PROVE  /\ thread[t] # Idle /\ thread[t].at = "answer" /\ thread[t].request.to = to
         /\ RequestOK({Nodes}, handles, thread[t].request)
         /\ to # "read" => thread[t].root = generation
         /\ tree = {Nodes} /\ NodesOK(Nodes) /\ RootFound(Nodes)
  <1>1. thread[t] # Idle /\ thread[t].at = "answer" /\ thread[t].request.to = to
    BY DEF Answering, Idle
  <1>2. ThreadOK(tree, generation, handles, thread[t])
    BY <1>1 DEF MemInv, ThreadsOK
  <1>3. tree # {}
    BY <1>1, <1>2 DEF ThreadOK
  <1>4. tree = {Nodes} /\ NodesOK(Nodes) /\ RootFound(Nodes)
    BY <1>3, OneTree
  <1> QED
    BY <1>1, <1>2, <1>4 DEF ThreadOK

LEMMA StepGetattr ==
  ASSUME MemInv, NEW t \in Thread, Getattr(t)
  PROVE  MemInv'
  <1>1. PICK answer : Ends(t, answer) /\ handles' = handles
    BY DEF Getattr
  <1>2. thread[t].at = "answer"
    BY DEF Getattr, Answering
  <1> QED
    BY <1>1, <1>2, Answered

\* A listing is of a directory, which the walk reaches.
LEMMA ReaddirReaches ==
  ASSUME MemInv, NEW t \in Thread, Answering(t, "readdir"), NEW path, path = thread[t].request.path
  PROVE  /\ path \in Path /\ path \in DOMAIN Nodes /\ Nodes[path].type = "directory"
         /\ WalkEnd(path) = path /\ Reached(path) = {Nodes[path]}
  <1>1. /\ RequestOK({Nodes}, handles, thread[t].request) /\ thread[t].request.to = "readdir"
        /\ NodesOK(Nodes) /\ RootFound(Nodes)
    BY AnswerReady
  <1>2. path \in Path /\ ToldBy({Nodes}, path, "directory")
    BY <1>1 DEF RequestOK
  <1>3. /\ path \in DOMAIN Nodes /\ Nodes[path].type = "directory"
        /\ IsSequence(path) /\ Reaches(Nodes, path)
    BY <1>1, <1>2, ToldPath
  <1> QED
    BY <1>2, <1>3, WalkReaches

LEMMA StepReaddir ==
  ASSUME MemInv, NEW t \in Thread, Readdir(t)
  PROVE  MemInv'
  <1>1. Answering(t, "readdir")
    BY DEF Readdir
  <1>2. \A node \in Reached(thread[t].request.path) : node.type # "regular_file"
    BY <1>1, ReaddirReaches
  <1>3. PICK answer : Ends(t, answer) /\ handles' = handles
    BY <1>2 DEF Readdir
  <1> QED
    BY <1>1, <1>3, Answered DEF Answering

\* A file that is opened is one, which the walk reaches.
LEMMA OpenReaches ==
  ASSUME MemInv, NEW t \in Thread, Answering(t, "open"), NEW path, path = thread[t].request.path
  PROVE  /\ thread[t].request.handle \in Handle /\ handles[thread[t].request.handle] = {}
         /\ thread[t].request.flags \in {"O_RDONLY", "O_WRONLY"}
         /\ path \in Path /\ path \in DOMAIN Nodes /\ Nodes[path].type = "regular_file"
         /\ path # <<>> /\ Prefix(path, 1) \in DOMAIN Nodes
         /\ WalkEnd(path) = path /\ Reached(path) = {Nodes[path]}
  <1>1. /\ RequestOK({Nodes}, handles, thread[t].request) /\ thread[t].request.to = "open"
        /\ NodesOK(Nodes) /\ RootFound(Nodes)
    BY AnswerReady
  <1>2. /\ path \in Path /\ ToldBy({Nodes}, path, "regular_file")
        /\ thread[t].request.handle \in Handle /\ handles[thread[t].request.handle] = {}
        /\ thread[t].request.flags \in {"O_RDONLY", "O_WRONLY"}
    BY <1>1 DEF RequestOK
  <1>3. /\ path \in DOMAIN Nodes /\ Nodes[path].type = "regular_file"
        /\ IsSequence(path) /\ Reaches(Nodes, path)
    BY <1>1, <1>2, ToldPath
  <1>4. path # <<>>
    BY <1>1, <1>3 DEF RootFound
  <1>5. Prefix(path, 1) \in DOMAIN Nodes
    <2>1. PICK n \in Nat : n = Len(path) /\ HasPrefixes(path, n)
      BY <1>3, PathPrefixes DEF HasPrefixes
    <2>2. n # 0
      BY <1>4, <2>1 DEF HasPrefixes
    <2>3. CASE n = 1
      BY <1>3, <2>1, <2>3 DEF HasPrefixes
    <2>4. CASE n # 1
      <3>1. 1 \in 0 .. n - 1
        BY <2>2, <2>4
      <3>2. 1 \in 0 .. Len(path) - 1
        BY <2>1, <3>1
      <3> QED
        BY <1>3, <3>2 DEF Reaches
    <2> QED
      BY <2>3, <2>4
  <1> QED
    BY <1>2, <1>3, <1>4, <1>5, WalkReaches

\* An open either refuses to write, or opens the file.
LEMMA OpenAnswers ==
  ASSUME MemInv, NEW t \in Thread, Open(t), NEW path, path = thread[t].request.path,
         NEW h, h = thread[t].request.handle
  PROVE  \/ /\ Ends(t, [to |-> "open", path |-> path, error |-> "EACCES"])
            /\ handles' = handles
         \/ /\ Ends(t, [to |-> "open", path |-> path, error |-> "none"])
            /\ handles' = [handles EXCEPT ![h] = {[path |-> path, root |-> thread[t].root]}]
  <1>1. Answering(t, "open")
    BY DEF Open
  <1>2. /\ path # <<>> /\ Prefix(path, 1) \in DOMAIN Nodes /\ Reached(path) # {}
        /\ WalkEnd(path) = path /\ ~ IsDirectory(path)
    BY <1>1, OpenReaches DEF IsDirectory
  <1>3. CASE thread[t].request.flags = "O_RDONLY"
    BY <1>2, <1>3 DEF Open
  <1>4. CASE thread[t].request.flags # "O_RDONLY"
    BY <1>2, <1>4 DEF Open
  <1> QED
    BY <1>3, <1>4

LEMMA StepOpen ==
  ASSUME MemInv, NEW t \in Thread, Open(t)
  PROVE  MemInv'
  <1>1. Answering(t, "open") /\ thread[t].at = "answer"
    BY DEF Open, Answering
  <1>2. PICK path, h : path = thread[t].request.path /\ h = thread[t].request.handle
    OBVIOUS
  <1>3. CASE \E answer : Ends(t, answer) /\ handles' = handles
    BY <1>1, <1>3, Answered
  <1>4. CASE \E answer : /\ Ends(t, answer)
                         /\ handles' = [handles EXCEPT ![h] = {[path |-> path, root |-> thread[t].root]}]
    <2>1. PICK answer : Ends(t, answer)
      BY <1>4
    <2>2. /\ h \in Handle /\ handles[h] = {} /\ path \in Path
          /\ path \in DOMAIN Nodes /\ Nodes[path].type = "regular_file"
      BY <1>1, <1>2, OpenReaches
    <2>3. /\ tree = {Nodes} /\ thread[t].root = generation /\ thread[t] # Idle
          /\ thread[t].request.to = "open"
      BY <1>1, AnswerReady
    <2>4. /\ HandlesOK(tree, generation, handles) /\ ThreadsOK(tree, generation, handles, thread)
          /\ DOMAIN thread = Thread /\ generation \in Nat
      BY DEF MemInv, ThreadsOK
    <2>5. PICK node : node = [path |-> path, root |-> generation]
      OBVIOUS
    <2>6. node \in OpenFile /\ node.path = path /\ node.root = generation
      BY <2>2, <2>4, <2>5 DEF OpenFile
    <2>7. handles' = [handles EXCEPT ![h] = {node}]
      BY <1>4, <2>3, <2>5
    <2>8. handles'[h] = {node} /\ \A g \in Handle \ {h} : handles'[g] = handles[g]
      BY <2>2, <2>4, <2>7 DEF HandlesOK
    <2>9. HandlesOK(tree, generation, handles')
      <3>1. handles' \in [Handle -> SUBSET OpenFile]
        BY <2>2, <2>4, <2>6, <2>7 DEF HandlesOK
      <3>2. ASSUME NEW g \in Handle, NEW f \in handles'[g]
            PROVE  /\ handles'[g] = {f} /\ f.root = generation
                   /\ \E nodes \in tree : f.path \in DOMAIN nodes /\ nodes[f.path].type = "regular_file"
        <4>1. CASE g = h
          BY <2>2, <2>3, <2>6, <2>8, <3>2, <4>1
        <4>2. CASE g # h
          BY <2>4, <2>8, <3>2, <4>2 DEF HandlesOK
        <4> QED
          BY <4>1, <4>2
      <3> QED
        BY <3>1, <3>2 DEF HandlesOK
    <2>10. Moves(thread, thread', t, Idle)
      BY <2>1, <2>4 DEF Ends, Moves
    <2>11. ThreadsOK(tree, generation, handles, thread')
      <3>1. FitsIn(tree, generation, handles, thread, t, Idle)
        BY DEF FitsIn
      <3> QED
        BY <2>4, <2>10, <3>1, ThreadMoves
    <2>12. \A u \in Thread : thread'[u] # Idle /\ thread'[u].request.to = "open" => thread'[u].request.handle # h
      BY <1>2, <2>3, <2>4, <2>10 DEF Moves, ThreadsOK
    <2>13. ThreadsOK(tree, generation, handles', thread')
      BY <2>2, <2>8, <2>11, <2>12, RequestsStay, ZenonT(40)
    <2>14. MutexOK(mutex, thread') /\ ScansOK(disk, seen, tree, scan, thread')
      <3>1. MutexOK(mutex, thread) /\ ScansOK(disk, seen, tree, scan, thread) /\ Idle.at # "scan"
        BY DEF MemInv, Idle
      <3> QED
        BY <1>1, <2>10, <3>1, ScansStay
    <2> QED
      BY <2>1, <2>3, <2>9, <2>13, <2>14 DEF MemInv, Ends, outside, held
  <1> QED
    BY <1>2, <1>3, <1>4, OpenAnswers

LEMMA StepRead ==
  ASSUME MemInv, NEW t \in Thread, Read(t)
  PROVE  MemInv'
  <1>1. PICK answer : Ends(t, answer) /\ handles' = handles
    BY DEF Read
  <1>2. thread[t].at = "answer"
    BY DEF Read, Answering
  <1> QED
    BY <1>1, <1>2, Answered

LEMMA NextInv ==
  ASSUME MemInv, [Next]_vars
  PROVE  MemInv'
  <1>1. ASSUME NEW t \in Thread, ThreadStep(t) PROVE MemInv'
    BY <1>1, StepRequireTree, StepScanEntry, StepScanFile, StepFinishScan, StepGetattr,
       StepReaddir, StepOpen, StepRead DEF ThreadStep
  <1>2. ASSUME NEW t \in Thread, ScanFails(t) PROVE MemInv'
    BY <1>2, ScanThrows DEF ScanFails
  <1>3. ASSUME NEW t \in Thread, Ask(t) PROVE MemInv'
    BY <1>3, StepAsk
  <1>4. ASSUME NEW h \in Handle, Release(h) PROVE MemInv'
    BY <1>4, StepRelease
  <1>5. CASE ChangeDisk
    BY <1>5, StepChangeDisk
  <1>6. CASE UNCHANGED vars
    BY <1>6 DEF MemInv, vars
  <1> QED
    BY <1>1, <1>2, <1>3, <1>4, <1>5, <1>6 DEF Next

LEMMA MemInvHolds == Spec => []MemInv
  <1>1. Init => MemInv
    BY InitInv
  <1>2. MemInv /\ [Next]_vars => MemInv'
    BY NextInv
  <1> QED
    BY <1>1, <1>2, PTL DEF Spec

-----------------------------------------------------------------------------
(* The steps are steps of ReadOnlyFs. *)

ServedStep == [Fs!Next]_(Fs!vars)

Opened(open) == [h \in Handle |-> {node.path : node \in open[h]}]

\* What cannot be seen from outside.
LEMMA ServedStays ==
  ASSUME tree' = tree
  PROVE  Served' = Served /\ \A answer : Shown(answer)' = Shown(answer)
  <1>1. Nodes' = Nodes
    BY DEF Nodes, The
  <1>2. Served' = Served
    BY <1>1 DEF Served, IsDirectory, EntriesOf, Present, Rank
  <1>3. \A answer : Shown(answer)' = Shown(answer)
    BY <1>1 DEF Shown, Named
  <1> QED
    BY <1>2, <1>3

LEMMA Stutters ==
  ASSUME tree' = tree, handles' = handles, reply' = reply
  PROVE  ServedStep
  <1>1. Served' = Served /\ \A answer : Shown(answer)' = Shown(answer)
    BY ServedStays
  <1>2. {Shown(answer) : answer \in reply}' = {Shown(answer) : answer \in reply}
    BY <1>1
  <1>3. Opened(handles)' = Opened(handles)
    BY DEF Opened
  <1> QED
    BY <1>1, <1>2, <1>3 DEF ServedStep, Fs!vars, Opened

\* What is served at each path.
LEMMA ServedNodes ==
  ASSUME tree = {Nodes}, NodesOK(Nodes)
  PROVE  /\ DOMAIN Served = DOMAIN Nodes
         /\ \A p \in DOMAIN Nodes :
              /\ Nodes[p].type = "directory" =>
                   Served[p].type = "directory" /\ Served[p].names = EntriesOf(p)
              /\ Nodes[p].type = "regular_file" => Served[p] = Nodes[p]
              /\ Fs!AttributesOf(Served[p]) = Stat(Nodes[p])
  <1>1. Served = [path \in DOMAIN Nodes |->
                    IF IsDirectory(path) THEN [type |-> "directory", names |-> EntriesOf(path)]
                    ELSE Nodes[path]]
    BY DEF Served
  <1>2. ASSUME NEW p \in DOMAIN Nodes, Nodes[p].type = "directory"
        PROVE  /\ Served[p].type = "directory" /\ Served[p].names = EntriesOf(p)
               /\ Fs!AttributesOf(Served[p]) = Stat(Nodes[p])
    <2>1. Served[p] = [type |-> "directory", names |-> EntriesOf(p)]
      BY <1>1, <1>2 DEF IsDirectory
    <2>2. Served[p].type = "directory" /\ Served[p].names = EntriesOf(p)
      BY <2>1
    <2> QED
      BY <1>2, <2>2 DEF Fs!AttributesOf, Stat
  <1>3. ASSUME NEW p \in DOMAIN Nodes, Nodes[p].type = "regular_file"
        PROVE  Served[p] = Nodes[p] /\ Fs!AttributesOf(Served[p]) = Stat(Nodes[p])
    <2>1. Served[p] = Nodes[p]
      BY <1>1, <1>3 DEF IsDirectory
    <2> QED
      BY <2>1 DEF Fs!AttributesOf, Stat
  <1>4. \A p \in DOMAIN Nodes : Nodes[p].type \in {"directory", "regular_file"}
    BY DEF NodesOK
  <1> QED
    BY <1>1, <1>2, <1>3, <1>4

\* The other answers are shown as they are.
LEMMA ShownAlike ==
  ASSUME NEW answer, answer.to # "readdir"
  PROVE  Shown(answer) = answer
  BY DEF Shown

LEMMA ServeFinishScan ==
  ASSUME MemInv, NEW t \in Thread, FinishScan(t), MemInv'
  PROVE  ServedStep
  <1>1. thread[t].at = "scan" /\ tree' # {} /\ handles' = handles /\ reply' = reply
    BY DEF FinishScan
  <1>2. tree = {} /\ reply = {}
    BY <1>1 DEF MemInv, ScansOK
  <1>3. DOMAIN Served = {}
    BY <1>2 DEF Served
  <1>4. DOMAIN Served' # {}
    <2>1. PICK nodes \in tree' : tree' = {nodes} /\ RootFound(nodes)
      BY <1>1 DEF MemInv, TreeOK
    <2>2. Nodes' = nodes
      BY <2>1 DEF Nodes, The
    <2>3. DOMAIN Served' = DOMAIN nodes
      BY <1>1, <2>2 DEF Served
    <2> QED
      BY <2>1, <2>3 DEF RootFound
  <1>5. Fs!Mount
    BY <1>1, <1>2, <1>3, <1>4 DEF Fs!Mount, Fs!Mounted
  <1> QED
    BY <1>5 DEF ServedStep, Fs!Next

\* What a step does that answers without opening or closing a file.
LEMMA AnswerShown ==
  ASSUME MemInv, NEW t \in Thread, NEW to, Answering(t, to), NEW answer, Ends(t, answer)
  PROVE  /\ Served' = Served /\ DOMAIN Served # {}
         /\ {Shown(a) : a \in reply}' = {Shown(answer)}
  <1>1. tree' = tree /\ reply' = {answer}
    BY DEF Ends, held
  <1>2. Served' = Served /\ \A a : Shown(a)' = Shown(a)
    BY <1>1, ServedStays
  <1>3. {Shown(a) : a \in reply}' = {Shown(answer)}
    BY <1>1, <1>2
  <1>4. DOMAIN Served # {}
    BY AnswerReady, ServedNodes DEF RootFound
  <1> QED
    BY <1>2, <1>3, <1>4

\* The kernel asks for attributes below directories only.
LEMMA GetattrReaches ==
  ASSUME MemInv, NEW t \in Thread, Answering(t, "getattr"), NEW path, path = thread[t].request.path
  PROVE  path \in Path /\ Reached(path) = {Nodes[p] : p \in DOMAIN Nodes \cap {path}}
  <1>1. /\ RequestOK({Nodes}, handles, thread[t].request) /\ thread[t].request.to = "getattr"
        /\ NodesOK(Nodes) /\ RootFound(Nodes)
    BY AnswerReady
  <1>2. path \in Path /\ \A i \in 0 .. Len(path) - 1 : ToldBy({Nodes}, Prefix(path, i), "directory")
    BY <1>1 DEF RequestOK
  <1>3. IsSequence(path)
    BY <1>2, KernelAssumption
  <1>4. Reaches(Nodes, path)
    <2>1. ASSUME NEW i \in 0 .. Len(path) - 1
          PROVE  Prefix(path, i) \in DOMAIN Nodes /\ Nodes[Prefix(path, i)].type = "directory"
      <3>1. ToldBy({Nodes}, Prefix(path, i), "directory")
        BY <1>2
      <3> QED
        BY <1>1, <3>1 DEF ToldBy, RootFound
    <2> QED
      BY <2>1 DEF Reaches
  <1> QED
    BY <1>2, <1>3, <1>4, WalkReaches

LEMMA ServeGetattr ==
  ASSUME MemInv, NEW t \in Thread, Getattr(t)
  PROVE  ServedStep
  <1>1. Answering(t, "getattr")
    BY DEF Getattr
  <1>2. PICK path : path = thread[t].request.path
    OBVIOUS
  <1>3. PICK answer : answer = [to |-> "getattr", path |-> path,
                                stat |-> {Stat(node) : node \in Reached(path)}]
    OBVIOUS
  <1>4. Ends(t, answer) /\ handles' = handles
    BY <1>2, <1>3 DEF Getattr
  <1>5. path \in Path /\ Reached(path) = {Nodes[p] : p \in DOMAIN Nodes \cap {path}}
    BY <1>1, <1>2, GetattrReaches
  <1>6. Served' = Served /\ DOMAIN Served # {} /\ {Shown(a) : a \in reply}' = {answer}
    <2>1. answer.to # "readdir"
      BY <1>3
    <2> QED
      BY <1>1, <1>4, <2>1, AnswerShown, ShownAlike
  <1>7. {Stat(node) : node \in Reached(path)} = {Fs!AttributesOf(node) : node \in Fs!Node(path)}
    <2>1. tree = {Nodes} /\ NodesOK(Nodes)
      BY <1>1, AnswerReady
    <2>2. /\ DOMAIN Served = DOMAIN Nodes
          /\ \A p \in DOMAIN Nodes : Fs!AttributesOf(Served[p]) = Stat(Nodes[p])
      BY <2>1, ServedNodes
    <2>3. Fs!Node(path) = {Served[p] : p \in DOMAIN Nodes \cap {path}}
      BY <2>2 DEF Fs!Node
    <2> QED
      BY <1>5, <2>2, <2>3
  <1>8. Fs!Lookup(path)
    BY <1>3, <1>4, <1>6, <1>7 DEF Fs!Lookup, Fs!Mounted, Opened
  <1> QED
    BY <1>5, <1>8 DEF ServedStep, Fs!Next

\* A listing is that of the directory, with "." and ".." in front.
LEMMA ListingNamed ==
  ASSUME tree = {Nodes}, NodesOK(Nodes), NEW path \in DOMAIN Nodes, Nodes[path].type = "directory"
  PROVE  Named(path, ListDirectory(path)) = Fs!ListingOf(path, Served[path])
  <1>1. PICK E : E = EntriesOf(path)
    OBVIOUS
  <1>2. PICK n \in Nat : /\ n = Len(E) /\ DOMAIN E = 1 .. n /\ IsSequence(E)
                         /\ \A k \in 1 .. n : Append(path, E[k]) \in DOMAIN Nodes
    BY <1>1, EntriesPresent
  <1>3. PICK names : names = <<".", "..">> \o E
    OBVIOUS
  <1>4. Len(names) = n + 2 /\ \A i \in 1 .. n : names[i + 2] = E[i]
    <2>1. PICK T : E \in Seq(T)
      BY <1>2, SequenceShape
    <2>2. PICK dots, U : dots = <<".", "..">> /\ U = T \cup {".", ".."}
      OBVIOUS
    <2>3. dots \in Seq(U) /\ E \in Seq(U) /\ Len(dots) = 2
      <3>1. dots \in Seq(U) /\ Len(dots) = 2
        BY <2>2
      <3>2. E \in Seq(U)
        BY <2>1, <2>2
      <3> QED
        BY <3>1, <3>2
    <2>4. names = dots \o E
      BY <1>3, <2>2
    <2>5. /\ Len(dots \o E) = Len(dots) + Len(E)
          /\ \A i \in 1 .. Len(dots) + Len(E) :
               (dots \o E)[i] = IF i <= Len(dots) THEN dots[i] ELSE E[i - Len(dots)]
      BY <2>3, ConcatProperties
    <2>6. /\ Len(names) = 2 + n
          /\ \A i \in 1 .. 2 + n : names[i] = IF i <= 2 THEN dots[i] ELSE E[i - 2]
      BY <1>2, <2>3, <2>4, <2>5
    <2>7. ASSUME NEW i \in 1 .. n PROVE names[i + 2] = E[i]
      <3>1. i + 2 \in 1 .. 2 + n /\ ~ (i + 2 <= 2) /\ i + 2 - 2 = i
        OBVIOUS
      <3> QED
        BY <2>6, <3>1
    <2> QED
      BY <2>6, <2>7
  <1>5. Named(path, names) =
          [i \in 1 .. n |-> [name |-> E[i], stat |-> Stat(Nodes[Append(path, E[i])])]]
    <2>1. 1 .. Len(names) - 2 = 1 .. n
      BY <1>4
    <2> QED
      BY <1>4, <2>1 DEF Named
  <1>6. Served[path].names = E
    BY <1>1, ServedNodes
  <1>7. Fs!ListingOf(path, Served[path]) =
          [i \in 1 .. n |-> [name |-> E[i], stat |-> Fs!AttributesOf(Served[Append(path, E[i])])]]
    BY <1>2, <1>6 DEF Fs!ListingOf
  <1>8. \A i \in 1 .. n : Fs!AttributesOf(Served[Append(path, E[i])]) = Stat(Nodes[Append(path, E[i])])
    BY <1>2, ServedNodes
  <1>9. Named(path, names) = Fs!ListingOf(path, Served[path])
    BY <1>5, <1>7, <1>8
  <1> QED
    BY <1>1, <1>3, <1>9 DEF ListDirectory

LEMMA ServeReaddir ==
  ASSUME MemInv, NEW t \in Thread, Readdir(t)
  PROVE  ServedStep
  <1>1. Answering(t, "readdir")
    BY DEF Readdir
  <1>2. PICK path : path = thread[t].request.path
    OBVIOUS
  <1>3. /\ path \in Path /\ path \in DOMAIN Nodes /\ Nodes[path].type = "directory"
        /\ WalkEnd(path) = path /\ Reached(path) = {Nodes[path]}
    BY <1>1, <1>2, ReaddirReaches
  <1>4. PICK answer : answer = [to |-> "readdir", path |-> path, listing |-> {ListDirectory(path)}]
    OBVIOUS
  <1>5. Ends(t, answer) /\ handles' = handles
    <2>1. {ListDirectory(WalkEnd(path)) : node \in Reached(path)} = {ListDirectory(path)}
      BY <1>3
    <2>2. ~ \E node \in Reached(path) : node.type = "regular_file"
      BY <1>3
    <2>3. /\ Ends(t, [to |-> "readdir", path |-> path,
                      listing |-> {ListDirectory(WalkEnd(path)) : node \in Reached(path)}])
          /\ handles' = handles
      BY <1>2, <2>2 DEF Readdir
    <2> QED
      BY <1>4, <2>1, <2>3
  <1>6. tree = {Nodes} /\ NodesOK(Nodes)
    BY <1>1, AnswerReady
  <1>7. PICK listing : listing = Fs!ListingOf(path, Served[path])
    OBVIOUS
  <1>8. Shown(answer) = [to |-> "readdir", path |-> path, listing |-> {listing}]
    <2>1. answer.to = "readdir" /\ answer.path = path /\ answer.listing = {ListDirectory(path)}
      BY <1>4
    <2>2. Named(path, ListDirectory(path)) = listing
      BY <1>3, <1>6, <1>7, ListingNamed
    <2>3. {Named(answer.path, names) : names \in answer.listing} = {listing}
      BY <2>1, <2>2
    <2>4. Shown(answer) = [answer EXCEPT !.listing = {Named(answer.path, names) : names \in answer.listing}]
      BY <2>1 DEF Shown
    <2>5. Shown(answer) = [answer EXCEPT !.listing = {listing}]
      BY <2>3, <2>4
    <2> QED
      BY <1>4, <2>5
  <1>9. Served' = Served /\ DOMAIN Served # {} /\ {Shown(a) : a \in reply}' = {Shown(answer)}
    BY <1>1, <1>5, AnswerShown
  <1>10. Fs!Node(path) = {Served[path]} /\ Served[path].type = "directory"
    <2>1. path \in DOMAIN Served /\ Served[path].type = "directory"
      BY <1>3, <1>6, ServedNodes
    <2> QED
      BY <2>1 DEF Fs!Node
  <1>11. {Fs!ListingOf(path, node) : node \in Fs!Node(path)} = {listing}
    BY <1>7, <1>10
  <1>12. Fs!Lookup(path)
    BY <1>5, <1>8, <1>9, <1>10, <1>11 DEF Fs!Lookup, Fs!Mounted, Opened
  <1> QED
    BY <1>3, <1>12 DEF ServedStep, Fs!Next

LEMMA ServeOpen ==
  ASSUME MemInv, NEW t \in Thread, Open(t)
  PROVE  ServedStep
  <1>1. Answering(t, "open")
    BY DEF Open
  <1>2. PICK path, h : path = thread[t].request.path /\ h = thread[t].request.handle
    OBVIOUS
  <1>3. /\ h \in Handle /\ handles[h] = {} /\ path \in Path
        /\ path \in DOMAIN Nodes /\ Nodes[path].type = "regular_file"
    BY <1>1, <1>2, OpenReaches
  <1>4. Fs!Node(path) = {Served[path]} /\ Served[path].type = "regular_file"
    <2>1. path \in DOMAIN Served /\ Served[path].type = "regular_file"
      BY <1>1, <1>3, AnswerReady, ServedNodes
    <2> QED
      BY <2>1 DEF Fs!Node
  <1>5. ASSUME NEW error, NEW answer, answer = [to |-> "open", path |-> path, error |-> error],
               Ends(t, answer)
        PROVE  Served' = Served /\ DOMAIN Served # {} /\ {Shown(a) : a \in reply}' = {answer}
    <2>1. answer.to # "readdir"
      BY <1>5
    <2> QED
      BY <1>1, <1>5, <2>1, AnswerShown, ShownAlike
  <1>6. CASE /\ Ends(t, [to |-> "open", path |-> path, error |-> "EACCES"])
             /\ handles' = handles
    <2>1. Fs!Refuse(path)
      BY <1>4, <1>5, <1>6 DEF Fs!Refuse, Opened
    <2> QED
      BY <1>3, <2>1 DEF ServedStep, Fs!Next
  <1>7. CASE /\ Ends(t, [to |-> "open", path |-> path, error |-> "none"])
             /\ handles' = [handles EXCEPT ![h] = {[path |-> path, root |-> thread[t].root]}]
    <2>1. /\ Served' = Served /\ DOMAIN Served # {}
          /\ {Shown(a) : a \in reply}' = {[to |-> "open", path |-> path, error |-> "none"]}
      BY <1>5, <1>7
    <2>2. PICK node : node = [path |-> path, root |-> thread[t].root]
      OBVIOUS
    <2>3. DOMAIN handles = Handle
      BY DEF MemInv, HandlesOK
    <2>4. handles'[h] = {node} /\ \A g \in Handle \ {h} : handles'[g] = handles[g]
      BY <1>3, <1>7, <2>2, <2>3
    <2>5. Opened(handles') = [Opened(handles) EXCEPT ![h] = {path}]
      <3>1. node.path = path
        BY <2>2
      <3>2. {file.path : file \in {node}} = {path}
        BY <3>1
      <3>3. Opened(handles')[h] = {path}
        BY <1>3, <2>4, <3>2 DEF Opened
      <3>4. \A g \in Handle \ {h} : Opened(handles')[g] = Opened(handles)[g]
        BY <2>4 DEF Opened
      <3> QED
        BY <3>3, <3>4 DEF Opened
    <2>6. PICK files : files = {node_ \in Fs!Node(path) : node_.type = "regular_file"}
      OBVIOUS
    <2>7. files # {} /\ {path : node_ \in files} = {path}
      BY <1>4, <2>6
    <2>8. Opened(handles)[h] = {}
      BY <1>3 DEF Opened
    <2>9. Fs!Open(path, h)
      BY <2>1, <2>5, <2>6, <2>7, <2>8 DEF Fs!Open, Fs!Mounted, Opened
    <2> QED
      BY <1>3, <2>9 DEF ServedStep, Fs!Next
  <1> QED
    BY <1>2, <1>6, <1>7, OpenAnswers

\* The range that is read is the one that was asked for.
LEMMA RangeRead ==
  ASSUME NEW content, NEW n \in Nat, n = Len(content), NEW from \in Nat, NEW size \in Nat,
         NEW offset, offset = Minimum(from, n), NEW actual, actual = Minimum(size, n - offset)
  PROVE  SubSeq(content, offset + 1, offset + actual) = Fs!BytesOf(content, from, size)
  <1>1. CASE from <= n
    <2>1. offset = from
      BY <1>1 DEF Minimum
    <2>2. offset + actual = IF from + size <= n THEN from + size ELSE n
      BY <1>1, <2>1 DEF Minimum
    <2> QED
      BY <2>1, <2>2 DEF Fs!BytesOf
  <1>2. CASE ~ (from <= n)
    <2>1. offset = n /\ actual = 0
      BY <1>2 DEF Minimum
    <2>2. SubSeq(content, offset + 1, offset + actual) = <<>>
      <3>1. n + 1 \in Int /\ n + 0 \in Int /\ n + 0 < n + 1
        OBVIOUS
      <3>2. SubSeq(content, n + 1, n + 0) = <<>>
        BY <3>1, SubSeqEmpty
      <3> QED
        BY <2>1, <3>2
    <2>3. SubSeq(content, from + 1, n) = <<>>
      <3>1. from + 1 \in Int /\ n \in Int /\ n < from + 1
        BY <1>2
      <3> QED
        BY <3>1, SubSeqEmpty
    <2>4. ~ (from + size <= n)
      BY <1>2
    <2> QED
      BY <2>2, <2>3, <2>4 DEF Fs!BytesOf
  <1> QED
    BY <1>1, <1>2

LEMMA ServeRead ==
  ASSUME MemInv, NEW t \in Thread, Read(t)
  PROVE  ServedStep
  <1>1. Answering(t, "read")
    BY DEF Read
  <1>2. PICK r : r = thread[t].request
    OBVIOUS
  <1>3. r.handle \in Handle /\ r.offset \in Nat /\ r.size \in Nat /\ handles[r.handle] # {}
    BY <1>1, <1>2, AnswerReady DEF RequestOK
  <1>4. PICK node : node \in handles[r.handle]
    BY <1>3
  <1>5. /\ handles[r.handle] = {node} /\ node.path \in DOMAIN Nodes
        /\ Nodes[node.path].type = "regular_file" /\ IsSequence(Nodes[node.path].content)
    BY <1>3, <1>4, OpenFileThere
  <1>6. The(handles[r.handle]) = node
    BY <1>5 DEF The
  <1>7. PICK content : content = Nodes[node.path].content
    OBVIOUS
  <1>8. PICK n \in Nat : n = Len(content)
    BY <1>5, <1>7, SequenceShape
  <1>9. PICK offset, actual : offset = Minimum(r.offset, n) /\ actual = Minimum(r.size, n - offset)
    OBVIOUS
  <1>10. PICK answer : answer = [to |-> "read", handle |-> r.handle, offset |-> r.offset, size |-> r.size,
                                 data |-> SubSeq(content, offset + 1, offset + actual)]
    OBVIOUS
  <1>11. Ends(t, answer) /\ handles' = handles
    BY <1>2, <1>6, <1>7, <1>8, <1>9, <1>10 DEF Read
  <1>12. answer.to = "read" /\ answer.handle = r.handle /\ answer.offset = r.offset /\ answer.size = r.size
    BY <1>10
  <1>13. Served' = Served /\ {Shown(a) : a \in reply}' = {answer}
    BY <1>1, <1>11, <1>12, AnswerShown, ShownAlike
  <1>14. Served[node.path].content = content
    <2>1. Served[node.path] = Nodes[node.path]
      BY <1>1, <1>5, AnswerReady, ServedNodes
    <2> QED
      BY <1>7, <2>1
  <1>15. answer = [to |-> "read", handle |-> r.handle, offset |-> r.offset, size |-> r.size,
                   data |-> Fs!BytesOf(Served[node.path].content, r.offset, r.size)]
    <2>1. SubSeq(content, offset + 1, offset + actual) = Fs!BytesOf(content, r.offset, r.size)
      BY <1>3, <1>8, <1>9, RangeRead
    <2> QED
      BY <1>10, <1>14, <2>1
  <1>16. node.path \in Opened(handles)[r.handle]
    BY <1>3, <1>4 DEF Opened
  <1>17. Fs!Read(r.handle, r.offset, r.size)
    BY <1>11, <1>13, <1>15, <1>16 DEF Fs!Read, Opened
  <1>18. \E a \in {Shown(a) : a \in reply}' : a.to = "read" /\ Fs!Read(a.handle, a.offset, a.size)
    BY <1>12, <1>13, <1>17
  <1> QED
    BY <1>18 DEF ServedStep, Fs!Next

LEMMA ServeRelease ==
  ASSUME MemInv, NEW h \in Handle, Release(h)
  PROVE  ServedStep
  <1>1. tree' = tree /\ handles[h] # {} /\ reply' = {[to |-> "release"]}
    BY DEF Release, held
  <1>2. handles'[h] = {} /\ \A g \in Handle \ {h} : handles'[g] = handles[g]
    BY DEF Release, MemInv, HandlesOK
  <1>3. Opened(handles') = [Opened(handles) EXCEPT ![h] = {}]
    BY <1>2 DEF Opened
  <1>4. PICK answer : answer = [to |-> "release"]
    OBVIOUS
  <1>5. Served' = Served /\ {Shown(a) : a \in reply}' = {answer}
    <2>1. answer.to # "readdir"
      BY <1>4
    <2>2. Shown(answer) = answer
      BY <2>1, ShownAlike
    <2>3. Served' = Served /\ Shown(answer)' = Shown(answer)
      BY <1>1, ServedStays
    <2> QED
      BY <1>1, <1>4, <2>2, <2>3
  <1>6. Opened(handles)[h] # {}
    BY <1>1 DEF Opened
  <1>7. Fs!Release(h)
    BY <1>3, <1>4, <1>5, <1>6 DEF Fs!Release, Opened
  <1> QED
    BY <1>7 DEF ServedStep, Fs!Next

LEMMA NextServed ==
  ASSUME MemInv, [Next]_vars, MemInv'
  PROVE  ServedStep
  <1>1. ASSUME NEW t \in Thread, RequireTree(t) PROVE ServedStep
    <2>1. tree' = tree /\ handles' = handles /\ reply' = reply
      BY <1>1 DEF RequireTree, held
    <2> QED
      BY <2>1, Stutters
  <1>2. ASSUME NEW t \in Thread, ScanEntry(t) \/ ScanFile(t) \/ ScanFails(t) PROVE ServedStep
    <2>1. tree' = tree /\ handles' = handles /\ reply' = reply
      BY <1>2 DEF ScanEntry, ScanFile, ScanFails, Scanning, Throw
    <2> QED
      BY <2>1, Stutters
  <1>3. ASSUME NEW t \in Thread, ThreadStep(t) PROVE ServedStep
    BY <1>1, <1>2, <1>3, ServeFinishScan, ServeGetattr, ServeReaddir, ServeOpen, ServeRead DEF ThreadStep
  <1>4. ASSUME NEW t \in Thread, Ask(t) PROVE ServedStep
    <2>1. tree' = tree /\ handles' = handles /\ reply' = reply
      BY <1>4 DEF Ask, AskGetattr, AskReaddir, AskOpen, AskRead, Arrives, held
    <2> QED
      BY <2>1, Stutters
  <1>5. CASE ChangeDisk \/ UNCHANGED vars
    <2>1. tree' = tree /\ handles' = handles /\ reply' = reply
      BY <1>5 DEF ChangeDisk, vars, held
    <2> QED
      BY <2>1, Stutters
  <1> QED
    BY <1>2, <1>3, <1>4, <1>5, ServeRelease DEF Next

-----------------------------------------------------------------------------
LEMMA InvTypeOK ==
  ASSUME MemInv
  PROVE  TypeOK
  <1>1. Cardinality(tree) <= 1 /\ \A nodes \in tree : NodesOK(nodes)
    <2>1. tree = {} \/ \E nodes : tree = {nodes}
      BY DEF MemInv, TreeOK
    <2>2. Cardinality(tree) = 0 \/ Cardinality(tree) = 1
      BY <2>1, FS_EmptySet, FS_Singleton
    <2> QED
      BY <2>2 DEF MemInv, TreeOK
  <1>2. Cardinality(mutex) <= 1 /\ mutex = {t \in Thread : thread[t].at = "scan"}
    <2>1. mutex = {} \/ \E t : mutex = {t}
      BY DEF MemInv, MutexOK
    <2>2. Cardinality(mutex) = 0 \/ Cardinality(mutex) = 1
      BY <2>1, FS_EmptySet, FS_Singleton
    <2> QED
      BY <2>2 DEF MemInv, MutexOK
  <1>3. ASSUME NEW t \in Thread PROVE thread[t].at \in {"idle", "require_tree", "scan", "answer"}
    <2>1. CASE thread[t] = Idle
      BY <2>1 DEF Idle
    <2>2. CASE thread[t] # Idle
      BY <2>2 DEF MemInv, ThreadsOK, ThreadOK
    <2> QED
      BY <2>1, <2>2
  <1>4. generation \in Nat /\ DOMAIN handles = Handle
    BY DEF MemInv, HandlesOK
  <1> QED
    BY <1>1, <1>2, <1>3, <1>4 DEF TypeOK, NodesOK

LEMMA InvReferencesValid ==
  ASSUME MemInv
  PROVE  ReferencesValid
  <1>1. ASSUME NEW t \in Thread, thread[t].at = "answer", thread[t].request.to # "read"
        PROVE  thread[t].root = generation
    <2>1. thread[t] # Idle
      BY <1>1 DEF Idle
    <2> QED
      BY <1>1, <2>1 DEF MemInv, ThreadsOK, ThreadOK
  <1>2. ASSUME NEW h \in Handle, NEW node \in handles[h]
        PROVE  node.root = generation /\ tree # {}
    BY DEF MemInv, HandlesOK
  <1> QED
    BY <1>1, <1>2 DEF ReferencesValid

LEMMA InvScanFaithful ==
  ASSUME MemInv
  PROVE  ScanFaithful
  <1>1. ASSUME NEW nodes \in tree, NEW path \in DOMAIN nodes
        PROVE  /\ \E d \in seen : path \in DOMAIN d /\ d[path].type = nodes[path].type
               /\ nodes[path].type = "regular_file" =>
                    \E measured, d \in {e \in seen : path \in DOMAIN e} :
                      /\ Len(nodes[path].content) = Len(measured[path].content)
                      /\ IsPrefix(nodes[path].content, d[path].content)
    <2>1. WasThere(seen, path, nodes[path])
      BY DEF MemInv, TreeOK
    <2> QED
      BY <2>1 DEF WasThere
  <1>2. ASSUME NEW nodes \in tree, NEW d \in seen, seen = {d}
        PROVE  DOMAIN nodes = {path \in DOMAIN d : d[path].type \in {"directory", "regular_file"}}
    BY <1>2 DEF MemInv, TreeOK, OnDisk
  <1> QED
    BY <1>1, <1>2 DEF ScanFaithful

\* The tree and the mutex of our_fuse_user_data: one tree at most, and the
\* mutex belongs to the one thread that scans (main.cpp:16 to 31), for any
\* number of threads.
THEOREM TypesHold == Spec => []TypeOK
  BY MemInvHolds, InvTypeOK, PTL

\* No handler and no open file leads into a tree that was replaced, although
\* the handlers use their references without the mutex: require_tree scans
\* only once (main.cpp:24 to 31).
THEOREM ReferencesStayValid == Spec => []ReferencesValid
  BY MemInvHolds, InvReferencesValid, PTL

\* The tree has nothing that was not on disk during the scan, and all of it
\* when nothing changed meanwhile, whatever is on disk and however often it
\* changes (directory.cpp).
THEOREM ScanIsFaithful == Spec => []ScanFaithful
  BY MemInvHolds, InvScanFaithful, PTL

\* No request ends the process once there is a tree: the TO_DO of readdir and
\* of open are not reached with what the kernel may ask.
THEOREM OnlyTheScanThrows == Spec => []OnlyScanThrows
  <1>1. MemInv => OnlyScanThrows
    BY DEF MemInv, OnlyScanThrows
  <1> QED
    BY MemInvHolds, <1>1, PTL

\* The frontend implements the file system it promises: all answers, of all
\* threads, are about one tree, which is there before the first of them.
THEOREM FrontendServesOneTree == Spec => ServesOneTree
  <1>1. Init => Fs!Init
    BY DEF Init, Fs!Init
  <1>2. MemInv /\ MemInv' /\ [Next]_vars => [Fs!Next]_(Fs!vars)
    BY NextServed DEF ServedStep
  <1> QED
    BY MemInvHolds, <1>1, <1>2, PTL DEF Spec, ServesOneTree, Fs!Spec
=============================================================================

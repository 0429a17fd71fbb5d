---------------------------- MODULE InMemoryFuse ----------------------------
(***************************************************************************)
(* The in-memory frontend (in_memory_fuse_frontend/main.cpp and            *)
(* in_memory_fuse_frontend_shared/directory.cpp).  fuse_main runs the      *)
(* handlers in several threads.  The first one that needs the tree scans   *)
(* the input directory, with the mutex held; all of them go on to use a    *)
(* reference into the tree after the mutex has been released.              *)
(*                                                                         *)
(* A thread is taken apart where others can run in between: a request      *)
(* arrives, require_tree takes the mutex, each file of the scan is         *)
(* measured and read, the handler answers.  Meanwhile the directory on     *)
(* disk may change.                                                        *)
(***************************************************************************)
EXTENDS Integers, Sequences, FiniteSets, SequencesExt

CONSTANTS
  Thread,         \* the threads of fuse_main
  Path,           \* paths that are asked for
  Handle,         \* files the kernel may have open at once
  ReadSizes,      \* sizes of reads
  Names,          \* the names, in the order of std::map
  Disks,          \* what the input directory may hold: nodes by their paths
  MaxChanges      \* bound on the changes of the input directory

Prefix(path, i) == SubSeq(path, 1, i)

IsSequence(s) == s \in Seq({s[i] : i \in DOMAIN s})

\* The kernel asks for paths, and for a number of bytes.
ASSUME KernelAssumption ==
  (\A path \in Path : IsSequence(path)) /\ ReadSizes \subseteq Nat

ASSUME NamesAssumption == IsSequence(Names)

\* The input directory is one, whatever it holds, and so is everything that
\* something else is in.
ASSUME DisksAssumption ==
  \A d \in Disks :
    /\ <<>> \in DOMAIN d /\ d[<<>>].type = "directory"
    /\ \A path \in DOMAIN d :
         /\ IsSequence(path)
         /\ \A i \in 0 .. Len(path) - 1 :
              Prefix(path, i) \in DOMAIN d /\ d[Prefix(path, i)].type = "directory"
         /\ d[path].type = "regular_file" => IsSequence(d[path].content)

VARIABLES
  disk,           \* the input directory, links followed
  changes,        \* how often it has changed
  seen,           \* what it was since the scan began (a history variable)
  tree,           \* our_fuse_user_data::tree
  generation,     \* how often tree was assigned: older nodes are destroyed
  mutex,          \* our_fuse_user_data::mutex: empty, or its owner
  scan,           \* the scan_directory of each thread
  thread,         \* the handler that each thread runs
  handles,        \* the kernel's open files: the node in fi->fh
  reply,          \* the last answer
  terminated      \* an exception has left a handler

vars == <<disk, changes, seen, tree, generation, mutex, scan, thread, handles,
          reply, terminated>>
outside == <<disk, changes, seen>>
held == <<tree, generation, mutex, scan>>

The(optional) == CHOOSE x \in optional : TRUE

Idle == [at |-> "idle"]
NoScan == [todo |-> {}, file |-> {}, found |-> <<>>]

Init ==
  /\ disk \in Disks
  /\ changes = 0
  /\ seen = {}
  /\ tree = {}
  /\ generation = 0
  /\ mutex = {}
  /\ scan = [t \in Thread |-> NoScan]
  /\ thread = [t \in Thread |-> Idle]
  /\ handles = [h \in Handle |-> {}]
  /\ reply = {}
  /\ terminated = FALSE

ChangeDisk ==
  /\ ~ terminated
  /\ changes < MaxChanges
  /\ disk' \in Disks \ {disk}
  /\ changes' = changes + 1
  /\ seen' = IF tree = {} /\ seen # {} THEN seen \cup {disk'} ELSE seen
  /\ UNCHANGED <<held, thread, handles, reply, terminated>>

\* A TO_DO or any other exception ends the process, with all of its threads.
Throw ==
  /\ terminated' = TRUE
  /\ scan' = [t \in Thread |-> NoScan]
  /\ thread' = [t \in Thread |-> Idle]
  /\ mutex' = {}
  /\ UNCHANGED <<outside, tree, generation, handles, reply>>

-----------------------------------------------------------------------------
(* The kernel asks only below directories it has looked up, lists          *)
(* directories, and opens regular files.  It knows the root without asking. *)

Told(path, type) ==
  \/ path = <<>> /\ type = "directory"
  \/ \E nodes \in tree : path \in DOMAIN nodes /\ nodes[path].type = type

Arrives(t, at, request) ==
  /\ ~ terminated
  /\ thread[t] = Idle
  /\ thread' = [thread EXCEPT ![t] = [at |-> at, request |-> request, root |-> 0]]
  /\ UNCHANGED <<outside, held, handles, reply, terminated>>

Pending(to, h) ==
  \E t \in Thread : /\ thread[t] # Idle
                    /\ thread[t].request.to = to
                    /\ thread[t].request.handle = h

AskGetattr(t, path) ==
  /\ \A i \in 0 .. Len(path) - 1 : Told(Prefix(path, i), "directory")
  /\ Arrives(t, "require_tree", [to |-> "getattr", path |-> path])

AskReaddir(t, path) ==
  /\ Told(path, "directory")
  /\ Arrives(t, "require_tree", [to |-> "readdir", path |-> path])

AskOpen(t, path, h, flags) ==
  /\ Told(path, "regular_file")
  /\ handles[h] = {} /\ ~ Pending("open", h)
  /\ Arrives(t, "require_tree",
             [to |-> "open", path |-> path, handle |-> h, flags |-> flags])

\* hello_read does not need the tree: fi->fh is the address of the file.
AskRead(t, h, offset, size) ==
  /\ handles[h] # {}
  /\ Arrives(t, "answer", [to |-> "read", handle |-> h, offset |-> offset, size |-> size])

\* The frontend has no release; libfuse answers for it.
Release(h) ==
  /\ ~ terminated
  /\ handles[h] # {} /\ ~ Pending("read", h)
  /\ handles' = [handles EXCEPT ![h] = {}]
  /\ reply' = {[to |-> "release"]}
  /\ UNCHANGED <<outside, held, thread, terminated>>

-----------------------------------------------------------------------------
(* require_tree *)

\* The scoped_lock; and the defect that there is none.
NoLock(t) == TRUE
CanLock(t) == mutex = {}

\* Whether the tree has to be scanned; and the defect that this is not asked.
AlwaysScan == TRUE
MustScan == tree = {}

GoOn(t) == thread' = [thread EXCEPT ![t].at = "answer", ![t].root = generation']

RequireTree(t) ==
  /\ thread[t].at = "require_tree"
  /\ CanLock(t)
  /\ \/ /\ MustScan
        /\ mutex' = {t}
        /\ scan' = [scan EXCEPT ![t] = [NoScan EXCEPT !.todo = {<<>>}]]
        /\ seen' = {disk}
        /\ thread' = [thread EXCEPT ![t].at = "scan"]
        /\ UNCHANGED <<tree, generation>>
     \/ ~ MustScan /\ UNCHANGED <<seen, held>> /\ GoOn(t)
  /\ UNCHANGED <<disk, changes, handles, reply, terminated>>

\* The names in a directory, and what is done for an entry of each type.
Children(path) == {p \in DOMAIN disk : Len(p) = Len(path) + 1 /\ Prefix(p, Len(path)) = path}

Scanning(t, s) ==
  /\ scan' = [scan EXCEPT ![t] = s]
  /\ UNCHANGED <<outside, tree, generation, mutex, thread, handles, reply, terminated>>

AddNode(found, path, node) ==
  [p \in DOMAIN found \cup {path} |-> IF p = path THEN node ELSE found[p]]

\* The next entry of the innermost directory.  One that is gone by now, or is
\* neither a file nor a directory, is skipped.  A file is opened and measured.
ScanEntry(t) ==
  /\ thread[t].at = "scan" /\ scan[t].file = {}
  /\ \E path \in scan[t].todo :
       /\ \A other \in scan[t].todo : Len(other) <= Len(path)
       /\ LET rest == [scan[t] EXCEPT !.todo = @ \ {path}]
              type == IF path \in DOMAIN disk THEN disk[path].type ELSE "not_found"
          IN  Scanning(t,
                CASE type = "directory" ->
                       [rest EXCEPT !.todo = @ \cup Children(path),
                                    !.found = AddNode(@, path, [type |-> "directory"])]
                  [] type = "regular_file" ->
                       [rest EXCEPT !.file = {[path |-> path, content |-> disk[path].content]}]
                  [] OTHER -> rest)

\* What is read from a file that was measured: its bytes of now, unless the
\* path leads elsewhere by now.
ContentNow(file) ==
  IF file.path \in DOMAIN disk /\ disk[file.path].type = "regular_file"
  THEN disk[file.path].content ELSE file.content

\* The read fails on a file that has shrunk; and the defect that the state of
\* the stream is not checked afterwards.
NeverTooShort(file) == FALSE
TooShort(file) == Len(ContentNow(file)) < Len(file.content)

\* The content has the size that was measured, and is zero before it is read.
ReadContent(file) ==
  [i \in DOMAIN file.content |->
     IF i \in DOMAIN ContentNow(file) THEN ContentNow(file)[i] ELSE 0]

ScanFile(t) ==
  /\ thread[t].at = "scan"
  /\ \E file \in scan[t].file :
       \/ TooShort(file) /\ Throw
       \/ /\ ~ TooShort(file)
          /\ Scanning(t, [scan[t] EXCEPT !.file = {},
               !.found = AddNode(@, file.path,
                           [type |-> "regular_file", content |-> ReadContent(file)])])

\* A file cannot be opened, or a directory is gone that was there before.
ScanFails(t) == thread[t].at = "scan" /\ ~ terminated /\ Throw

\* The assignment to tree, and the end of the lock; and the defect that the
\* lock is kept.
FreeNone(t) == mutex
Unlocked(t) == mutex \ {t}

FinishScan(t) ==
  /\ thread[t].at = "scan" /\ scan[t].todo = {} /\ scan[t].file = {}
  /\ tree' = {scan[t].found}
  /\ generation' = generation + 1
  /\ mutex' = Unlocked(t)
  /\ scan' = [scan EXCEPT ![t] = NoScan]
  /\ GoOn(t)
  /\ UNCHANGED <<outside, handles, reply, terminated>>

-----------------------------------------------------------------------------
(* The answers.  A walk ends at the first thing on its path that is not a  *)
(* directory; what is left of the path then does not matter to getattr.    *)

Nodes == The(tree)
IsDirectory(path) == path \in DOMAIN Nodes /\ Nodes[path].type = "directory"

\* Where the walk ends; and the defect that it ends at the first name.
FirstName(path) == Prefix(path, IF path = <<>> THEN 0 ELSE 1)
WalkEnd(path) ==
  LET ends == {i \in 0 .. Len(path) : i = Len(path) \/ ~ IsDirectory(Prefix(path, i))}
  IN  Prefix(path, CHOOSE i \in ends : \A j \in ends : i <= j)

Reached(path) == {Nodes[p] : p \in DOMAIN Nodes \cap {WalkEnd(path)}}

Stat(node) ==
  IF node.type = "regular_file"
  THEN [mode |-> "S_IFREG", st_size |-> Len(node.content)]
  ELSE [mode |-> "S_IFDIR", st_size |-> 0]

\* The names in a directory, in the order of the map.
Present(path) == {i \in DOMAIN Names : Append(path, Names[i]) \in DOMAIN Nodes}
Rank(path, i) == Cardinality({j \in Present(path) : j <= i})
EntriesOf(path) ==
  [k \in 1 .. Cardinality(Present(path)) |->
     Names[CHOOSE i \in Present(path) : Rank(path, i) = k]]
ListDirectory(path) == <<".", "..">> \o EntriesOf(path)

Ends(t, answer) ==
  /\ reply' = {answer}
  /\ thread' = [thread EXCEPT ![t] = Idle]
  /\ UNCHANGED <<outside, held, terminated>>

Answering(t, to) == ~ terminated /\ thread[t].at = "answer" /\ thread[t].request.to = to

Getattr(t) ==
  /\ Answering(t, "getattr")
  /\ LET path == thread[t].request.path
     IN  Ends(t, [to |-> "getattr", path |-> path,
                  stat |-> {Stat(node) : node \in Reached(path)}])
  /\ UNCHANGED handles

Readdir(t) ==
  /\ Answering(t, "readdir")
  /\ LET path == thread[t].request.path
     IN  IF \E node \in Reached(path) : node.type = "regular_file"
         THEN Throw
         ELSE /\ Ends(t, [to |-> "readdir", path |-> path,
                          listing |-> {ListDirectory(WalkEnd(path)) : node \in Reached(path)}])
              /\ UNCHANGED handles

\* flags are looked at as soon as the first name of the path is found.
Open(t) ==
  /\ Answering(t, "open")
  /\ LET r == thread[t].request
         error == IF r.path = <<>> \/ Prefix(r.path, 1) \notin DOMAIN Nodes THEN "ENOENT"
                  ELSE IF r.flags # "O_RDONLY" THEN "EACCES"
                  ELSE IF Reached(r.path) = {} THEN "ENOENT"
                  ELSE "none"
         file == WalkEnd(r.path) = r.path /\ ~ IsDirectory(r.path)
     IN  IF error = "none" /\ ~ file
         THEN Throw
         ELSE /\ handles' = IF error # "none" THEN handles
                            ELSE [handles EXCEPT ![r.handle] =
                                    {[path |-> r.path, root |-> thread[t].root]}]
              /\ Ends(t, [to |-> "open", path |-> r.path, error |-> error])

Minimum(a, b) == IF a <= b THEN a ELSE b

Read(t) ==
  /\ Answering(t, "read")
  /\ LET r == thread[t].request
         content == Nodes[The(handles[r.handle]).path].content
         offset == Minimum(r.offset, Len(content))
         actual_read_size == Minimum(r.size, Len(content) - offset)
     IN  Ends(t, [to |-> "read", handle |-> r.handle, offset |-> r.offset, size |-> r.size,
                  data |-> SubSeq(content, offset + 1, offset + actual_read_size)])
  /\ UNCHANGED handles

-----------------------------------------------------------------------------
ThreadStep(t) ==
  /\ ~ terminated
  /\ \/ RequireTree(t) \/ ScanEntry(t) \/ ScanFile(t) \/ FinishScan(t)
     \/ Getattr(t) \/ Readdir(t) \/ Open(t) \/ Read(t)

Ask(t) ==
  \/ \E path \in Path : AskGetattr(t, path) \/ AskReaddir(t, path)
  \/ \E path \in Path, h \in Handle, flags \in {"O_RDONLY", "O_WRONLY"} :
       AskOpen(t, path, h, flags)
  \/ \E h \in Handle, size \in ReadSizes : \E node \in handles[h] :
       \E offset \in 0 .. Len(Nodes[node.path].content) + 1 : AskRead(t, h, offset, size)

Next ==
  \/ \E t \in Thread : ThreadStep(t) \/ ScanFails(t) \/ Ask(t)
  \/ \E h \in Handle : Release(h)
  \/ ChangeDisk

Spec == Init /\ [][Next]_vars

\* Every thread goes on when it can.
FairSpec == Spec /\ \A t \in Thread : WF_vars(ThreadStep(t))

-----------------------------------------------------------------------------
\* The types of the variables of our_fuse_user_data (main.cpp:16 to 20); the
\* mutex belongs to the thread that scans, and nobody scans without it.
TypeOK ==
  /\ Cardinality(tree) <= 1
  /\ generation \in Nat
  /\ Cardinality(mutex) <= 1
  /\ mutex = {t \in Thread : thread[t].at = "scan"}
  /\ \A nodes \in tree : \A path \in DOMAIN nodes :
       nodes[path].type \in {"directory", "regular_file"}
  /\ \A t \in Thread : thread[t].at \in {"idle", "require_tree", "scan", "answer"}
  /\ DOMAIN handles = Handle

\* Nobody uses nodes of a tree that was replaced: the reference of a handler
\* that has left require_tree and the address in an open file lead into the
\* tree there is (main.cpp:29, 173 and 202, all without the mutex).
ReferencesValid ==
  /\ \A t \in Thread :
       thread[t].at = "answer" /\ thread[t].request.to # "read" => thread[t].root = generation
  /\ \A h \in Handle : \A node \in handles[h] : node.root = generation /\ tree # {}

\* What was scanned was there: each file has the size it had at one moment of
\* the scan and the bytes of one, each directory was one, and without changes
\* the scan has exactly the files and directories of the input directory
\* (scan_regular_file and scan_directory).
ScanFaithful ==
  \A nodes \in tree :
    /\ \A path \in DOMAIN nodes :
         /\ \E d \in seen : path \in DOMAIN d /\ d[path].type = nodes[path].type
         /\ nodes[path].type = "regular_file" =>
              \E measured, d \in {e \in seen : path \in DOMAIN e} :
                /\ Len(nodes[path].content) = Len(measured[path].content)
                /\ IsPrefix(nodes[path].content, d[path].content)
    /\ \A d \in seen :
         seen = {d} => DOMAIN nodes = {path \in DOMAIN d :
                                         d[path].type \in {"directory", "regular_file"}}

\* Only the scan may end the process: once there is a tree, no request does
\* (the TO_DO of main.cpp:128, 175 and 180).
OnlyScanThrows == terminated => tree = {}

\* The frontend serves one tree, whatever happens on disk and in whichever
\* order the threads run.  Seen from outside, the tree is there with the first
\* answer.  A listing of the code has names only, with "." and ".." in front.
Served == IF tree = {} THEN <<>> ELSE
  [path \in DOMAIN Nodes |->
     IF IsDirectory(path) THEN [type |-> "directory", names |-> EntriesOf(path)]
     ELSE Nodes[path]]

Named(path, names) ==
  [i \in 1 .. Len(names) - 2 |->
     [name |-> names[i + 2], stat |-> Stat(Nodes[Append(path, names[i + 2])])]]

Shown(answer) ==
  IF answer.to = "readdir"
  THEN [answer EXCEPT !.listing = {Named(answer.path, names) : names \in @}]
  ELSE answer

Fs == INSTANCE ReadOnlyFs WITH
  tree <- Served,
  opened <- [h \in Handle |-> {node.path : node \in handles[h]}],
  reply <- {Shown(answer) : answer \in reply}
ServesOneTree == Fs!Spec

\* Every request is answered, unless the scan has ended the process: no thread
\* waits for the mutex for ever (main.cpp:24).
RequestsEnd ==
  \A t \in Thread : thread[t] # Idle ~> (thread[t] = Idle \/ terminated)
=============================================================================

----------------------------- MODULE ReadOnlyFs -----------------------------
(***************************************************************************)
(* What a frontend promises to the kernel: a directory tree that never     *)
(* changes is looked up, listed, opened and read, and every answer is what *)
(* the tree says.  Nothing of how the tree is stored is visible, and it    *)
(* need not be chosen before the first answer.                             *)
(***************************************************************************)
EXTENDS Integers, Sequences

CONSTANTS
  Path,       \* sequences of names that are asked for
  Handle      \* files that may be open at once

VARIABLES
  tree,       \* the nodes by their paths; no nodes before it is chosen
  opened,     \* the path of each open file: empty or one element
  reply       \* the last answer, if no request has come since

vars == <<tree, opened, reply>>

AttributesOf(node) ==
  IF node.type = "regular_file"
  THEN [mode |-> "S_IFREG", st_size |-> Len(node.content)]
  ELSE [mode |-> "S_IFDIR", st_size |-> 0]

\* A set of at most one element: the node, if there is one.
Node(path) == {tree[p] : p \in DOMAIN tree \cap {path}}

ListingOf(path, node) ==
  [i \in DOMAIN node.names |->
     [name |-> node.names[i],
      stat |-> AttributesOf(tree[Append(path, node.names[i])])]]

\* The bytes from offset on, at most size, and never past the end.
BytesOf(content, offset, size) ==
  SubSeq(content, offset + 1,
         IF offset + size <= Len(content) THEN offset + size ELSE Len(content))

Request == reply' = {} /\ UNCHANGED <<tree, opened>>

Mounted == DOMAIN tree # {}

Mount ==
  /\ ~ Mounted
  /\ DOMAIN tree' # {}
  /\ UNCHANGED <<opened, reply>>

Lookup(path) ==
  /\ Mounted
  /\ \/ reply' = {[to |-> "getattr", path |-> path,
                   stat |-> {AttributesOf(node) : node \in Node(path)}]}
     \/ /\ \A node \in Node(path) : node.type = "directory"
        /\ reply' = {[to |-> "readdir", path |-> path,
                      listing |-> {ListingOf(path, node) : node \in Node(path)}]}
  /\ UNCHANGED <<tree, opened>>

Open(path, h) ==
  /\ Mounted
  /\ opened[h] = {}
  /\ LET files == {node \in Node(path) : node.type = "regular_file"}
     IN  /\ opened' = [opened EXCEPT ![h] = {path : node \in files}]
         /\ reply' = {[to |-> "open", path |-> path,
                       error |-> IF files # {} THEN "none"
                                 ELSE IF Node(path) = {} THEN "ENOENT" ELSE "EISDIR"]}
  /\ UNCHANGED tree

\* A frontend may refuse to open a file for writing.
Refuse(path) ==
  /\ Node(path) # {}
  /\ reply' = {[to |-> "open", path |-> path, error |-> "EACCES"]}
  /\ UNCHANGED <<tree, opened>>

Read(h, offset, size) ==
  /\ \E path \in opened[h] :
       reply' = {[to |-> "read", handle |-> h, offset |-> offset, size |-> size,
                  data |-> BytesOf(tree[path].content, offset, size)]}
  /\ UNCHANGED <<tree, opened>>

Release(h) ==
  /\ opened[h] # {}
  /\ opened' = [opened EXCEPT ![h] = {}]
  /\ reply' = {[to |-> "release"]}
  /\ UNCHANGED tree

Init == opened = [h \in Handle |-> {}] /\ reply = {}

Next ==
  \/ Request
  \/ Mount
  \/ \E path \in Path : Lookup(path) \/ Refuse(path)
  \/ \E path \in Path, h \in Handle : Open(path, h)
  \/ \E answer \in reply' :
       answer.to = "read" /\ Read(answer.handle, answer.offset, answer.size)
  \/ \E h \in Handle : Release(h)

Spec == Init /\ [][Next]_vars
=============================================================================

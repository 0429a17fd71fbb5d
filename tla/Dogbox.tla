------------------------------- MODULE Dogbox -------------------------------
(***************************************************************************)
(* The parts of dogbox on one blob table, as test_fuse_adaptor puts them   *)
(* together (tests/fuse_adaptor_test.cpp): trees are imported, one of the  *)
(* roots that were returned is mounted, and the kernel looks at the files. *)
(* Imports go on while the adaptor serves: nothing in the interfaces, all  *)
(* of which take the database by reference, keeps them apart.              *)
(*                                                                         *)
(* TreeImport and FuseAdaptor are instances that share the variable table. *)
(***************************************************************************)
EXTENDS Directory, FiniteSets

CONSTANTS
  Trees, RootDir, MaxLinks, MaxImports,   \* see TreeImport
  Path, Handle, ReadSizes                 \* see FuseAdaptor

VARIABLES
  table,
  tree, stack, importing, imports, roots, failed,                      \* see TreeImport
  root, read_cache_mode, files, handles, reading, reply, terminated,   \* see FuseAdaptor
  source,         \* see FuseAdaptor; history: what was on the disk
  mounted,        \* the import whose root the adaptor was given, if any
  unavailable     \* history: SQLite has failed in a handler

import == <<tree, stack, importing, imports, roots, failed>>
adaptor == <<root, read_cache_mode, files, handles, reading, reply, terminated, source>>
vars == <<table, import, adaptor, mounted, unavailable>>

Import == INSTANCE TreeImport
Adaptor == INSTANCE FuseAdaptor WITH Imported <- {}

\* What the parts assume of the trees and of the requests of the kernel.
ASSUME PartsAssumption ==
  /\ Import!TreesAssumption /\ Import!BytesAssumption /\ Import!BoundsAssumption
  /\ Adaptor!KernelAssumption

Init ==
  /\ Import!Init
  /\ root = ZeroDigest
  /\ read_cache_mode \in {"none", "one_piece"}
  /\ files = <<>>
  /\ handles = [h \in Handle |-> {}]
  /\ reading = {}
  /\ reply = {}
  /\ terminated = FALSE
  /\ source = <<>>
  /\ mounted = {}
  /\ unavailable = FALSE

ImportNext ==
  /\ Import!Start \/ Import!ImportStep \/ Import!ImportFails \/ Import!ChangeTree
  /\ UNCHANGED <<adaptor, mounted, unavailable>>

\* What was on the disk when a root was imported.  The names of a directory
\* are in the order of its blob, which is that of the iterator.
NodeOf(r, path) ==
  LET e == CHOOSE e \in Import!Walk(r.tree, path) : TRUE
      entry == CHOOSE entry \in ResolvePath(table, r.root, path) : TRUE
      blob == table[entry.hash_code]
  IN  IF e.type = "regular_file"
      THEN [type |-> "regular_file", content |-> e.content]
      ELSE [type |-> "directory", names |-> [i \in DOMAIN blob |-> blob[i].name]]

\* The constructor of the adaptor gets a root that an import has returned: the
\* last one, or one of a tree that has changed since.
Mount ==
  /\ mounted = {}
  /\ \E r \in roots :
       /\ mounted' = {r}
       /\ root' = r.root
       /\ source' = [path \in Import!PathsOf(r.tree) |-> NodeOf(r, path)]
  /\ UNCHANGED <<table, import, read_cache_mode, files, handles, reading, reply,
                 terminated, unavailable>>

Serve ==
  /\ mounted # {}
  /\ Adaptor!Next
  /\ UNCHANGED <<import, mounted, unavailable>>

\* SQLite fails in a handler, for example because an import of another process
\* has locked the database file.
DatabaseFails ==
  /\ mounted # {} /\ ~ terminated
  /\ Adaptor!Throw
  /\ unavailable' = TRUE
  /\ UNCHANGED <<import, mounted>>

Next == ImportNext \/ Mount \/ Serve \/ DatabaseFails

Spec == Init /\ [][Next]_vars

-----------------------------------------------------------------------------
\* What was imported is what is served, from the disk to the answers of the
\* adaptor, while other imports store, fail and return next to it
\* (fuse_adaptor_test.cpp:39 to 42 compares both with diff -r).
Fs == INSTANCE ReadOnlyFs WITH
  tree <- source,
  opened <- [h \in Handle |-> {o.path : o \in handles[h]}]
ServesImported == Fs!Spec

\* A root that was returned is complete from that moment on: unless SQLite
\* fails, no request ends the file system (import.cpp:65 against the TO_DO of
\* operations.cpp:70 and 152 and of read_file.cpp:34 and 41).
OnlyDatabaseThrows == terminated => unavailable
=============================================================================

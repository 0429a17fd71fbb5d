----------------------------- MODULE TreeImport -----------------------------
(***************************************************************************)
(* from_filesystem_directory (trees/import.cpp): a directory tree is       *)
(* imported, one directory below the other.  The recursion is a stack.     *)
(* The rows of one file are stored as ParallelImport stores them: its      *)
(* pieces in any order, then its index.  An import may fail or its process *)
(* may be killed between any two rows; what is stored by then stays, and   *)
(* another import, of the same tree or of a changed one, runs on the same  *)
(* database.                                                               *)
(*                                                                         *)
(* A tree is a function from its directories to their entries by name:     *)
(* [type, content | directory, link].  The type is what status() returns   *)
(* for the entry, following links; link tells whether there is one.        *)
(***************************************************************************)
EXTENDS Directory, FiniteSets

CONSTANTS
  Trees,       \* the trees that may be there to import
  RootDir,     \* the directory of a tree an import starts with
  MaxLinks,    \* symbolic links the kernel follows in one path, 40 on Linux
  MaxImports   \* bound: how many imports are started

\* A tree has finitely many directories.  A directory entry leads to one of
\* them, and the files are made of bytes.
ASSUME TreesAssumption ==
  \A t \in Trees :
    /\ IsFiniteSet(DOMAIN t)
    /\ RootDir \in DOMAIN t
    /\ \A d \in DOMAIN t : \A name \in DOMAIN t[d] :
         /\ t[d][name].type \in {"regular_file", "directory", "other"}
         /\ t[d][name].type = "regular_file" => t[d][name].content \in Seq(Byte)
         /\ t[d][name].type = "directory" => t[d][name].directory \in DOMAIN t
\* A byte is told apart from a digest and from an entry.
ASSUME BytesAssumption == \A byte \in Byte : byte.kind = "byte"
ASSUME BoundsAssumption == MaxLinks \in Nat /\ MaxImports \in Nat

VARIABLES
  tree,        \* what is on the disk
  table,       \* the blob table
  stack,       \* the running calls of from_filesystem_directory, innermost last
  importing,   \* the regular file that is being imported, if any
  imports,     \* how many imports were started
  roots,       \* history: the trees that were imported and what was returned
  failed       \* history: an import has failed or was killed

vars == <<tree, table, stack, importing, imports, roots, failed>>

Init ==
  /\ tree \in Trees
  /\ table = EmptyTable
  /\ stack = <<>>
  /\ importing = {}
  /\ imports = 0
  /\ roots = {}
  /\ failed = FALSE

-----------------------------------------------------------------------------
Running == stack # <<>>
Idle == ~ Running

Top == stack[Len(stack)]
Callers(frames) == SubSeq(frames, 1, Len(frames) - 1)

\* A call: the directory, the name of its entry in the calling one, the links
\* followed to get there, the names directory_iterator has yet to return, and
\* `encoded`.  The defect is to iterate over the root again.
FrameOfRoot(directory, name, links) ==
  [directory |-> directory, name |-> name, links |-> links,
   todo |-> DOMAIN tree[RootDir], encoded |-> <<>>]

Frame(directory, name, links) ==
  [directory |-> directory, name |-> name, links |-> links,
   todo |-> DOMAIN tree[directory], encoded |-> <<>>]

\* encode_entry; and the defect that it is forgotten for directories.
EncodeFilesOnly(frames, entry) ==
  IF entry.type = "directory" THEN frames
  ELSE [frames EXCEPT ![Len(frames)].encoded = Append(@, entry)]

Encode(frames, entry) ==
  [frames EXCEPT ![Len(frames)].encoded = Append(@, entry)]

Start ==
  /\ Idle
  /\ imports < MaxImports
  /\ imports' = imports + 1
  /\ stack' = << Frame(RootDir, "", 0) >>
  /\ UNCHANGED <<tree, table, importing, roots, failed>>

\* An exception leaves all the calls, or the process is killed.  Every row
\* was committed by its own INSERT.
Abandon ==
  /\ stack' = <<>>
  /\ importing' = {}
  /\ failed' = TRUE
  /\ UNCHANGED <<tree, table, imports, roots>>

\* The iterator goes on to the next entry; and the defect that it does not
\* when an entry is skipped.
AdvanceUnlessSkipped(name) ==
  IF tree[Top.directory][name].type = "other" THEN stack
  ELSE [stack EXCEPT ![Len(stack)].todo = @ \ {name}]

Advance(name) == [stack EXCEPT ![Len(stack)].todo = @ \ {name}]

\* The directory_iterator returns its entries in any order.  status() throws
\* when the path has too many links.
NextEntry(name) ==
  /\ Running /\ importing = {}
  /\ name \in Top.todo
  /\ LET entry == tree[Top.directory][name]
         links == Top.links + (IF entry.link THEN 1 ELSE 0)
         called == Advance(name)
     IN  IF links > MaxLinks
         THEN Abandon
         ELSE /\ stack' = IF entry.type = "directory"
                          THEN Append(called, Frame(entry.directory, name, links))
                          ELSE called
              /\ importing' = IF entry.type = "regular_file"
                              THEN {[name |-> name, content |-> entry.content,
                                     todo |-> 0 .. NumberOfPieces(Len(entry.content)) - 1]}
                              ELSE {}
              /\ UNCHANGED <<tree, table, imports, roots, failed>>

\* A piece of the file is stored.
StorePiece ==
  \E f \in importing : \E i \in f.todo :
    /\ table' = StoreBlob(table, PieceOf(f.content, i))
    /\ importing' = {[f EXCEPT !.todo = @ \ {i}]}
    /\ UNCHANGED <<tree, stack, imports, roots, failed>>

\* parallel_for is through; and the defect that it is not waited for.
NotWaiting(f) == TRUE
AllStored(f) == f.todo = {}

\* The index of the file is stored, and its entry is encoded.
FinishFile ==
  \E f \in importing :
    /\ AllStored(f)
    /\ table' = StoreBlob(table, FileIndex(f.content))
    /\ stack' = Encode(stack, DirectoryEntry("regular_file", f.name,
                         Sha256(FileIndex(f.content)), Len(f.content)))
    /\ importing' = {}
    /\ UNCHANGED <<tree, imports, roots, failed>>

\* The directory blob is stored and its digest returned to the caller.
FinishDirectory ==
  /\ Running /\ importing = {}
  /\ Top.todo = {}
  /\ table' = StoreBlob(table, Top.encoded)
  /\ IF Len(stack) = 1
     THEN /\ stack' = <<>>
          /\ roots' = roots \cup {[tree |-> tree, root |-> Sha256(Top.encoded)]}
     ELSE /\ stack' = Encode(Callers(stack),
                        DirectoryEntry("directory", Top.name, Sha256(Top.encoded), 0))
          /\ UNCHANGED roots
  /\ UNCHANGED <<tree, importing, imports, failed>>

ImportStep ==
  \/ \E name \in UNION {DOMAIN tree[d] : d \in DOMAIN tree} : NextEntry(name)
  \/ StorePiece
  \/ FinishFile
  \/ FinishDirectory

\* SQLite, the file system or the memory fails, or the process is killed.
ImportFails == Running /\ Abandon

\* Between two imports somebody changes what is on the disk.
ChangeTree ==
  /\ Idle
  /\ imports \in 1 .. MaxImports - 1
  /\ tree' \in Trees \ {tree}
  /\ UNCHANGED <<table, stack, importing, imports, roots, failed>>

Finished == Idle /\ imports = MaxImports /\ UNCHANGED vars

Next == Start \/ ImportStep \/ ImportFails \/ ChangeTree \/ Finished

Spec == Init /\ [][Next]_vars

\* An import that runs goes on.
FairSpec == Spec /\ WF_vars(ImportStep)

-----------------------------------------------------------------------------
\* The types of the variables.
TypeOK ==
  /\ tree \in Trees
  /\ \A i \in DOMAIN stack :
       /\ stack[i].todo \subseteq DOMAIN tree[stack[i].directory]
       /\ stack[i].links \in 0 .. MaxLinks
       /\ \A j \in DOMAIN stack[i].encoded : stack[i].encoded[j].kind = "entry"
  /\ Cardinality(importing) <= 1
  /\ imports \in 0 .. MaxImports
  /\ \A r \in roots : r.tree \in Trees
  /\ failed \in BOOLEAN

\* What a path leads to in a tree on the disk, the root being a directory:
\* empty, or one entry.
Walk(t, path) ==
  LET found[i \in 0 .. Len(path)] ==
        IF i = 0
        THEN {[type |-> "directory", directory |-> RootDir, link |-> FALSE]}
        ELSE UNION { {t[d.directory][name] : name \in {path[i]} \cap DOMAIN t[d.directory]} :
                       d \in {e \in found[i - 1] : e.type = "directory"} }
  IN  {e \in found[Len(path)] : e.type # "other"}

\* The entry found by a path in the blobs stands for that entry on the disk.
SameEntry(entry, e, t, path) ==
  /\ entry.type = e.type
  /\ e.type = "regular_file" =>
       LET index == LoadIndex(table, entry.regular_file_size, entry.hash_code)
       IN  /\ entry.regular_file_size = Len(e.content)
           /\ CanLoadIndex(table, entry.regular_file_size, entry.hash_code)
           /\ \A i \in DOMAIN index.pieces : Stored(table, index.pieces[i])
           /\ \A i \in 0 .. Len(e.content) - 1 :
                IndexedByte(table, index, i) = e.content[i + 1]
  /\ e.type = "directory" =>
       LET content == table[entry.hash_code]
           names == [i \in DOMAIN content |-> content[i].name]
       IN  /\ Stored(table, entry.hash_code)
           /\ Cardinality({names[i] : i \in DOMAIN names}) = Len(names)
           /\ {names[i] : i \in DOMAIN names} =
                {name \in DOMAIN t[e.directory] : Walk(t, Append(path, name)) # {}}

\* The paths of a tree.  No path is longer than MaxDepth.
PathsOf(t) ==
  LET MaxDepth == Cardinality(DOMAIN t) + MaxLinks
      Names == UNION {DOMAIN t[d] : d \in DOMAIN t}
      paths[n \in 0 .. MaxDepth] ==
        IF n = 0 THEN {<<>>}
        ELSE paths[n - 1] \cup
             {path \in {Append(p, name) : p \in paths[n - 1], name \in Names} :
                Walk(t, path) # {}}
  IN  paths[MaxDepth]

\* What an import has returned can be followed to every file of the tree that
\* was imported, and to nothing else, whatever later imports do, and whatever
\* an earlier one that failed has left behind (import.cpp:25 to 66).
RootsFaithful ==
  \A r \in roots : \A path \in PathsOf(r.tree) :
    \E e \in Walk(r.tree, path), entry \in ResolvePath(table, r.root, path) :
      SameEntry(entry, e, r.tree, path)

\* Everything that can be reached from some digests.
Reachable(hash_codes) ==
  LET reached[n \in 0 .. Cardinality(DOMAIN table)] ==
        IF n = 0 THEN hash_codes
        ELSE reached[n - 1] \cup
             UNION {References(table[h]) : h \in reached[n - 1] \cap DOMAIN table}
  IN  reached[Cardinality(DOMAIN table)]

\* Without failures nothing is stored that no imported tree needs; the tests
\* count blobs on that account (import_test.cpp:140 and 157).
NoOrphans ==
  Idle /\ ~ failed => DOMAIN table = Reachable({r.root : r \in roots})

\* Readers rely on ClosedStore, across failed and repeated imports.
Store == INSTANCE ClosedStore
StoreSpec == Store!Spec

\* Every import comes to an end, also when links form a cycle.
ImportEnds == Running ~> Idle

\* A tree has one root digest.  The test expects fixed digests of three trees
\* (import_test.cpp:156).
SameTreeSameRoot ==
  \A r1, r2 \in roots : r1.tree = r2.tree => r1.root = r2.root
=============================================================================

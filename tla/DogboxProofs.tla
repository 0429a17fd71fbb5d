---------------------------- MODULE DogboxProofs ----------------------------
(***************************************************************************)
(* The parts of dogbox together.  What an import has returned can be       *)
(* mounted and stays what it was while other imports run, so no request    *)
(* ends the file system unless SQLite fails, and every answer is what was  *)
(* on the disk.  And the adaptor as its clients own it: the mount goes     *)
(* before the handle, and no mount is left without a server.               *)
(***************************************************************************)
EXTENDS Dogbox, AdaptorLifecycle, DogboxLemmas

\* The parts of Dogbox once more, with what is proved about them: IP!X is the
\* X of Import, AP!X that of Adaptor.
IP == INSTANCE TreeImportProofs
AP == INSTANCE FuseAdaptorProofs WITH Imported <- {}

-----------------------------------------------------------------------------
(***************************************************************************)
(* The parts, and what is proved about them.                               *)
(***************************************************************************)

LEMMA ImportAssumptions ==
  /\ IP!TreesAssumption /\ IP!BytesAssumption /\ IP!BoundsAssumption
  /\ IP!PieceLengthAssumption
<1>1. IP!TreesAssumption
  BY PartsAssumption
     DEF PartsAssumption, Import!TreesAssumption, IP!TreesAssumption, Import!IsFiniteSet,
         IP!IsFiniteSet, IsFiniteSet
<1>2. IP!BytesAssumption
  BY PartsAssumption DEF PartsAssumption, Import!BytesAssumption, IP!BytesAssumption
<1>3. IP!BoundsAssumption
  BY PartsAssumption DEF PartsAssumption, Import!BoundsAssumption, IP!BoundsAssumption
<1>4. IP!PieceLengthAssumption
  BY PieceLengthAssumption DEF PieceLengthAssumption, IP!PieceLengthAssumption
<1>. QED  BY <1>1, <1>2, <1>3, <1>4

LEMMA AdaptorAssumptions ==
  AP!KernelAssumption /\ AP!ImportedAssumption /\ AP!PieceLengthAssumption
<1>1. AP!KernelAssumption
  BY PartsAssumption
     DEF PartsAssumption, Adaptor!KernelAssumption, AP!KernelAssumption, Adaptor!IsSequence,
         AP!IsSequence, Adaptor!IsFiniteSet, AP!IsFiniteSet, IsFiniteSet
<1>2. AP!ImportedAssumption
  BY DEF AP!ImportedAssumption
<1>3. AP!PieceLengthAssumption
  BY PieceLengthAssumption DEF PieceLengthAssumption, AP!PieceLengthAssumption
<1>. QED  BY <1>1, <1>2, <1>3

\* Every step of an import is one of TreeImport.
LEMMA ImportSteps ==
  ASSUME Import!Start \/ Import!ImportStep \/ Import!ImportFails \/ Import!ChangeTree
  PROVE  IP!Next
<1>1. Import!Start => IP!Start
  BY DEF Import!Start, IP!Start, Import!Idle, IP!Idle, Import!Running, IP!Running,
         Import!Frame, IP!Frame
<1>2. Import!Abandon => IP!Abandon
  BY DEF Import!Abandon, IP!Abandon
<1>3. Import!ImportFails => IP!ImportFails
  BY <1>2 DEF Import!ImportFails, IP!ImportFails, Import!Running, IP!Running
<1>4. Import!ChangeTree => IP!ChangeTree
  BY DEF Import!ChangeTree, IP!ChangeTree, Import!Idle, IP!Idle, Import!Running, IP!Running
<1>5. ASSUME NEW name, Import!NextEntry(name) PROVE IP!NextEntry(name)
  BY <1>5
     DEF Import!NextEntry, IP!NextEntry, Import!Abandon, IP!Abandon, Import!Running,
         IP!Running, Import!Top, IP!Top, Import!Advance, IP!Advance, Import!Frame, IP!Frame,
         Import!NumberOfPieces, IP!NumberOfPieces
<1>6. Import!StorePiece => IP!StorePiece
  BY DEF Import!StorePiece, IP!StorePiece, Import!StoreBlob, IP!StoreBlob, Import!InsertRow,
         IP!InsertRow, Import!Stored, IP!Stored, Import!Sha256, IP!Sha256, Import!PieceOf,
         IP!PieceOf, Import!ReadAt, IP!ReadAt
<1>7. ASSUME NEW content PROVE Import!FileIndex(content) = IP!FileIndex(content)
  BY DEF Import!FileIndex, IP!FileIndex, Import!PieceOf, IP!PieceOf, Import!ReadAt,
         IP!ReadAt, Import!RemainingSize, IP!RemainingSize, Import!NumberOfPieces,
         IP!NumberOfPieces, Import!EncodeFile, IP!EncodeFile, Import!Sha256, IP!Sha256
<1>8. Import!FinishFile => IP!FinishFile
  BY <1>7
     DEF Import!FinishFile, IP!FinishFile, Import!AllStored, IP!AllStored, Import!Encode,
         IP!Encode, Import!DirectoryEntry, IP!DirectoryEntry, Import!StoreBlob,
         IP!StoreBlob, Import!InsertRow, IP!InsertRow, Import!Stored, IP!Stored,
         Import!Sha256, IP!Sha256
<1>9. Import!FinishDirectory => IP!FinishDirectory
  BY DEF Import!FinishDirectory, IP!FinishDirectory, Import!Running, IP!Running, Import!Top,
         IP!Top, Import!Encode, IP!Encode, Import!Callers, IP!Callers,
         Import!DirectoryEntry, IP!DirectoryEntry, Import!StoreBlob, IP!StoreBlob,
         Import!InsertRow, IP!InsertRow, Import!Stored, IP!Stored, Import!Sha256, IP!Sha256
<1>10. Import!ImportStep => IP!ImportStep
  BY <1>5, <1>6, <1>8, <1>9 DEF Import!ImportStep, IP!ImportStep
<1>. QED  BY <1>1, <1>3, <1>4, <1>10 DEF IP!Next

\* Paths mean the same in the imports and in what they leave behind.
LEMMA SameWalk == \A t, path : Import!Walk(t, path) = IP!Walk(t, path)
BY DEF Import!Walk, IP!Walk

LEMMA SamePaths == \A t : Import!PathsOf(t) = IP!PathsOf(t)
BY DEF Import!PathsOf, IP!PathsOf, Import!Walk, IP!Walk, Import!Cardinality, IP!Cardinality,
       Cardinality

LEMMA SameLookup ==
  \A rows, digest, path : IP!ResolvePath(rows, digest, path) = ResolvePath(rows, digest, path)
BY DEF IP!ResolvePath, ResolvePath, IP!RootEntry, RootEntry, IP!Below, Below, IP!Stored,
       Stored, IP!FoundEntry, FoundEntry, IP!FindEntry, FindEntry, IP!Unreadable, Unreadable

LEMMA SameFileIndex ==
  \A content :
    IP!FileIndex(content) = FileIndex(content) /\ AP!FileIndex(content) = FileIndex(content)
BY DEF IP!FileIndex, FileIndex, IP!PieceOf, PieceOf, IP!ReadAt, ReadAt, IP!RemainingSize,
       RemainingSize, IP!NumberOfPieces, NumberOfPieces, IP!EncodeFile, EncodeFile,
       IP!Sha256, Sha256, AP!FileIndex, AP!PieceOf, AP!ReadAt, AP!RemainingSize,
       AP!NumberOfPieces, AP!EncodeFile, AP!Sha256

LEMMA SameFileStored ==
  \A rows, content : IP!FileStored(rows, content) <=> AP!FileStored(rows, content)
BY SameFileIndex
   DEF IP!FileStored, AP!FileStored, IP!Stored, AP!Stored, IP!Sha256, AP!Sha256,
       IP!PiecesOf, AP!PiecesOf, IP!PieceOf, AP!PieceOf, IP!ReadAt, AP!ReadAt,
       IP!NumberOfPieces, AP!NumberOfPieces

LEMMA SameLaid ==
  \A rows, digest, paths, disk, blobs :
    IP!Laid(rows, digest, paths, disk, blobs) => AP!Laid(rows, digest, paths, disk, blobs)
<1>1. ASSUME NEW entry, NEW e, NEW found, IP!EntryLaid(entry, e, found)
      PROVE  AP!EntryLaid(entry, e, found)
  BY <1>1, SameFileIndex
     DEF IP!EntryLaid, AP!EntryLaid, IP!DirectoryEntry, AP!DirectoryEntry, IP!Sha256,
         AP!Sha256
<1>2. ASSUME NEW paths, NEW path, NEW content, NEW disk, NEW blobs,
             IP!DirectoryLaid(paths, path, content, disk, blobs)
      PROVE  AP!DirectoryLaid(paths, path, content, disk, blobs)
  BY <1>1, <1>2 DEF IP!DirectoryLaid, AP!DirectoryLaid
<1>3. ASSUME NEW rows, NEW paths, NEW path, NEW disk, NEW blobs,
             IP!PathLaid(rows, paths, path, disk, blobs)
      PROVE  AP!PathLaid(rows, paths, path, disk, blobs)
  BY <1>2, <1>3, SameFileStored DEF IP!PathLaid, AP!PathLaid
<1>. QED  BY <1>3 DEF IP!Laid, AP!Laid

-----------------------------------------------------------------------------
(***************************************************************************)
(* While nothing is mounted the adaptor is as it was constructed.  From    *)
(* then on it satisfies its invariant, until SQLite fails.                 *)
(***************************************************************************)

\* As the adaptor is constructed, and once an exception has left a handler.
Unmounted ==
  /\ source = <<>> /\ files = <<>> /\ handles = [h \in Handle |-> {}] /\ reading = {}
  /\ terminated = FALSE

Ended == unavailable /\ reading = {} /\ terminated = TRUE

ServingInv ==
  /\ read_cache_mode \in {"none", "one_piece"}
  /\ IF mounted = {} THEN Unmounted ELSE AP!AdaptorInv \/ Ended

ImportInv == IP!StackInv /\ IP!PathInv /\ IP!RankInv

DogboxInv == ImportInv /\ ServingInv

LEMMA InitDogbox == Init => DogboxInv
<1>. SUFFICES ASSUME Init PROVE DogboxInv
  OBVIOUS
<1>1. IP!Init
  BY DEF Init, Import!Init, IP!Init, Import!EmptyTable, IP!EmptyTable
<1>2. IP!StackInv
  BY <1>1, ImportAssumptions, IP!InitStack
<1>3. IP!PathInv
  BY <1>1, ImportAssumptions, IP!InitPath
<1>4. IP!RankInv
  BY <1>1, ImportAssumptions, IP!InitRank
<1>5. ServingInv
  BY DEF Init, ServingInv, Unmounted
<1>. QED  BY <1>2, <1>3, <1>4, <1>5 DEF DogboxInv, ImportInv

\* The imports keep their invariants, and no row goes.
LEMMA ImportGoesOn ==
  ASSUME ImportInv, [IP!Next]_(IP!vars)
  PROVE  ImportInv' /\ Grows(table, table') /\ ContentAddressed(table')
<1>1. IP!StackInv' /\ IP!StoreStep
  BY ImportAssumptions, IP!NextStack DEF ImportInv
<1>2. IP!PathInv'
  BY ImportAssumptions, IP!NextPath DEF ImportInv
<1>3. IP!RankInv'
  BY ImportAssumptions, IP!NextRank DEF ImportInv
<1>4. Grows(table, table')
  BY <1>1 DEF IP!StoreStep, IP!StoreBlob, IP!InsertRow, IP!Stored, Grows
<1>5. ContentAddressed(table')
  BY <1>2 DEF IP!PathInv, IP!ContentAddressed, ContentAddressed, IP!Sha256, Sha256
<1>. QED  BY <1>1, <1>2, <1>3, <1>4, <1>5 DEF ImportInv

\* Rows that are added next to the adaptor change nothing for it.
LEMMA ServingSurvives ==
  ASSUME ServingInv, Grows(table, table'), ContentAddressed(table'),
         UNCHANGED <<adaptor, mounted, unavailable>>
  PROVE  ServingInv'
<1>1. CASE mounted = {}
  BY <1>1 DEF ServingInv, Unmounted, adaptor
<1>2. CASE mounted # {} /\ Ended
  BY <1>2 DEF ServingInv, Ended, adaptor
<1>3. CASE mounted # {} /\ AP!AdaptorInv
  <2>1. AP!Grows(table, table') /\ AP!ContentAddressed(table')
    BY DEF AP!Grows, Grows, AP!ContentAddressed, ContentAddressed, AP!Sha256, Sha256
  <2>2. UNCHANGED <<root, read_cache_mode, files, handles, reading, terminated, source>>
    BY DEF adaptor
  <2>3. AP!AdaptorInv'
    BY <1>3, <2>1, <2>2, AdaptorAssumptions, AP!InvSurvivesGrowth
  <2>. QED  BY <1>3, <2>2, <2>3 DEF ServingInv, adaptor
<1>. QED  BY <1>1, <1>2, <1>3 DEF ServingInv

\* What FuseAdaptor assumes of what it is mounted with (ImportedAssumption)
\* holds for every root that was returned, and goes on to hold.
NodesOf(r) == [path \in Import!PathsOf(r.tree) |-> NodeOf(r, path)]

Mountable(r) == AP!IsTree(NodesOf(r)) /\ AP!Holds(table, r.root, NodesOf(r))

LEMMA RootMountable ==
  ASSUME ImportInv, NEW r \in roots
  PROVE  Mountable(r)
<1>1. PICK paths : paths = IP!PathsOf(r.tree)
  OBVIOUS
<1>2. PICK disk, blobs :
        /\ IP!Laid(table, r.root, paths, disk, blobs)
        /\ \A path \in paths :
             /\ IP!Walk(r.tree, path) = {disk[path]}
             /\ IP!ResolvePath(table, r.root, path) = {blobs[path]}
  <2>1. \E disk, blobs :
          /\ IP!Laid(table, r.root, IP!PathsOf(r.tree), disk, blobs)
          /\ \A path \in IP!PathsOf(r.tree) :
               /\ IP!Walk(r.tree, path) = {disk[path]}
               /\ IP!ResolvePath(table, r.root, path) = {blobs[path]}
    BY ImportAssumptions, IP!RootsAreLaid DEF ImportInv
  <2>. QED  BY <1>1, <2>1
<1>3. AP!Laid(table, r.root, paths, disk, blobs)
  BY <1>2, SameLaid
<1>4. ASSUME NEW path \in paths
      PROVE  NodeOf(r, path) = AP!NodeLaid(table, disk[path], blobs[path])
  <2>1. Import!Walk(r.tree, path) = {disk[path]}
    BY <1>2, SameWalk
  <2>2. ResolvePath(table, r.root, path) = {blobs[path]}
    BY <1>2, SameLookup
  <2>3. /\ (CHOOSE e \in Import!Walk(r.tree, path) : TRUE) = disk[path]
        /\ (CHOOSE entry \in ResolvePath(table, r.root, path) : TRUE) = blobs[path]
    BY <2>1, <2>2
  <2>. QED  BY <2>3 DEF NodeOf, AP!NodeLaid
<1>5. NodesOf(r) = AP!NodesLaid(table, paths, disk, blobs)
  <2>1. Import!PathsOf(r.tree) = paths
    BY <1>1, SamePaths
  <2>2. NodesOf(r) = [path \in paths |-> NodeOf(r, path)]
    BY <2>1 DEF NodesOf
  <2>. QED  BY <1>4, <2>2 DEF AP!NodesLaid
<1>6. AP!IsTree(NodesOf(r))
  BY <1>3, <1>5, AdaptorAssumptions, AP!LaidIsTree
<1>7. AP!Holds(table, r.root, NodesOf(r))
  <2>1. AP!ContentAddressed(table)
    BY DEF ImportInv, IP!PathInv, IP!ContentAddressed, AP!ContentAddressed, IP!Sha256, AP!Sha256
  <2>. QED  BY <1>3, <1>5, <2>1, AdaptorAssumptions, AP!LaidIsHeld
<1>. QED  BY <1>6, <1>7 DEF Mountable

\* So it can be mounted.
LEMMA MountServing ==
  ASSUME ImportInv, ServingInv, Mount
  PROVE  ServingInv' /\ Fs!Mount
<1>1. PICK r \in roots : mounted' = {r} /\ root' = r.root /\ source' = NodesOf(r)
  BY DEF Mount, NodesOf
<1>2. /\ mounted = {}
      /\ UNCHANGED <<table, import, read_cache_mode, files, handles, reading, reply,
                     terminated, unavailable>>
  BY DEF Mount
<1>3. Unmounted /\ read_cache_mode \in {"none", "one_piece"}
  BY <1>2 DEF ServingInv
<1>4. AP!IsTree(source') /\ AP!Holds(table', root', source')
  <2>1. AP!IsTree(NodesOf(r)) /\ AP!Holds(table, r.root, NodesOf(r))
    BY RootMountable DEF Mountable
  <2>. QED  BY <1>1, <1>2, <2>1
<1>5. AP!AdaptorInv'
  <2>1. /\ read_cache_mode' \in {"none", "one_piece"} /\ files' = <<>>
        /\ handles' = [h \in Handle |-> {}] /\ reading' = {} /\ terminated' = FALSE
    BY <1>2, <1>3 DEF Unmounted
  <2>. QED  BY <1>4, <2>1, AdaptorAssumptions, AP!InvBegins
<1>6. ServingInv'
  <2>1. mounted' # {} /\ read_cache_mode' \in {"none", "one_piece"}
    BY <1>1, <1>2, <1>3
  <2>. QED  BY <1>5, <2>1 DEF ServingInv
<1>7. Fs!Mount
  <2>1. DOMAIN source = {}
    BY <1>3 DEF Unmounted
  <2>2. DOMAIN source' # {}
    BY <1>4 DEF AP!IsTree, AP!Directories
  <2>. QED  BY <1>2, <2>1, <2>2 DEF Fs!Mount, Fs!Mounted
<1>. QED  BY <1>6, <1>7

\* Every request is one of FuseAdaptor.
LEMMA AdaptorSteps == Adaptor!Next => AP!Next
<1>1. \A path : Adaptor!Resolved(path) = AP!Resolved(path)
  BY DEF Adaptor!Resolved, AP!Resolved, Adaptor!ResolvePath, AP!ResolvePath,
         Adaptor!RootEntry, AP!RootEntry, Adaptor!Below, AP!Below, Adaptor!Stored,
         AP!Stored, Adaptor!FoundEntry, AP!FoundEntry, Adaptor!FindEntry, AP!FindEntry,
         Adaptor!Unreadable, AP!Unreadable
<1>2. /\ Adaptor!Unreadable = AP!Unreadable
      /\ \A entry : Adaptor!Stat(entry) = AP!Stat(entry)
      /\ \A content : Adaptor!Listing(content) = AP!Listing(content)
  BY DEF Adaptor!Unreadable, AP!Unreadable, Adaptor!Stat, AP!Stat, Adaptor!Listing,
         AP!Listing, Adaptor!FoundEntry, AP!FoundEntry
<1>3. /\ Adaptor!Idle = AP!Idle /\ Adaptor!Throw = AP!Throw
      /\ \A answer : Adaptor!Answer(answer) = AP!Answer(answer)
  BY DEF Adaptor!Idle, AP!Idle, Adaptor!Throw, AP!Throw, Adaptor!Answer, AP!Answer,
         Adaptor!database, AP!database
<1>4. ASSUME NEW path, Adaptor!Getattr(path) PROVE AP!Getattr(path)
  BY <1>1, <1>2, <1>3, <1>4 DEF Adaptor!Getattr, AP!Getattr
<1>5. ASSUME NEW path, Adaptor!Readdir(path) PROVE AP!Readdir(path)
  BY <1>1, <1>2, <1>3, <1>5 DEF Adaptor!Readdir, AP!Readdir, Adaptor!Stored, AP!Stored
<1>6. ASSUME NEW path, NEW h, NEW entry, Adaptor!OpenRegular(path, h, entry)
      PROVE  AP!OpenRegular(path, h, entry)
  BY <1>3, <1>6
     DEF Adaptor!OpenRegular, AP!OpenRegular, Adaptor!FreeSlot, AP!FreeSlot,
         Adaptor!NewOpenFile, AP!NewOpenFile
<1>7. ASSUME NEW path, NEW h, Adaptor!Open(path, h) PROVE AP!Open(path, h)
  BY <1>1, <1>2, <1>3, <1>6, <1>7 DEF Adaptor!Open, AP!Open
<1>8. ASSUME NEW h, Adaptor!Release(h) PROVE AP!Release(h)
  BY <1>3, <1>8 DEF Adaptor!Release, AP!Release, Adaptor!The, AP!The
<1>9. \A rows, size, digest :
        /\ Adaptor!CanLoadIndex(rows, size, digest) = AP!CanLoadIndex(rows, size, digest)
        /\ Adaptor!LoadIndex(rows, size, digest) = AP!LoadIndex(rows, size, digest)
  BY DEF Adaptor!CanLoadIndex, AP!CanLoadIndex, Adaptor!LoadIndex, AP!LoadIndex,
         Adaptor!Stored, AP!Stored, Adaptor!NumberOfPieces, AP!NumberOfPieces,
         Adaptor!RemainingSize, AP!RemainingSize, Adaptor!ReadAt, AP!ReadAt
<1>10. ASSUME NEW h, NEW offset, NEW size, Adaptor!Read(h, offset, size)
       PROVE  AP!Read(h, offset, size)
  BY <1>3, <1>9, <1>10
     DEF Adaptor!Read, AP!Read, Adaptor!The, AP!The, Adaptor!database, AP!database
<1>11. Adaptor!ReadLoop => AP!ReadLoop
  BY <1>3
     DEF Adaptor!ReadLoop, AP!ReadLoop, Adaptor!The, AP!The, Adaptor!Piece, AP!Piece,
         Adaptor!InCache, AP!InCache, Adaptor!MustLoad, AP!MustLoad, Adaptor!Minimum,
         AP!Minimum, Adaptor!ReadReturns, AP!ReadReturns, Adaptor!Stored, AP!Stored,
         Adaptor!Cached, AP!Cached, Adaptor!BehindPiece, AP!BehindPiece, Adaptor!ReadAt,
         AP!ReadAt, Adaptor!database, AP!database
<1>. QED  BY <1>4, <1>5, <1>7, <1>8, <1>10, <1>11 DEF Adaptor!Next, AP!Next, Adaptor!The, AP!The

\* The adaptor promises the same as dogbox.
LEMMA SameAnswers == AP!ServedStep => [Fs!Next]_(Fs!vars)
<1>1. AP!Fs!Request => Fs!Request
  BY DEF AP!Fs!Request, Fs!Request
<1>2. AP!Fs!Mount => Fs!Mount
  BY DEF AP!Fs!Mount, Fs!Mount, AP!Fs!Mounted, Fs!Mounted
<1>3. /\ \A path : AP!Fs!Node(path) = Fs!Node(path)
      /\ \A node : AP!Fs!AttributesOf(node) = Fs!AttributesOf(node)
      /\ \A path, node : AP!Fs!ListingOf(path, node) = Fs!ListingOf(path, node)
      /\ \A content, offset, size :
           AP!Fs!BytesOf(content, offset, size) = Fs!BytesOf(content, offset, size)
  BY DEF AP!Fs!Node, Fs!Node, AP!Fs!AttributesOf, Fs!AttributesOf, AP!Fs!ListingOf,
         Fs!ListingOf, AP!Fs!BytesOf, Fs!BytesOf
<1>4. ASSUME NEW path, AP!Fs!Lookup(path) PROVE Fs!Lookup(path)
  BY <1>3, <1>4 DEF AP!Fs!Lookup, Fs!Lookup, AP!Fs!Mounted, Fs!Mounted
<1>5. ASSUME NEW path, AP!Fs!Refuse(path) PROVE Fs!Refuse(path)
  BY <1>3, <1>5 DEF AP!Fs!Refuse, Fs!Refuse
<1>6. ASSUME NEW path, NEW h, AP!Fs!Open(path, h) PROVE Fs!Open(path, h)
  BY <1>3, <1>6 DEF AP!Fs!Open, Fs!Open, AP!Fs!Mounted, Fs!Mounted
<1>7. ASSUME NEW h, NEW offset, NEW size, AP!Fs!Read(h, offset, size)
      PROVE  Fs!Read(h, offset, size)
  BY <1>3, <1>7 DEF AP!Fs!Read, Fs!Read
<1>8. ASSUME NEW h, AP!Fs!Release(h) PROVE Fs!Release(h)
  BY <1>8 DEF AP!Fs!Release, Fs!Release
<1>9. AP!Fs!Next => Fs!Next
  BY <1>1, <1>2, <1>4, <1>5, <1>6, <1>7, <1>8 DEF AP!Fs!Next, Fs!Next
<1>. QED  BY <1>9 DEF AP!ServedStep, AP!Fs!vars, Fs!vars

\* A request is answered as the file system promises.
LEMMA ServeServing ==
  ASSUME ServingInv, Serve
  PROVE  ServingInv' /\ [Fs!Next]_(Fs!vars) /\ UNCHANGED <<table, import>>
<1>1. AP!Next /\ mounted # {} /\ UNCHANGED <<import, mounted, unavailable>>
  BY AdaptorSteps DEF Serve
<1>2. UNCHANGED <<table, root, read_cache_mode, source>>
  BY <1>1, AdaptorAssumptions, AP!OnlyReads DEF AP!database
<1>3. AP!AdaptorInv
  <2>1. ~ Ended
    BY <1>1, AdaptorAssumptions, AP!NothingHandled DEF Ended
  <2>. QED  BY <1>1, <2>1 DEF ServingInv
<1>4. AP!AdaptorInv' /\ AP!ServedStep
  BY <1>1, <1>3, AdaptorAssumptions, AP!NextStep
<1>5. ServingInv'
  BY <1>1, <1>2, <1>4 DEF ServingInv
<1>6. [Fs!Next]_(Fs!vars)
  BY <1>4, SameAnswers
<1>. QED  BY <1>1, <1>2, <1>5, <1>6

\* SQLite fails, and the file system ends.
LEMMA FailureServing ==
  ASSUME ServingInv, DatabaseFails
  PROVE  ServingInv' /\ Fs!Request /\ UNCHANGED <<table, import>>
<1>1. /\ mounted # {} /\ unavailable' = TRUE /\ UNCHANGED <<import, mounted>>
      /\ terminated' = TRUE /\ reading' = {} /\ reply' = {}
      /\ UNCHANGED <<table, root, read_cache_mode, source, files, handles>>
  BY DEF DatabaseFails, Adaptor!Throw, Adaptor!database
<1>2. ServingInv'
  BY <1>1 DEF ServingInv, Ended
<1>. QED  BY <1>1, <1>2 DEF Fs!Request

LEMMA NextDogbox ==
  ASSUME DogboxInv, [Next]_vars
  PROVE  DogboxInv' /\ [Fs!Next]_(Fs!vars)
<1>1. CASE ImportNext
  <2>1. ImportInv' /\ Grows(table, table') /\ ContentAddressed(table')
    BY <1>1, ImportSteps, ImportGoesOn DEF ImportNext, DogboxInv
  <2>2. UNCHANGED <<adaptor, mounted, unavailable>>
    BY <1>1 DEF ImportNext
  <2>3. ServingInv'
    BY <2>1, <2>2, ServingSurvives DEF DogboxInv
  <2>4. UNCHANGED Fs!vars
    BY <2>2 DEF adaptor, Fs!vars
  <2>. QED  BY <2>1, <2>3, <2>4 DEF DogboxInv
<1>2. CASE Mount
  <2>1. ServingInv' /\ Fs!Mount /\ UNCHANGED <<table, import>>
    BY <1>2, MountServing DEF DogboxInv, Mount
  <2>2. ImportInv'
    BY <2>1, ImportGoesOn DEF DogboxInv, import, IP!vars
  <2>. QED  BY <2>1, <2>2 DEF DogboxInv, Fs!Next
<1>3. CASE Serve
  <2>1. ServingInv' /\ [Fs!Next]_(Fs!vars) /\ UNCHANGED <<table, import>>
    BY <1>3, ServeServing DEF DogboxInv
  <2>2. ImportInv'
    BY <2>1, ImportGoesOn DEF DogboxInv, import, IP!vars
  <2>. QED  BY <2>1, <2>2 DEF DogboxInv
<1>4. CASE DatabaseFails
  <2>1. ServingInv' /\ Fs!Request /\ UNCHANGED <<table, import>>
    BY <1>4, FailureServing DEF DogboxInv
  <2>2. ImportInv'
    BY <2>1, ImportGoesOn DEF DogboxInv, import, IP!vars
  <2>. QED  BY <2>1, <2>2 DEF DogboxInv, Fs!Next
<1>5. CASE UNCHANGED vars
  <2>1. UNCHANGED <<table, import, adaptor, mounted, unavailable>>
    BY <1>5 DEF vars
  <2>2. ImportInv' /\ Grows(table, table') /\ ContentAddressed(table')
    BY <2>1, ImportGoesOn DEF DogboxInv, import, IP!vars
  <2>3. ServingInv'
    BY <2>1, <2>2, ServingSurvives DEF DogboxInv
  <2>4. UNCHANGED Fs!vars
    BY <2>1 DEF adaptor, Fs!vars
  <2>. QED  BY <2>2, <2>3, <2>4 DEF DogboxInv
<1>. QED  BY <1>1, <1>2, <1>3, <1>4, <1>5 DEF Next

LEMMA DogboxAlways == Spec => []DogboxInv
<1>1. DogboxInv /\ [Next]_vars => DogboxInv'
  BY NextDogbox
<1>. QED  BY <1>1, InitDogbox, PTL DEF Spec

\* Every root that was returned stands for a tree that the table holds, now and
\* later: the adaptor may be mounted on it.
RootsMountable == \A r \in roots : Mountable(r)

THEOREM RootsAreMountable == Spec => []RootsMountable
<1>1. DogboxInv => RootsMountable
  BY RootMountable DEF DogboxInv, RootsMountable
<1>. QED  BY <1>1, DogboxAlways, PTL

\* A root that was returned is complete and stays it, whatever other imports
\* do: no request ends the file system unless SQLite fails.
THEOREM RequestsNeedOnlyDatabase == Spec => []OnlyDatabaseThrows
<1>1. DogboxInv => OnlyDatabaseThrows
  BY DEF DogboxInv, ServingInv, Unmounted, Ended, AP!AdaptorInv, OnlyDatabaseThrows
<1>. QED  BY <1>1, DogboxAlways, PTL

\* What was on the disk when the root was imported is what is served: dogbox
\* implements the read-only file system it promises.
THEOREM DogboxServesImported == Spec => ServesImported
<1>1. Init => Fs!Init
  BY DEF Init, Fs!Init
<1>2. DogboxInv /\ [Next]_vars => [Fs!Next]_(Fs!vars)
  BY NextDogbox
<1>. QED  BY <1>1, <1>2, DogboxAlways, PTL DEF Spec, ServesImported, Fs!Spec

-----------------------------------------------------------------------------
(***************************************************************************)
(* However often the program is started, killed or fails: the mount goes   *)
(* before the handle, and no mount is left without a server.               *)
(***************************************************************************)

Owner ==
  {"unmount", "mount", "new", "start", "use", "~channel", "~fuse", "unwind", "join", "done",
   "failed"}

\* Where the owner is tells what there is.  While it constructs there is no
\* handle yet; while it destroys, the handle goes last, and without a second
\* thread something has failed.
OwnerInv ==
  /\ owner \in Owner
  /\ fuse = "valid" <=> owner \in {"start", "use", "~channel", "~fuse"}
  /\ fuse = "destroyed" => owner \in {"join", "done", "failed"}
  /\ owner \in {"join", "done"} => fuse = "destroyed"
  /\ owner \in {"mount", "~fuse", "join", "done"} => mount = "none"
  /\ owner \in {"unwind", "failed"} => faults
  /\ owner \in {"unmount", "mount", "new", "start", "unwind"} => loop = "none"
  /\ owner = "use" => loop # "none"
  /\ owner \in {"~channel", "~fuse"} /\ loop = "none" => faults

LifeInv == TypeOK /\ OwnerInv

LEMMA DestructorOrder == Destructors[1] = "~channel" /\ Destructors[2] = "~fuse"
BY DEF Destructors

LEMMA InitLife == LifeInit => LifeInv
BY DEF LifeInit, LifeInv, TypeOK, OwnerInv, Owner

LEMMA ThrowLife ==
  ASSUME LifeInv, owner \in {"unmount", "mount", "new"}, ConstructorThrows
  PROVE  LifeInv'
<1>1. faults' = TRUE /\ UNCHANGED <<mount, channel, fuse, loop, result>>
  BY DEF ConstructorThrows, worker
<1>2. CASE channel
  BY <1>1, <1>2 DEF ConstructorThrows, LifeInv, TypeOK, OwnerInv, Owner
<1>3. CASE ~ channel
  BY <1>1, <1>3 DEF ConstructorThrows, LifeInv, TypeOK, OwnerInv, Owner
<1>. QED  BY <1>2, <1>3

LEMMA ConstructorLife == LifeInv /\ (Unmount \/ MountChannel \/ New) => LifeInv'
<1>. SUFFICES ASSUME LifeInv, Unmount \/ MountChannel \/ New PROVE LifeInv'
  OBVIOUS
<1>1. CASE Unmount /\ ~ ConstructorThrows
  <2>1. owner = "unmount" /\ owner' = "mount" /\ mount' = "none"
    BY <1>1 DEF Unmount, AfterUnmount
  <2>2. UNCHANGED <<channel, fuse, faults, loop, result>>
    BY <1>1 DEF Unmount, worker
  <2>. QED  BY <2>1, <2>2 DEF LifeInv, TypeOK, OwnerInv, Owner
<1>2. CASE MountChannel /\ ~ ConstructorThrows
  <2>1. owner = "mount" /\ mount = "none"
    BY <1>2 DEF MountChannel, LifeInv, OwnerInv
  <2>2. owner' = "new" /\ mount' = "live" /\ channel' = TRUE
    BY <1>2, <2>1 DEF MountChannel
  <2>3. UNCHANGED <<fuse, faults, loop, result>>
    BY <1>2 DEF MountChannel, worker
  <2>. QED  BY <2>1, <2>2, <2>3 DEF LifeInv, TypeOK, OwnerInv, Owner
<1>3. CASE New /\ ~ ConstructorThrows
  <2>1. owner = "new" /\ owner' = "start" /\ fuse' = "valid"
    BY <1>3 DEF New
  <2>2. UNCHANGED <<mount, channel, faults, loop, result>>
    BY <1>3 DEF New, worker
  <2>. QED  BY <2>1, <2>2 DEF LifeInv, TypeOK, OwnerInv, Owner
<1>4. CASE ConstructorThrows
  <2>1. owner \in {"unmount", "mount", "new"}
    BY DEF Unmount, MountChannel, New
  <2>. QED  BY <1>4, <2>1, ThrowLife
<1>. QED  BY <1>1, <1>2, <1>3, <1>4

\* The thread in fuse_loop changes nothing of the adaptor.
LEMMA LoopLife == LifeInv /\ (Request \/ LoopStep) => LifeInv'
<1>. SUFFICES ASSUME LifeInv, Request \/ LoopStep PROVE LifeInv'
  OBVIOUS
<1>1. UNCHANGED owned
  BY DEF Request, LoopStep, Check, HandleRequest, Wake, Leave, Use, Uses
<1>2. loop # "none"
  BY DEF Request, LoopStep, Check, HandleRequest, Wake, Leave
<1>3. loop' \in {"check", "read", "handle", "leave", "returned"} /\ result' \subseteq {0, -1}
  BY DEF Request, LoopStep, Check, HandleRequest, Wake, Leave, Use, Uses, LifeInv, TypeOK
<1>. QED  BY <1>1, <1>2, <1>3 DEF LifeInv, TypeOK, OwnerInv, owned

LEMMA DestructionLife == LifeInv /\ (StartLoop \/ Exit \/ Destruction) => LifeInv'
<1>. SUFFICES ASSUME LifeInv, StartLoop \/ Exit \/ Destruction PROVE LifeInv'
  OBVIOUS
<1>. USE DestructorOrder DEF LifeInv, TypeOK, OwnerInv, Owner, worker, Destroyed
<1>1. CASE Exit
  BY <1>1 DEF Exit
<1>2. CASE DestroyChannel
  BY <1>2 DEF DestroyChannel, AfterChannel
<1>3. CASE DestroyFuse
  BY <1>3 DEF DestroyFuse
<1>4. CASE Join
  BY <1>4 DEF Join
<1>5. CASE StartLoop
  BY <1>5 DEF StartLoop
<1>. QED  BY <1>1, <1>2, <1>3, <1>4, <1>5 DEF Destruction

LEMMA RestartLife == LifeInv /\ (Kill \/ StartAgain) => LifeInv'
BY DEF LifeInv, TypeOK, OwnerInv, Owner, Kill, StartAgain, Restart

LEMMA StutterLife == LifeInv /\ UNCHANGED lifeVars => LifeInv'
BY DEF LifeInv, TypeOK, OwnerInv, lifeVars

LEMMA LifeAlways == LifeSpec => []LifeInv
<1>1. LifeInv /\ [LifeNext]_lifeVars => LifeInv'
  BY ConstructorLife, LoopLife, DestructionLife, RestartLife, StutterLife DEF LifeNext
<1>. QED  BY <1>1, InitLife, PTL DEF LifeSpec

\* The variables keep their types, and whoever has a channel is mounted.
THEOREM LifeTypeCorrect == LifeSpec => []TypeOK
<1>1. LifeInv => TypeOK
  BY DEF LifeInv
<1>. QED  BY <1>1, LifeAlways, PTL

\* fuse_unmount is called before fuse_destroy, whatever fails (adaptor.h:20).
THEOREM UnmountComesFirst == LifeSpec => []UnmountedBeforeDestroyed
<1>1. LifeInv => UnmountedBeforeDestroyed
  BY DEF LifeInv, TypeOK, OwnerInv, UnmountedBeforeDestroyed
<1>. QED  BY <1>1, LifeAlways, PTL

\* A constructor that fails and an adaptor that is destroyed leave no mount
\* without a server, and what a crash has left is removed.
THEOREM MountIsRemoved == LifeSpec => []NothingLeftMounted
<1>1. LifeInv => NothingLeftMounted
  BY DEF LifeInv, TypeOK, OwnerInv, NothingLeftMounted
<1>. QED  BY <1>1, LifeAlways, PTL
=============================================================================

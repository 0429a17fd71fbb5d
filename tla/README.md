# Verification of dogbox

dogbox stores directory trees in a content-addressed blob table and serves them
through FUSE. This directory holds TLA+ models of it, the TLC configurations
that check them on small instances, and proofs checked by TLAPS.

    tlc -config ParallelImport.cfg MCParallelImport     # likewise the other .cfg files
    tlapm ParallelImportProofs.tla                      # and DogboxLemmas, TreeImportProofs, FuseAdaptorProofs,
                                                        # InMemoryFuseProofs, BlobStoreProofs, EncodingProofs,
                                                        # DogboxProofs

## The system

| component | state | operations | works with |
|---|---|---|---|
| blob table, `blob_layer/blob_storage.*` | the SQLite table `blob`: digest to compressed content and size | `initialize_blob_storage`, `store_blob` (SELECT, then INSERT), `load_blob`, `count_blobs` | called by both imports, `load_regular_file_index`, `read_file`, the adaptor |
| digests, `blob_layer/hash_code.*` | none | `sha256`, hexadecimal text both ways | the key of the table |
| layout of files, `trees/regular_file*` | none | one blob per full piece of 1 MiB; an index blob of their digests and the remaining bytes | written by the import, read by the adaptor |
| layout of directories, `trees/directory.*` | none | `encode_entry`, `decode_entry` | as above |
| import of a file, `trees/import.cpp` | the file, its measured size, the vector of digests, worker threads, `database_mutex` | `from_filesystem_regular_file`, `parallel_for` | the table; other processes may write the file |
| import of a tree, `trees/import.cpp` | the recursion: an iterator and an encoded blob per directory | `from_filesystem_directory` | import of a file; the table |
| FUSE adaptor, `fuse_adaptor/operations.cpp`, `trees/read_file.cpp` | root digest, `files` (slots of open files, each with its index and one cached piece) | getattr, readdir, open, read, release | the table; called by `fuse_loop`, one request at a time |
| adaptor life cycle, `fuse_adaptor/adaptor.*`, `channel.h` | the FUSE handle and the channel | mount, unmount, destroy | a thread in `fuse_loop` |
| in-memory frontend, `in_memory_fuse_frontend*` | a tree scanned by the first request | getattr, readdir, open, read | several threads of `fuse_main` |
| test data, `common/create_random*` | none | loops over `read` and `write` | tests and benchmarks |

What is hard in each, and what makes it correct:

* **Import of a file** is the concurrent part. Threads share a vector without a
  lock, a table behind a mutex, and a frame that is left by exception. Correct
  means: each piece has one owner; equal pieces never collide on the primary
  key; no worker outlives the frame; a failure is never taken for success; the
  result reads back as the file, also when the file changes meanwhile; it ends.
* **Import of a tree** has no transaction around it. Correct means: whatever was
  killed or failed before, a root that was returned leads to its whole tree and
  to nothing else, and at every moment the table mentions only what it holds.
* **The adaptor** is sequential, but it reuses slots and caches pieces. Correct
  means: it answers as the imported tree says, for any sequence of requests.
* **The blob table** is written by clients that may not exclude each other, in
  two statements per blob, with limits of `int` and of LZ4 that differ. Correct
  means: a row has its whole content; what one client was told to be stored is
  there for all; a client that fails or dies has stored a blob or has not.
* **The in-memory frontend** scans in the first request, while other handlers
  wait and the directory changes. Correct means: one scan, no reference into a
  tree that is gone, one tree in all answers, nobody waits for ever.
* **The life cycle** crosses two threads, the kernel, and crashes of earlier
  runs. Correct means: the mount goes before the handle, no mount is left
  without a server, destruction ends. What it must not do either, and does, is
  to destroy what the loop thread still uses.
* **The encodings** have no type and no length in front. Correct means: what was
  written is read, whatever bytes are in it; nothing else is accepted; a loop
  over a blob never leaves it.

PROJECT.json lists the hazards one by one, each at its line, with the
properties that would catch it.

## Modules

| module | models | checked by |
|---|---|---|
| Blobs | digests, the table, directory entries | through the others |
| BlobStore | `blob_storage.cpp` for several clients | MCBlobStore, BlobStoreProofs |
| ContentStore | what the table promises to its clients | through BlobStore |
| ClosedStore | what writers promise to readers | through ParallelImport and TreeImport; TreeImportProofs |
| HexDigest | the text of a digest and its parser | MCEncodings, EncodingProofs |
| DirectoryBytes | `encode_entry`, `decode_entry`, big endian integers, the loops over a blob | MCEncodings, EncodingProofs |
| RegularFile | pieces and index of a file | through the others |
| ParallelImport | `from_filesystem_regular_file`, `parallel_for` | MCParallelImport, ParallelImportProofs |
| Directory | search and listing of directory blobs | through FuseAdaptor and TreeImport |
| TreeImport | `from_filesystem_directory` | MCTreeImport, TreeImportProofs |
| ReadOnlyFs | what a frontend promises to the kernel | through FuseAdaptor, InMemoryFuse, Dogbox |
| FuseAdaptor | the handlers and `read_file` | MCFuseAdaptor, FuseAdaptorProofs |
| Dogbox | imports and an adaptor on one table: instances of TreeImport and FuseAdaptor | MCDogbox, DogboxProofs |
| AdaptorLifecycle | construction, `fuse_loop`, destruction, crashes | itself, DogboxProofs |
| InMemoryFuse | the threads, the scan and the handlers of the in-memory frontend | MCInMemoryFuse, InMemoryFuseProofs |
| DogboxLemmas | nothing: facts about the operators of Blobs, RegularFile and Directory, and the arithmetic and recursion they need | itself |

**Abstractions.** A blob is a sequence of symbols; a symbol is a byte of user
data, a whole digest, or a whole directory entry. Blobs have no type, as in the
code: an empty file and an empty directory are the same blob. `Sha256` is a
constructor, so digests never collide. A row is what it decompresses to. An
absent `std::optional` is the empty set. `TO_DO()` is an exception: it makes a
thread or an import fail, and ends the process when it leaves a FUSE handler.

**ParallelImport.** `main` is the control of the calling thread outside of the
loop, `pc[t]` that of thread t in the loop; the calling thread takes part as the
last one. Each round is four steps, because other threads can run in between:
read the piece, SELECT (which takes the mutex), INSERT (which gives it back), record
the digest. Failures are actions of their own: the file cannot be opened, a
thread cannot be started, SQLite fails, a read comes up short. `EndUnwind` is
the destructor of the futures. `WriteFile` is another process that replaces the
content of the file between any two steps; `versions` remembers what it was.

**TreeImport.** `stack` is the recursion and `importing` the file in progress.
The rows of a file appear as ParallelImport lets them appear: pieces in any
order, then the index. `NextEntry` takes the entries in any order.
Every step may fail, which abandons the import and leaves the table; killing the
process looks the same to the table. Then the next import starts, of the same
or of another tree. `roots` remembers what was returned. A tree does not change
while it is imported; that case is checked for a single file by ParallelImport.

**FuseAdaptor.** `fuse_loop` is single threaded, so a handler is one step; only
`read_file` is taken apart, into one step per iteration. `files` is the table of
slots, `handles` what the kernel has open, with the fh it was given. The kernel
lists only directories, reads only inside the size it was told, and releases
each file once. `source` is a history variable that no handler reads: the tree
that was imported, which the answers are compared with.

**Dogbox.** The two share the variable `table`. Imports start, fail and return
next to an adaptor that was mounted on any root returned so far. The interfaces
allow that: all of them take the database by reference. `DatabaseFails` is an
error of SQLite in a handler, which is what an import of another process on the
same file may cause; it ends the adaptor. There is one mount per behaviour.
`Mount` sets `source` to what the tree of that root had on the disk, each node
with its content or its names (`NodeOf`); before, `source` is empty.

**BlobStore.** Each statement of SQLite is a step, so `store_blob` is `LookUp`
and `Insert`, and `inserting[c]` is what client c holds between them. A row has
what LZ4 made of the content: LZ4's result is its input, one longer, or nothing
at all above `LZ4MaxInput`. `load_blob` resizes the caller's buffer, which may
hold the last content, and ignores what LZ4 says. `Fail` is any error of SQLite
in any operation, `Kill` a process that dies and comes back. ContentStore is
the same with one step per operation and digests for rows.

**DirectoryBytes and HexDigest.** Here a blob is real bytes, a pointer is the number of
bytes in front of it, and one iteration of the loop of `find_entry` and
`adaptor_readdir` is one step. A blob is an encoded directory or any short
sequence of bytes. The base, the size of an integer and that of a digest are
parameters. HexDigest has no loop: `Parse` is the function it computes, and a
step applies it to one text. A character is a digit and its case, or no digit.

**AdaptorLifecycle.** `owner` is the control of the thread that has the adaptor,
`loop` that of the thread in `fuse_loop`, `mount` what the kernel has. The actions follow
the constructor (`Unmount`, `MountChannel`, `New`), each of which may throw, the
caller (`StartLoop`, which throws when there is no thread to be had, and `Exit`),
and the destructors in the order of the members (`DestroyChannel`, `DestroyFuse`).
libfuse is external: the loop checks the flag, waits for a request, handles it,
and is woken by an unmount. A step of the loop that needs
what is destroyed sets `undefined` and may return anything. `Kill` leaves a
stale mount for the next run. It is assumed that fuse_unmount succeeds and that
no other program uses the mount point. Its names (`LifeInit`, `LifeNext`,
`LifeSpec`) are not those of Dogbox, so that DogboxProofs can extend both.

**InMemoryFuse.** Each thread has a request and stands at `require_tree`, in the
scan, or before its answer; the mutex is held from taking it to the end of the
scan. Every entry of the scan is a step, in which a file is measured, and so is
reading it, so that the directory on disk can change in between. A read of one file is atomic. Links
are followed on disk and link loops are left out. `generation` counts the
assignments of `tree`, and a reference carries the one it was taken from: using
an older one is what a dangling reference is.

**ReadOnlyFs** is what all three frontends are mapped to. Its tree appears at
some moment (`Mount`) and never changes; `Refuse` is an open for writing, which
only the in-memory frontend turns down. A read behind the end returns nothing;
the in-memory frontend does that too.

## Runs

| run | configuration | result |
|---|---|---|
| parallel_import | pieces of 2 bytes over 2 byte values; files of 12, 11, 8, 1 and 0 bytes, with equal pieces next to each other and apart; 0, 2 or 3 hardware threads, or no parallelism; one rewrite of the file | passes, 46 011 states |
| parallel_import_assert | hardware_concurrency() is 0 | violated: a finding |
| tree_import | 3 trees (nested with an empty directory and shared pieces; flat with an empty file, a skipped entry and a link; with a link to itself), 2 imports, 2 links per path | passes, 5 961 states |
| tree_import_root | as before | violated: a finding |
| blob_store | 3 clients, contents of 0, 2 and 5 bytes, LZ4 takes 2, int 4 | passes, 8 968 states |
| blob_store_lossy | a content of 3 bytes: between the two limits | violated: a finding |
| encodings | bytes of 4 values, integers of 2 bytes, digests of 1: all 21 845 blobs of up to 7 bytes, all directories of up to 2 entries of 144 entries; all digests of 1 byte and 256 of 2, all texts of up to 5 of 7 characters | passes, 174 368 states |
| adaptor_lifecycle | 3 runs of the program, with or without a stale mount at first | passes, 231 states |
| adaptor_lifecycle_result | 1 run | violated: a finding |
| in_memory_fuse | 2 threads, 1 open file, 2 versions of the input directory and one change between them, 5 paths, reads of 1 and 4 bytes up to behind the end | passes, 238 716 states |
| dogbox | 2 trees that share a piece, 3 imports, 1 open file, both cache modes | passes, 102 932 states |
| fuse_adaptor | a nested and an empty root, both cache modes, 2 open files, 7 paths of which 2 lead nowhere, reads of 1 and 4 bytes at every offset | passes, 13 148 states |

* `PieceOwnership`: a thread at work on a piece is alone with it and first there.
* `NoConstraintViolation`: nobody is about to insert a row that exists.
* `NoWorkerOutlivesLoop`: outside of the loop, no thread is at work.
* `EncodeOnlyWhenComplete`: encoding starts only when nobody threw and every
  piece is recorded and stored.
* `ImportFaithful`: what is returned can be read back, has the size that was
  measured, and each piece is what the file was at some moment of the import.
* `StoreSpec`: the import implements ClosedStore. TreeImport does too, across
  failures and repetitions.
* `Termination`, `ImportEnds`, `ReadsReturn`: imports and reads end.
* `RootsFaithful`: every root ever returned leads to exactly its tree.
* `NoOrphans`: without failures nothing else is stored.
* `SlotsMatchHandles`, `CacheCoherent`: slots belong to the files the kernel has
  open, and cached content to the file and piece it is used for.
* `NeverThrows`: no request ends the file system.
* `ServesSource`: the adaptor, mounted on what an import stored, implements
  ReadOnlyFs on the tree that was imported.
* `ServesImported`: the same for real imports, that go on next to it: from the
  disk to the answers nothing is changed, lost or mixed up.
  `OnlyDatabaseThrows`: no handler meets a blob that is missing.
* `RowsDecodable`: every row decompresses to the content of its digest, and
  whoever is about to insert may. The sizes of the run lie around the limit of
  int and leave out those that LZ4 alone refuses, for which it is false
  (blob_store_lossy). `ImplementsStore`: BlobStore implements
  ContentStore; a client is refused only what another one has stored.
* `CursorInBlob`, `DecodesWhatWasEncoded`, `AcceptsOnlyEncodings`: the loop stays
  in the blob for any bytes; decoding inverts encoding; what is accepted is an
  encoding of what was read. `TextIdentifiesDigest`, `ParsesExactlyDigests`:
  likewise for the text of a digest, up to case.
* `UnmountedBeforeDestroyed`, `NothingLeftMounted`, `DestructionEnds`: the order
  that adaptor.h asks for, no mount without a server, and no join that waits
  for a request nobody sends.
* `ReferencesValid`: no handler uses nodes of a tree that was replaced.
  `ScanFaithful`: what was scanned was there, also when the directory changes
  during the scan. `ServesOneTree`: InMemoryFuse implements ReadOnlyFs.
  `OnlyScanThrows`, `RequestsEnd`: once there is a tree no request ends the
  process, and nobody waits for ever.

**Bounds.** Two or three threads and six pieces give each thread a first, a middle
and a last round, a share that is larger than another's, and pairs of threads with equal pieces
at the same time. One rewrite separates every read from every other. Two imports
are what a failure and its repetition need. Two open files are what it takes for
a slot to be reused while another is in use. MaxLinks stands for the 40 of Linux.
Three clients of the table are two that collide and one that looks on. A blob of
7 bytes has room for one entry with its size and the beginning of another, in every
wrong way; encoded directories are longer. Three runs of the program are a
crash, a run that cleans up, and one that finds it clean. Three imports are one
that fails, one that is mounted, and one that runs next to it. With two threads one scans
while the other waits. MaxChanges, MaxImports and MaxRuns bound what the outside
does, never what the code does.

**Fairness.** Termination assumes that threads that can run are scheduled and
that a free mutex is acquired. Weak fairness of a thread is enough, because a
thread that waits for the mutex can be overtaken only as often as the others
have pieces left. ImportEnds and ReadsReturn assume that the running code goes
on. DestructionEnds assumes that both threads go on when they can, but no
request and no call of fuse_exit; RequestsEnd assumes weak fairness of each
handler thread, which is enough because the mutex is taken once per request and
the scan under it ends. Nothing is assumed of failures, of other processes or of the kernel.

## Findings

* `hardware_concurrency()` may return 0. Then `parallel_for` is called with 0
  and its first assertion fails (import.cpp:73), for every file.
* The root digest of a tree depends on the order of `directory_iterator`
  (import.cpp:28); a test expects fixed digests (import_test.cpp:156).
* Contents above LZ4's limit (0x7E000000 bytes) and up to INT_MAX are stored as
  rows without content, and load as something else (blob_storage.cpp:76 and
  141); a test expects what was stored (blob_storage_test.cpp:29). The import
  itself stores no piece of that size, but an index of a huge file could have it.
* The tests destroy the adaptor before they wait for the thread in `fuse_loop`
  (fuse_adaptor_test.cpp:45 and 46), which may still be using it; they expect it
  to return 0 (fuse_adaptor_test.cpp:32). The benchmarks do the same.

One more thing met while modelling contradicts no statement of the repository,
and is therefore a hazard only: `read_file` at an offset one or more pieces behind the end
returns the bytes of the tail again (read_file.cpp:47 to 50). The kernel does
not read there.

## Proofs

The theorems hold for every value of the constants that the named assumptions
allow: any files and trees, any number of threads, clients, open files, reads
and paths, any positive length of the pieces, any width of integers and digests.

| module | theorems | about |
|---|---|---|
| ParallelImportProofs | `TypeCorrect`, `WorkersAreJoined`, `InsertsAreFresh`, `PiecesAreOwned`, `EncodingIsComplete`, `ImportKeepsStoreClosed`, `ImportIsFaithful` | every property of the run but `Termination` |
| TreeImportProofs | `TypesHold`, `ImportsKeepStoreClosed`, `StoreIsReadable`, `RootsAreFaithful`, `NothingIsOrphaned` | every property but `ImportEnds` |
| FuseAdaptorProofs | `TypesHold`, `SlotsMatch`, `CachesAreCoherent`, `RequestsNeverThrow`, `AdaptorServesSource` | every property but `ReadsReturn` |
| InMemoryFuseProofs | `TypesHold`, `ReferencesStayValid`, `ScanIsFaithful`, `OnlyTheScanThrows`, `FrontendServesOneTree` | every property but `RequestsEnd` |
| BlobStoreProofs | `RowsAreDecodable`, `TableIsStore` | every property |
| EncodingProofs | `CursorStaysInBlob`, `DirectoriesAreDecoded`, `OnlyEncodingsAreAccepted`, `TextsIdentifyDigests`, `DigestsAreParsedExactly` | every property |
| DogboxProofs | `RootsAreMountable`, `RequestsNeedOnlyDatabase`, `DogboxServesImported` | every property of the run dogbox |
| DogboxProofs | `LifeTypeCorrect`, `UnmountComesFirst`, `MountIsRemoved` | every property of AdaptorLifecycle but `DestructionEnds` |

**Import of a file.** TypeOK is inductive as it stands. The other properties are
not, and each needs to know more:

* NoWorkerOutlivesLoop says nothing about the loop itself. ControlInv adds which
  threads may be at work: none before the loop, those below `launched` while
  workers are being started, joined or unwound, those below `threads` in the loop.
* NoConstraintViolation: MutexInv adds that a thread between SELECT and INSERT is
  the one that holds the mutex. The calling thread stores the index without the
  mutex; that is sound only because of ControlInv.
* PieceOwnership: StrideInv adds that a thread of the loop stays on the pieces
  whose remainder by the number of threads is its own number. Adding the stride
  leaves the remainder alone, and between two rounds of a thread there is no
  other piece of its own (`RemainderAfterStride`, `NothingBetweenStrides`).
* EncodeOnlyWhenComplete: PieceInv adds what has been recorded: the pieces a
  thread is past are recorded and stored, those ahead of it are untouched, a
  thread that is about to record has its row in the table, and one that has
  returned is past the last piece. A join that has waited for every thread of
  the loop has thus waited for every piece.
* StoreSpec: each INSERT of a piece adds a blob that mentions nothing, and the
  index mentions what PieceInv says is stored. Every other step stutters.
* ImportFaithful speaks of the result alone. ReadInv follows each piece on its
  way: what a thread has in its buffer, and what the digest in the vector
  stands for, was at that offset in one of the versions of the file. The digest
  is then taken apart again by what `LoadedFile` proves of `load_regular_file_index`.

**Import of a tree.** StackInv says what is on the stack and what of it is stored:
an entry that was encoded has its digest in the table, and so has every piece
of the file in progress that is not in its `todo`. That gives TypeOK and the
refinement of ClosedStore. A failure only drops the stack, which explains why
nothing has to be undone. `StoreIsReadable` is about ClosedStore alone: in any
table that grows in this way, every row is under its own digest and every
digest a row mentions is stored.

RootsFaithful is about paths, and a tree may have links to its own directories,
so there is no recursion over the tree to argue along. PathInv therefore uses a set of
pairs of digest and directory (`Same`): the blob of each pair has one entry for
each name of the directory that is imported, and each entry leads to a stored
file or to another pair of the set. Such sets survive when rows are added and
when one pair is added (`SameGrows`, `SameGetsOne`); each call has encoded
exactly the names it has been through; and calls are linked by the entries they
wait for. `WalkedPath` and `ResolvedPath` then show that the code's search along
a path and the walk on the disk stay in step, link for link.

NoOrphans is about an import that has come to its end, and says nothing about one
that is under way, when many rows have nobody yet who mentions them. OrphanInv says who needs
them: every set of digests that contains the roots, what the calls on the stack
have encoded and the pieces of the file in progress, and with each blob what it
mentions, has the whole table in it. It quantifies over all sets instead of
using `Reachable`, because each step takes digests out of one of these places and
puts the digest of a blob that mentions them into another, and so leaves the
same closed sets. When nothing is under way, `Reachable` of the roots is such a
set (`ReachedStaysInside`: the rows are finitely many, so the rounds of
`Reachable` are enough). TLC checks OrphanInv with S restricted to subsets of
the table. A byte must be told apart from a digest here, which the abstraction
of symbols needs and the code has by its layout.

RankInv is for Dogbox. A root has only finitely many paths, none longer than
PathsOf looks, although links may lead back up: an import that came to an end has met no
cycle, for a cycle leads to a path with too many links. The directories of a
tree that an import is through with have ranks that fall along every entry, below
their number; a directory gets its rank when its blob is stored (`RankedNext`).

**The adaptor.** AdaptorInv says that each open file of the kernel has a slot of
its own, with the digest and the size of the file at its path; that index and
cached piece, if any, are those of that file; and that a read has copied exactly
what is between its offset and its cursor. The properties of the run look at the table
and the kernel one at a time; none of them says which file a slot, an index
and a half-done read belong to together, so that NeverThrows and ServesSource
could not be concluded from them. `NextBytes` is the step of `read_file`: what it takes from a piece or from the tail is what comes
next in the file. NeverThrows follows since every digest the handlers load is
that of a directory or a file of the tree (`LookedUp`, `PiecesLoaded`). For
ServesSource each step that answers is mapped to the operation of ReadOnlyFs,
and the iterations of `read_file` before the last one to none.

**The parts together.** DogboxInv has the invariants of the two parts side by side.
StackInv, PathInv and RankInv hold of the imports, whatever the adaptor does, since it
only reads (`OnlyReads`). AdaptorInv holds from the mount on, until SQLite
fails, whatever the imports do, since rows are only added
(`InvSurvivesGrowth`). The mount is where they meet: `RootsAreLaid` turns the
pairs of `Same` into what each path of a tree leads to on the disk and in the
blobs, with every entry of a blob leading to a path and every path but the first
led to by one; `LaidIsTree` and `LaidIsHeld` conclude from it that the adaptor finds
what it needs. This is `RootsAreMountable`: ImportedAssumption of FuseAdaptor is
not assumed in Dogbox but proved of every root ever returned.
OnlyDatabaseThrows and ServesImported follow, and the lemmas about the handlers
are used as they are. The two proof modules are instances (IP and AP) in DogboxProofs; the lemmas
named Same... and ...Steps say that their definitions are those of Dogbox.

**The in-memory frontend.** MemInv has three parts. `TreeOK` and `ScanOK` are about
the scan: what is found was there during the scan (the file that is being read
was measured then), everything that is found has directories above it, and, as
long as the disk has not changed, whatever is on it is found or covered by a
path that is still to be scanned; when nothing is left, everything is found.
`ThreadsOK`, `RequestOK` and `HandlesOK` are about references without the
mutex: a thread that has left `require_tree` has the present generation, and
what the kernel asks for leads through directories it was told of. `MutexOK`
says that there is one scan, so the generation changes only when nobody has a
reference. ServesOneTree maps `FinishScan` to `Mount`, each answer to the
operation it answers, an open for writing to `Refuse`, and all else to nothing;
the listing of a directory, which the code makes from a `std::map`, names each
child once (`ListingNamed`).

**The blob table.** NoLossySizes is assumed: no content is in the window between
the two limits; the run blob_store_lossy shows that this is needed. RowsDecodable
is inductive because it also says that what a client is about to insert is short
enough for an int, hence for LZ4. For ImplementsStore, `LookUp` of a new content
is invisible, `Insert` is the `Store` of ContentStore, and an `Insert` that
meets the primary key its `Refuse`.

**The encodings.** CursorInBlob holds by a stronger invariant: what was read so far
encodes to the bytes in front of the cursor (ReadInv). AcceptsOnlyEncodings is
the same fact seen from the other side. SourceInv adds, for a directory that
was encoded, that what was read is a beginning of it; then the bytes in front of
the cursor are the encoding of these entries, so the cursor is at the first byte
of the next one, and decoding it cannot throw (`AtNextEntry`,
`EncodedEntryIsDecoded`). Big-endian integers are decoded to what was encoded,
and what was decoded is encoded to the same bytes (`IntegersAreDecoded`,
`IntegersAreEncodedAgain`), by powers of the base and division by one digit
after the other. For texts, a byte is the two digits it is printed as.

**The life cycle.** OwnerInv adds that `owner` tells what exists: the handle from
`fuse_new` to `fuse_destroy`, no mount from the removal of the old one to
`fuse_mount` and again from the destructor of the channel on, that the second
thread is there while the adaptor is used, and that only a fault leads to
`failed` or to destructors without that thread.

**Assumptions**, each in the module that declares the constant, and each
evaluated by TLC for the runs:

* PieceLengthAssumption, ContentsAssumption, ConcurrenciesAssumption,
  BlobAssumption, BoundsAssumption: pieces are not empty, files consist of
  bytes, limits and numbers of threads are numbers.
* TreesAssumption: a tree has finitely many directories, and an entry that is a
  directory is one of them. BytesAssumption: a byte is neither a digest nor an
  entry, which only NoOrphans needs. DisksAssumption: the input directory is one, and
  whatever is on disk is in a directory. The operating system sees to both.
* KernelAssumption: the kernel asks for paths (sequences of names) and numbers of
  bytes, and has finitely many files open. NamesAssumption: the names of a
  `std::map` have an order.
* ImportedAssumption: the adaptor is mounted on a table with all blobs of a tree,
  each name of a directory once. That is what an import leaves behind, by
  RootsAreMountable, and Dogbox does without it.
* PartsAssumption: the assumptions of TreeImport and FuseAdaptor, for Dogbox.
* WidthsAssumption, BlobsAssumption, DirectoriesAssumption: there are two bytes to
  tell the types apart and one more for the end of a name; a blob consists of
  bytes; and the entries that are encoded have no zero in their names (they come
  from a file system), a size that is a `length_type`, and 0 for a directory.
* DigestsAssumption, TextsAssumption: digests consist of unsigned chars and texts
  of characters.

**How recursion is treated.** The provers can use neither the induction theorems of the library nor RECURSIVE
operators, so everything recursive that is proved about is a recursive function on an
interval (`Power`, `DecodeInteger`, the walks along a path). That such a function
exists, and that two agree, is proved from a smallest counterexample
(`LeastNumber`, `RecursionExists` of DogboxLemmas).

**Only model-checked**: what is about liveness (Termination, ImportEnds,
ReadsReturn, DestructionEnds, RequestsEnd), which is out of reach of the prover.
Every other property of a passing run is a theorem.

## Plan

Models: a mount, an exit and another mount in Dogbox, on the life cycle of
AdaptorLifecycle; the link counts and modes of `stat`, which nothing depends on.

## Not modelled

SQLite, LZ4, OpenSSL and libfuse inside; file modes and link counts; the `offset`
of readdir (which the code ignores); writing to the file system (there is
none); `decode_piece` and `finish_decoding` byte by byte; the helpers that make
random files for tests and benchmarks, on which nothing depends; tests, benchmarks and build files.

--------------------------- MODULE ParallelImport ---------------------------
(***************************************************************************)
(* from_filesystem_regular_file and parallel_for (trees/import.cpp): one   *)
(* regular file is imported by several threads, while another process may  *)
(* be writing the file.                                                    *)
(*                                                                         *)
(* The calling thread takes part in the loop as the thread with the last   *)
(* number.  Its control outside of the loop is the variable main; pc is    *)
(* the control of every thread inside of it.                               *)
(***************************************************************************)
EXTENDS RegularFile, FiniteSets

CONSTANTS
  Contents,       \* what the file may contain
  Concurrencies,  \* what hardware_concurrency() may return; 0 if unknown
  MaxWrites       \* bound: how often another process rewrites the file

ASSUME ContentsAssumption == Contents \subseteq Seq(Byte)
ASSUME ConcurrenciesAssumption == Concurrencies \subseteq Nat

VARIABLES
  file,           \* what the file contains
  versions,       \* history: what it has contained since it was opened
  writes,         \* how often it was rewritten
  table,          \* the blob table
  main,           \* where the calling thread is
  size,           \* result of lseek64(SEEK_END)
  hash_codes,     \* the vector of digests, indexed by piece
  threads,        \* actual_parallelism: threads in the loop, the caller included
  launched,       \* how many workers std::async has started
  pc,             \* where each thread of the loop is
  k,              \* the piece each thread is at
  piece_buffer,   \* the piece each thread has read
  database_mutex, \* the threads holding the mutex
  result          \* digests and sizes returned: empty or one element

environment == <<file, versions, writes>>
locals == <<main, size, threads, launched>>
loop == <<hash_codes, pc, k, piece_buffer, database_mutex>>
vars == <<environment, table, locals, loop, result>>

\* Thread numbers that may occur.  Without parallelism there is thread 0.
Thread == {0} \cup UNION {0 .. c - 1 : c \in Concurrencies}

MainThread == threads - 1

Pieces == NumberOfPieces(size)

\* Threads that have been started and have not returned or thrown.
Working == {t \in Thread : pc[t] \in {"read", "store", "insert", "record"}}

Init ==
  /\ file \in Contents
  /\ versions = {}
  /\ writes = 0
  /\ table = EmptyTable
  /\ main = "open"
  /\ size = 0
  /\ hash_codes = [i \in {} |-> ZeroDigest]
  /\ threads = 1
  /\ launched = 0
  /\ pc = [t \in Thread |-> "idle"]
  /\ k = [t \in Thread |-> 0]
  /\ piece_buffer = [t \in Thread |-> <<>>]
  /\ database_mutex = {}
  /\ result = {}

-----------------------------------------------------------------------------
(* The calling thread, before the loop. *)

Minimum(a, b) == IF a <= b THEN a ELSE b

\* The max_paralellism argument of parallel_for.
MaxParallelism(pieces, concurrency) ==
  IF pieces >= concurrency * 2 THEN concurrency ELSE 1

\* The vector of digests before the loop; and the defect of one element too
\* many.
VectorOneTooLong(pieces) == [i \in 0 .. pieces |-> ZeroDigest]
EmptyVector(pieces) == [i \in 0 .. pieces - 1 |-> ZeroDigest]

\* The file is opened and measured, and parallel_for decides how many threads
\* take part; its assertion comes before its early return.
Open(concurrency) ==
  LET pieces == NumberOfPieces(Len(file))
      parallelism == MaxParallelism(pieces, concurrency)
  IN
  /\ main = "open"
  /\ size' = Len(file)
  /\ versions' = {file}
  /\ hash_codes' = EmptyVector(pieces)
  /\ IF parallelism < 1
     THEN main' = "aborted" /\ UNCHANGED <<threads, k>>
     ELSE IF pieces = 0
     THEN main' = "encode" /\ UNCHANGED <<threads, k>>
     ELSE /\ main' = "spawn"
          /\ threads' = Minimum(parallelism, pieces)
          /\ k' = [t \in Thread |-> t]
  /\ UNCHANGED <<file, writes, table, launched, pc, piece_buffer, database_mutex, result>>

\* parallelism::none counts as one hardware thread.
OpenFile == \E concurrency \in Concurrencies \cup {1} : Open(concurrency)

\* The file cannot be opened or measured.
OpenFails ==
  /\ main = "open"
  /\ main' = "failed"
  /\ UNCHANGED <<environment, table, size, threads, launched, loop, result>>

\* std::async starts the next worker, and after the last one the calling
\* thread enters the loop itself.
Launch ==
  /\ main = "spawn"
  /\ pc' = [pc EXCEPT ![launched] = "read"]
  /\ IF launched = MainThread
     THEN main' = "loop" /\ UNCHANGED launched
     ELSE launched' = launched + 1 /\ UNCHANGED main
  /\ UNCHANGED <<environment, table, size, threads, hash_codes, k, piece_buffer,
                 database_mutex, result>>

\* std::async cannot start a thread.
LaunchFails ==
  /\ main = "spawn"
  /\ launched < MainThread
  /\ main' = "unwind"
  /\ UNCHANGED <<environment, table, size, threads, launched, loop, result>>

-----------------------------------------------------------------------------
(* One round of the loop, in any thread. *)

\* The next piece is read.  A file that has become too short makes the thread
\* throw.
ReadPiece(t) ==
  /\ pc[t] = "read"
  /\ k[t] < Pieces
  /\ IF CanReadAt(file, k[t] * PieceLength, PieceLength)
     THEN /\ pc' = [pc EXCEPT ![t] = "store"]
          /\ piece_buffer' = [piece_buffer EXCEPT
               ![t] = ReadAt(file, k[t] * PieceLength, PieceLength)]
     ELSE /\ pc' = [pc EXCEPT ![t] = "threw"]
          /\ UNCHANGED piece_buffer
  /\ UNCHANGED <<environment, table, locals, hash_codes, k, database_mutex, result>>

\* The scoped_lock can be taken; and the defect that there is none.
NoLock == TRUE
CanLock == database_mutex = {}

\* store_blob, up to its SELECT, with the mutex taken.  A digest that is
\* already stored is returned at once and the mutex released.
CheckBlob(t) ==
  /\ pc[t] = "store"
  /\ CanLock
  /\ IF Stored(table, Sha256(piece_buffer[t]))
     THEN pc' = [pc EXCEPT ![t] = "record"] /\ UNCHANGED database_mutex
     ELSE pc' = [pc EXCEPT ![t] = "insert"] /\ database_mutex' = {t}
  /\ UNCHANGED <<environment, table, locals, hash_codes, k, piece_buffer, result>>

\* The INSERT of store_blob.  The primary key rejects a digest that is stored
\* by now, and the thread throws.  Either way the mutex is released.
InsertBlob(t) ==
  /\ pc[t] = "insert"
  /\ IF Stored(table, Sha256(piece_buffer[t]))
     THEN pc' = [pc EXCEPT ![t] = "threw"] /\ UNCHANGED table
     ELSE /\ pc' = [pc EXCEPT ![t] = "record"]
          /\ table' = InsertRow(table, piece_buffer[t])
  /\ database_mutex' = database_mutex \ {t}
  /\ UNCHANGED <<environment, locals, hash_codes, k, piece_buffer, result>>

\* SQLite fails in the SELECT or in the INSERT, for example when the disk is
\* full.  The thread throws, and the scoped lock releases the mutex.
StoreFails(t) ==
  /\ \/ pc[t] = "store" /\ CanLock
     \/ pc[t] = "insert"
  /\ pc' = [pc EXCEPT ![t] = "threw"]
  /\ database_mutex' = database_mutex \ {t}
  /\ UNCHANGED <<environment, table, locals, hash_codes, k, piece_buffer, result>>

\* Defects of the loop: the stride is the number of workers, without the
\* caller; the counter is not advanced.
RecordHashStrideOfWorkers(t) ==
  /\ pc[t] = "record"
  /\ hash_codes' = [hash_codes EXCEPT ![k[t]] = Sha256(piece_buffer[t])]
  /\ k' = [k EXCEPT ![t] = @ + threads - 1]
  /\ pc' = [pc EXCEPT ![t] = "read"]
  /\ UNCHANGED <<environment, table, locals, piece_buffer, database_mutex, result>>

RecordHashWithoutAdvance(t) ==
  /\ pc[t] = "record"
  /\ hash_codes' = [hash_codes EXCEPT ![k[t]] = Sha256(piece_buffer[t])]
  /\ pc' = [pc EXCEPT ![t] = "read"]
  /\ UNCHANGED <<environment, table, locals, k, piece_buffer, database_mutex, result>>

\* The digest is recorded and the thread goes on to its next piece.
RecordHash(t) ==
  /\ pc[t] = "record"
  /\ hash_codes' = [hash_codes EXCEPT ![k[t]] = Sha256(piece_buffer[t])]
  /\ k' = [k EXCEPT ![t] = @ + threads]
  /\ pc' = [pc EXCEPT ![t] = "read"]
  /\ UNCHANGED <<environment, table, locals, piece_buffer, database_mutex, result>>

LeaveLoop(t) ==
  /\ pc[t] = "read"
  /\ k[t] >= Pieces
  /\ pc' = [pc EXCEPT ![t] = "returned"]
  /\ UNCHANGED <<environment, table, locals, hash_codes, k, piece_buffer,
                 database_mutex, result>>

LoopStep(t) ==
  \/ ReadPiece(t)
  \/ CheckBlob(t)
  \/ InsertBlob(t)
  \/ StoreFails(t)
  \/ RecordHash(t)
  \/ LeaveLoop(t)

-----------------------------------------------------------------------------
(* The calling thread, after its own share of the loop. *)

Worker == 0 .. launched - 1

\* An exception leaves parallel_for when the caller's own round threw, or
\* when get() has returned for some workers and rethrows for the next one.
MustUnwind ==
  \/ main = "loop" /\ pc[MainThread] = "threw"
  \/ /\ main = "join"
     /\ \E w \in Worker : /\ pc[w] = "threw"
                          /\ \A v \in 0 .. w - 1 : pc[v] = "returned"

Unwind ==
  /\ MustUnwind
  /\ main' = "unwind"
  /\ UNCHANGED <<environment, table, size, threads, launched, loop, result>>

StartJoin ==
  /\ main = "loop"
  /\ pc[MainThread] = "returned"
  /\ main' = "join"
  /\ UNCHANGED <<environment, table, size, threads, launched, loop, result>>

\* Defects of the join: get() is not called, so that nobody waits for the
\* workers; or they are waited for, and their exceptions are dropped.
JoinWithoutGet ==
  /\ main = "join"
  /\ main' = "encode"
  /\ UNCHANGED <<environment, table, size, threads, launched, loop, result>>

JoinDropsExceptions ==
  /\ main = "join"
  /\ \A w \in Worker : pc[w] \in {"returned", "threw"}
  /\ main' = "encode"
  /\ UNCHANGED <<environment, table, size, threads, launched, loop, result>>

\* get() has returned for every worker.
Join ==
  /\ main = "join"
  /\ \A w \in Worker : pc[w] = "returned"
  /\ main' = "encode"
  /\ UNCHANGED <<environment, table, size, threads, launched, loop, result>>

\* The defect of threads that are detached.
EndUnwindDetached ==
  /\ main = "unwind"
  /\ main' = "failed"
  /\ UNCHANGED <<environment, table, size, threads, launched, loop, result>>

\* The destructor of a future of std::async waits for its thread, so that the
\* exception leaves parallel_for only after the last worker has ended.
EndUnwind ==
  /\ main = "unwind"
  /\ \A w \in Worker : pc[w] \in {"returned", "threw"}
  /\ main' = "failed"
  /\ UNCHANGED <<environment, table, size, threads, launched, loop, result>>

\* The digests and what is left of the file are encoded and stored.
StoreIndex ==
  /\ main = "encode"
  /\ IF CanReadAt(file, Pieces * PieceLength, RemainingSize(size))
     THEN LET tail == ReadAt(file, Pieces * PieceLength, RemainingSize(size))
              encoded == EncodeFile(hash_codes, Pieces, tail)
          IN  /\ table' = StoreBlob(table, encoded)
              /\ result' = {[hash_code |-> Sha256(encoded), content_size |-> size]}
              /\ main' = "done"
     ELSE main' = "failed" /\ UNCHANGED <<table, result>>
  /\ UNCHANGED <<environment, size, threads, launched, loop>>

StoreIndexFails ==
  /\ main = "encode"
  /\ main' = "failed"
  /\ UNCHANGED <<environment, table, size, threads, launched, loop, result>>

MainStep ==
  \/ OpenFile \/ OpenFails
  \/ Launch \/ LaunchFails
  \/ StartJoin \/ Join \/ StoreIndex \/ StoreIndexFails
  \/ Unwind \/ EndUnwind

\* Another process replaces what the file contains.
WriteFile ==
  /\ writes < MaxWrites
  /\ main \notin {"done", "failed", "aborted"}
  /\ writes' = writes + 1
  /\ file' \in Contents \ {file}
  /\ versions' = IF main = "open" THEN {} ELSE versions \cup {file'}
  /\ UNCHANGED <<table, locals, loop, result>>

\* The import is over and the process goes on with something else.
Finished ==
  /\ main \in {"done", "failed", "aborted"}
  /\ UNCHANGED vars

Next ==
  \/ MainStep
  \/ \E t \in Thread : LoopStep(t)
  \/ WriteFile
  \/ Finished

Spec == Init /\ [][Next]_vars

\* Threads that can run are scheduled, and a mutex that is free is acquired.
FairSpec == Spec /\ WF_vars(MainStep) /\ \A t \in Thread : WF_vars(LoopStep(t))

-----------------------------------------------------------------------------
IsPieceDigest(hash_code) ==
  hash_code = Sha256(hash_code.of) /\ hash_code.of \in Seq(Byte)

\* The types of the variables.  The vector of digests has one element per
\* full piece of the size that was measured (import.cpp:117 and 130).
TypeOK ==
  /\ file \in Contents
  /\ versions \subseteq Contents
  /\ writes \in Nat
  /\ main \in {"open", "spawn", "loop", "join", "unwind", "encode", "done",
               "failed", "aborted"}
  /\ size \in Nat
  /\ DOMAIN hash_codes = 0 .. Pieces - 1
  /\ \A i \in DOMAIN hash_codes :
       hash_codes[i] = ZeroDigest \/ IsPieceDigest(hash_codes[i])
  /\ threads \in Nat \ {0}
  /\ launched \in Nat
  /\ pc \in [Thread -> {"idle", "read", "store", "insert", "record",
                        "returned", "threw"}]
  /\ k \in [Thread -> Nat]
  /\ piece_buffer \in [Thread -> Seq(Byte)]
  /\ database_mutex \subseteq Thread

\* The elements of the vector are written without a lock.  That is no data
\* race: a thread at work on a piece is alone with it, and nobody has been
\* there before (import.cpp:85, 91 and 141).
PieceOwnership ==
  \A t \in Working : k[t] < Pieces =>
    /\ hash_codes[k[t]] = ZeroDigest
    /\ \A u \in Working : k[u] = k[t] => u = t

\* Two threads that hold equal pieces do not both insert them: whoever is
\* about to insert a row, it does not exist, and the primary key never makes
\* an import fail (import.cpp:138, blob_storage.cpp:67 and 92).
NoConstraintViolation ==
  \A t \in Thread : pc[t] = "insert" => ~ Stored(table, Sha256(piece_buffer[t]))

\* The workers use the vector, the mutex and the file of the caller's frame.
\* However the loop ends, no worker is left when that frame goes on or goes
\* away (import.cpp:81 to 98 and 129 to 147).
NoWorkerOutlivesLoop ==
  main \in {"open", "encode", "done", "failed"} => Working = {}

\* Encoding starts only when every piece has been recorded and is stored; an
\* exception of any thread is never lost (import.cpp:95 to 98).
EncodeOnlyWhenComplete ==
  main \in {"encode", "done"} =>
    /\ \A t \in Thread : pc[t] # "threw"
    /\ \A i \in 0 .. Pieces - 1 : Stored(table, hash_codes[i])

\* What a successful import returns can be read back, and it is the file:
\* as many bytes as were measured, and each piece as it was at some moment of
\* the import.  A file that nobody wrote to is thus read back unchanged.
ImportFaithful ==
  \A imported \in result :
    LET index == LoadIndex(table, imported.content_size, imported.hash_code)
        SameBytes(piece, version) ==
          \A i \in 0 .. imported.content_size - 1 :
            i \div PieceLength = piece =>
              i < Len(version) /\ IndexedByte(table, index, i) = version[i + 1]
    IN  /\ imported.content_size = size
        /\ CanLoadIndex(table, imported.content_size, imported.hash_code)
        /\ \A i \in DOMAIN index.pieces : Stored(table, index.pieces[i])
        /\ \A piece \in 0 .. Pieces :
             \E version \in versions : SameBytes(piece, version)

\* Readers of the table can rely on ClosedStore at every moment: an index is
\* stored after all of its pieces.
Store == INSTANCE ClosedStore
StoreSpec == Store!Spec

\* Every import comes to an end, whatever fails in it.
Termination == <>(main \in {"done", "failed", "aborted"})

\* The assertion at import.cpp:73.
AssertionHolds == main # "aborted"
=============================================================================

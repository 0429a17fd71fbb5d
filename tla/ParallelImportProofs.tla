------------------------ MODULE ParallelImportProofs ------------------------
(***************************************************************************)
(* Theorems about ParallelImport, for any file contents, any number of     *)
(* hardware threads, any length of the pieces, and any number of rewrites. *)
(***************************************************************************)
EXTENDS ParallelImport, DogboxLemmas

-----------------------------------------------------------------------------
(* Lemmas about the operators. *)

LEMMA ThreadsAreNumbers == Thread \subseteq Nat
  BY ConcurrenciesAssumption DEF Thread

LEMMA ContentType ==
  ASSUME NEW content \in Contents
  PROVE  content \in Seq(Byte) /\ Len(content) \in Nat
  BY ContentsAssumption

\* read_at returns bytes of the file when it does not throw.
LEMMA ReadAtType ==
  ASSUME NEW content \in Seq(Byte), NEW offset \in Nat, NEW count \in Nat,
         CanReadAt(content, offset, count)
  PROVE  ReadAt(content, offset, count) \in Seq(Byte)
  BY DEF CanReadAt, ReadAt

\* import.cpp:132 and 78: at least one thread takes part once there is a piece
\* and the assertion has not failed.
LEMMA ThreadsOfLoop ==
  ASSUME NEW pieces \in Nat \ {0}, NEW concurrency \in Nat,
         ~ MaxParallelism(pieces, concurrency) < 1
  PROVE  Minimum(MaxParallelism(pieces, concurrency), pieces) \in Nat \ {0}
  BY DEF MaxParallelism, Minimum

-----------------------------------------------------------------------------
(* Type correctness. *)

LEMMA InitTyped == Init => TypeOK
  <1> SUFFICES ASSUME Init PROVE TypeOK
    OBVIOUS
  <1>1. Pieces = 0
    BY PieceLengthAssumption DEF Init, Pieces, NumberOfPieces
  <1> QED
    BY <1>1 DEF Init, TypeOK

\* Opening a file measures it and makes the vector.
LEMMA OpenTyped ==
  ASSUME TypeOK, NEW concurrency \in Concurrencies \cup {1}, Open(concurrency)
  PROVE  TypeOK'
  <1> DEFINE pieces == NumberOfPieces(Len(file))
  <1>1. /\ file \in Contents
        /\ Len(file) \in Nat
        /\ pieces \in Nat
    BY ContentType, PiecesOfSize DEF TypeOK
  <1>2. concurrency \in Nat
    BY ConcurrenciesAssumption
  <1>3. /\ size' \in Nat
        /\ Pieces' = pieces
        /\ hash_codes' = [i \in 0 .. pieces - 1 |-> ZeroDigest]
    BY <1>1 DEF Open, Pieces, EmptyVector
  <1>4. threads' \in Nat \ {0}
    <2>1. CASE pieces = 0 \/ MaxParallelism(pieces, concurrency) < 1
      BY <2>1, <1>1 DEF Open, TypeOK
    <2>2. CASE ~ (pieces = 0 \/ MaxParallelism(pieces, concurrency) < 1)
      <3>1. threads' = Minimum(MaxParallelism(pieces, concurrency), pieces)
        BY <2>2 DEF Open
      <3> QED
        BY <3>1, <2>2, <1>1, <1>2, ThreadsOfLoop
    <2> QED
      BY <2>1, <2>2
  <1>5. k' \in [Thread -> Nat]
    <2>1. k' = k \/ k' = [t \in Thread |-> t]
      BY DEF Open
    <2> QED
      BY <2>1, ThreadsAreNumbers DEF TypeOK
  <1>6. main' \in {"aborted", "encode", "spawn"}
    BY DEF Open
  <1>7. versions' \subseteq Contents
    BY <1>1 DEF Open
  <1> QED
    BY <1>3, <1>4, <1>5, <1>6, <1>7 DEF Open, TypeOK

\* A round of the loop reads bytes and records digests of bytes.
LEMMA LoopTyped ==
  ASSUME TypeOK, NEW t \in Thread, LoopStep(t)
  PROVE  TypeOK'
  <1>1. CASE ReadPiece(t)
    <2>1. /\ file \in Seq(Byte)
          /\ k[t] * PieceLength \in Nat
      BY ContentType, PieceLengthAssumption DEF TypeOK
    <2>2. piece_buffer' \in [Thread -> Seq(Byte)]
      <3>1. CASE CanReadAt(file, k[t] * PieceLength, PieceLength)
        <4>1. ReadAt(file, k[t] * PieceLength, PieceLength) \in Seq(Byte)
          BY <2>1, <3>1, ReadAtType, PieceLengthAssumption
        <4>2. piece_buffer' = [piece_buffer EXCEPT
                ![t] = ReadAt(file, k[t] * PieceLength, PieceLength)]
          BY <1>1, <3>1 DEF ReadPiece
        <4> QED
          BY <4>1, <4>2 DEF TypeOK
      <3>2. CASE ~ CanReadAt(file, k[t] * PieceLength, PieceLength)
        BY <1>1, <3>2 DEF ReadPiece, TypeOK
      <3> QED
        BY <3>1, <3>2
    <2>3. pc' = [pc EXCEPT ![t] = "store"] \/ pc' = [pc EXCEPT ![t] = "threw"]
      BY <1>1 DEF ReadPiece
    <2>4. UNCHANGED <<environment, table, locals, hash_codes, k, database_mutex, result>>
      BY <1>1 DEF ReadPiece
    <2> QED
      BY <2>2, <2>3, <2>4 DEF TypeOK, environment, locals, Pieces
  <1>2. CASE CheckBlob(t)
    <2>1. /\ UNCHANGED <<environment, table, locals, hash_codes, k, piece_buffer, result>>
          /\ pc' \in {[pc EXCEPT ![t] = "record"], [pc EXCEPT ![t] = "insert"]}
          /\ database_mutex' \in {database_mutex, {t}}
      BY <1>2 DEF CheckBlob
    <2> QED
      BY <2>1 DEF TypeOK, environment, locals, Pieces
  <1>3. CASE InsertBlob(t)
    <2>1. /\ UNCHANGED <<environment, locals, hash_codes, k, piece_buffer, result>>
          /\ pc' \in {[pc EXCEPT ![t] = "threw"], [pc EXCEPT ![t] = "record"]}
          /\ database_mutex' = database_mutex \ {t}
      BY <1>3 DEF InsertBlob
    <2> QED
      BY <2>1 DEF TypeOK, environment, locals, Pieces
  <1>4. CASE StoreFails(t)
    BY <1>4 DEF StoreFails, TypeOK, environment, locals, Pieces
  <1>5. CASE RecordHash(t)
    <2> DEFINE d == Sha256(piece_buffer[t])
    <2>1. UNCHANGED <<environment, table, locals, piece_buffer, database_mutex, result>>
      BY <1>5 DEF RecordHash
    <2>2. k' \in [Thread -> Nat] /\ pc' = [pc EXCEPT ![t] = "read"]
      BY <1>5 DEF RecordHash, TypeOK
    <2>3. IsPieceDigest(d)
      BY DEF IsPieceDigest, Sha256, TypeOK
    <2>4. hash_codes' = [hash_codes EXCEPT ![k[t]] = d]
      BY <1>5 DEF RecordHash
    <2>5. /\ DOMAIN hash_codes' = DOMAIN hash_codes
          /\ \A i \in DOMAIN hash_codes :
               hash_codes'[i] = d \/ hash_codes'[i] = hash_codes[i]
      BY <2>4
    <2>6. \A i \in DOMAIN hash_codes' :
            hash_codes'[i] = ZeroDigest \/ IsPieceDigest(hash_codes'[i])
      BY <2>3, <2>5 DEF TypeOK
    <2> QED
      BY <2>1, <2>2, <2>5, <2>6 DEF TypeOK, environment, locals, Pieces, IsPieceDigest
  <1>6. CASE LeaveLoop(t)
    BY <1>6 DEF LeaveLoop, TypeOK, environment, locals, Pieces
  <1> QED
    BY <1>1, <1>2, <1>3, <1>4, <1>5, <1>6 DEF LoopStep

\* The other steps of the calling thread move its control only.
LEMMA MainTyped ==
  ASSUME TypeOK, MainStep
  PROVE  TypeOK'
  <1>1. CASE OpenFile
    BY <1>1, OpenTyped DEF OpenFile
  <1>2. CASE Launch
    <2>1. /\ UNCHANGED <<environment, table, size, threads, hash_codes, k, piece_buffer,
                         database_mutex, result>>
          /\ pc' = [pc EXCEPT ![launched] = "read"]
          /\ launched' \in {launched, launched + 1}
          /\ main' \in {main, "loop"}
      BY <1>2 DEF Launch
    <2>2. pc' \in [Thread -> {"idle", "read", "store", "insert", "record",
                              "returned", "threw"}]
      BY <2>1 DEF TypeOK
    <2> QED
      BY <2>1, <2>2 DEF TypeOK, environment, Pieces
  <1>3. CASE StoreIndex
    <2>1. /\ UNCHANGED <<environment, size, threads, launched, loop>>
          /\ main' \in {"done", "failed"}
      BY <1>3 DEF StoreIndex
    <2> QED
      BY <2>1 DEF TypeOK, environment, loop, Pieces
  <1>4. CASE OpenFails \/ LaunchFails \/ StartJoin \/ Join \/ StoreIndexFails
               \/ Unwind \/ EndUnwind
    <2>1. /\ UNCHANGED <<environment, table, size, threads, launched, loop, result>>
          /\ main' \in {"failed", "unwind", "join", "encode"}
      BY <1>4 DEF OpenFails, LaunchFails, StartJoin, Join, StoreIndexFails, Unwind, EndUnwind
    <2> QED
      BY <2>1 DEF TypeOK, environment, loop, Pieces
  <1> QED
    BY <1>1, <1>2, <1>3, <1>4 DEF MainStep

LEMMA StepTyped == TypeOK /\ [Next]_vars => TypeOK'
  <1> SUFFICES ASSUME TypeOK, [Next]_vars PROVE TypeOK'
    OBVIOUS
  <1>1. CASE MainStep
    BY <1>1, MainTyped
  <1>2. CASE \E t \in Thread : LoopStep(t)
    BY <1>2, LoopTyped
  <1>3. CASE WriteFile
    <2>1. versions' \subseteq Contents /\ file' \in Contents
      BY <1>3 DEF WriteFile, TypeOK
    <2> QED
      BY <1>3, <2>1 DEF WriteFile, TypeOK, locals, loop, Pieces
  <1>4. CASE UNCHANGED vars
    BY <1>4 DEF TypeOK, vars, environment, locals, loop, Pieces
  <1> QED
    BY <1>1, <1>2, <1>3, <1>4 DEF Next, Finished

\* The variables keep their types; the vector of digests always has one
\* element per full piece of the size that was measured (import.cpp:130).
THEOREM TypeCorrect == Spec => []TypeOK
  BY InitTyped, StepTyped, PTL DEF Spec
-----------------------------------------------------------------------------
(***************************************************************************)
(* Who may be at work.  NoWorkerOutlivesLoop is not inductive: it has to   *)
(* be known which threads have been started while the calling thread is in *)
(* the loop, joins or unwinds.                                             *)
(***************************************************************************)

\* The threads from n on are not at work.
NoneFrom(n) == \A t \in Thread : t >= n => t \notin Working

ControlInv ==
  /\ main \in {"open", "encode", "done", "failed", "aborted"} => NoneFrom(0)
  /\ main = "open" => launched = 0
  /\ main = "spawn" => launched <= MainThread /\ NoneFrom(launched)
  /\ main = "loop" => launched = MainThread /\ NoneFrom(threads)
  /\ main \in {"join", "unwind"} => NoneFrom(launched)

LEMMA NobodyWorks == NoneFrom(0) <=> Working = {}
  <1>1. \A t \in Thread : t >= 0
    BY ThreadsAreNumbers
  <1>2. Working \subseteq Thread
    BY DEF Working
  <1> QED
    BY <1>1, <1>2 DEF NoneFrom

LEMMA InitControl == Init => ControlInv
  BY DEF Init, ControlInv, NoneFrom, Working

\* A round of the loop ends threads but starts none.
LEMMA LoopControl ==
  ASSUME TypeOK, ControlInv, NEW t \in Thread, LoopStep(t)
  PROVE  ControlInv'
  <1>1. /\ t \in Working
        /\ UNCHANGED <<main, size, threads, launched>>
        /\ \E place \in {"read", "store", "insert", "record", "returned", "threw"} :
             pc' = [pc EXCEPT ![t] = place]
    BY DEF LoopStep, ReadPiece, CheckBlob, InsertBlob, StoreFails, RecordHash, LeaveLoop,
           Working, locals
  <1>2. Working' \subseteq Working
    BY <1>1 DEF Working, TypeOK
  <1>3. \A n \in {0, launched, threads} : NoneFrom(n) => NoneFrom(n)'
    BY <1>1, <1>2 DEF NoneFrom
  <1> QED
    BY <1>1, <1>3 DEF ControlInv, MainThread, NoneFrom

LEMMA MainControl ==
  ASSUME TypeOK, ControlInv, MainStep
  PROVE  ControlInv'
  <1> USE ThreadsAreNumbers
  <1>1. CASE OpenFile
    <2>1. PICK concurrency \in Concurrencies \cup {1} : Open(concurrency)
      BY <1>1 DEF OpenFile
    <2>2. /\ main = "open" /\ launched' = 0 /\ Working' = Working
          /\ NoneFrom(0) /\ NoneFrom(0)'
      BY <2>1 DEF Open, ControlInv, Working, NoneFrom
    <2>3. CASE main' = "spawn"
      <3>1. MainThread' >= 0
        BY <2>1, OpenTyped DEF MainThread, TypeOK
      <3> QED
        BY <2>2, <2>3, <3>1 DEF ControlInv
    <2>4. CASE main' \in {"aborted", "encode"}
      BY <2>2, <2>4 DEF ControlInv
    <2> QED
      BY <2>1, <2>3, <2>4 DEF Open
  <1>2. CASE Launch
    <2>1. /\ main = "spawn" /\ launched <= MainThread /\ NoneFrom(launched)
          /\ threads' = threads
          /\ pc' = [pc EXCEPT ![launched] = "read"]
      BY <1>2 DEF Launch, ControlInv
    <2>2. \A t \in Thread : t >= launched + 1 => t \notin Working'
      <3> SUFFICES ASSUME NEW t \in Thread, t >= launched + 1
                   PROVE  t \notin Working'
        OBVIOUS
      <3>1. t # launched /\ t >= launched /\ t \in Nat /\ launched \in Nat
        BY DEF TypeOK
      <3>2. pc'[t] = pc[t]
        BY <2>1, <3>1 DEF TypeOK
      <3> QED
        BY <2>1, <3>1, <3>2 DEF NoneFrom, Working
    <2>3. CASE launched = MainThread
      <3>1. main' = "loop" /\ launched' = launched /\ launched + 1 = threads
        BY <1>2, <2>3 DEF Launch, MainThread, TypeOK
      <3> QED
        BY <2>1, <2>2, <2>3, <3>1 DEF ControlInv, MainThread, NoneFrom
    <2>4. CASE launched # MainThread
      <3>1. main' = "spawn" /\ launched' = launched + 1
        BY <1>2, <2>1, <2>4 DEF Launch
      <3>2. launched + 1 <= MainThread
        BY <2>1, <2>4 DEF MainThread, TypeOK
      <3> QED
        BY <2>1, <2>2, <3>1, <3>2 DEF ControlInv, MainThread, NoneFrom
    <2> QED
      BY <2>3, <2>4
  <1>3. CASE OpenFails \/ StoreIndex \/ StoreIndexFails
    <2>1. /\ main \in {"open", "encode"} /\ main' \in {"failed", "done"}
          /\ UNCHANGED pc
      BY <1>3 DEF OpenFails, StoreIndex, StoreIndexFails, loop
    <2> QED
      BY <2>1 DEF ControlInv, NoneFrom, Working
  <1>4. CASE LaunchFails \/ StartJoin \/ Unwind
    <2>1. /\ main \in {"spawn", "loop", "join"} /\ main' \in {"join", "unwind"}
          /\ UNCHANGED <<pc, launched>>
      BY <1>4 DEF LaunchFails, StartJoin, Unwind, MustUnwind, loop
    <2>2. NoneFrom(launched)
      <3>1. CASE main \in {"spawn", "join"}
        BY <3>1 DEF ControlInv
      <3>2. CASE main = "loop"
        <4>1. pc[MainThread] \in {"returned", "threw"}
          BY <1>4, <3>2 DEF LaunchFails, StartJoin, Unwind, MustUnwind
        <4>2. MainThread \notin Working
          BY <4>1 DEF Working
        <4>3. launched = MainThread /\ NoneFrom(threads)
          BY <3>2 DEF ControlInv
        <4> QED
          BY <4>2, <4>3 DEF NoneFrom, MainThread, TypeOK
      <3> QED
        BY <2>1, <3>1, <3>2
    <2> QED
      BY <2>1, <2>2 DEF ControlInv, NoneFrom, Working
  <1>5. CASE Join \/ EndUnwind
    <2>1. /\ main \in {"join", "unwind"} /\ main' \in {"encode", "failed"}
          /\ UNCHANGED pc
          /\ \A w \in Worker : pc[w] \in {"returned", "threw"}
      BY <1>5 DEF Join, EndUnwind, loop
    <2>2. NoneFrom(launched)
      BY <2>1 DEF ControlInv
    <2>3. \A t \in Thread : t < launched => t \notin Working
      BY <2>1 DEF Worker, Working, TypeOK
    <2>4. NoneFrom(0)
      BY <2>2, <2>3 DEF NoneFrom, TypeOK
    <2> QED
      BY <2>1, <2>4 DEF ControlInv, NoneFrom, Working
  <1> QED
    BY <1>1, <1>2, <1>3, <1>4, <1>5 DEF MainStep

LEMMA StepControl == TypeOK /\ ControlInv /\ [Next]_vars => ControlInv'
  <1> SUFFICES ASSUME TypeOK, ControlInv, [Next]_vars PROVE ControlInv'
    OBVIOUS
  <1>1. CASE MainStep
    BY <1>1, MainControl
  <1>2. CASE \E t \in Thread : LoopStep(t)
    BY <1>2, LoopControl
  <1>3. CASE WriteFile \/ Finished \/ UNCHANGED vars
    <2>1. UNCHANGED <<main, threads, launched, pc>>
      BY <1>3 DEF WriteFile, Finished, vars, locals, loop
    <2> QED
      BY <2>1 DEF ControlInv, NoneFrom, Working, MainThread
  <1> QED
    BY <1>1, <1>2, <1>3 DEF Next

\* However the loop ends, no worker is left that could touch the frame of
\* from_filesystem_regular_file (import.cpp:81 to 98 and 129 to 147).
THEOREM WorkersAreJoined == Spec => []NoWorkerOutlivesLoop
  <1>1. ControlInv => NoWorkerOutlivesLoop
    BY NobodyWorks DEF ControlInv, NoWorkerOutlivesLoop
  <1> QED
    BY <1>1, TypeCorrect, InitControl, StepControl, PTL DEF Spec

-----------------------------------------------------------------------------
(***************************************************************************)
(* Who may insert.  The mutex is what keeps a digest absent between the    *)
(* SELECT and the INSERT of a thread, and the calling thread stores the    *)
(* index without the mutex, which is why nobody may be at work then.       *)
(***************************************************************************)

MutexInv ==
  \A t \in Thread : pc[t] = "insert" =>
    /\ database_mutex = {t}
    /\ ~ Stored(table, Sha256(piece_buffer[t]))

LEMMA InitMutex == Init => MutexInv
  BY DEF Init, MutexInv

LEMMA LoopMutex ==
  ASSUME TypeOK, MutexInv, NEW t \in Thread, LoopStep(t)
  PROVE  MutexInv'
  <1> SUFFICES ASSUME NEW u \in Thread, pc'[u] = "insert"
               PROVE  /\ database_mutex' = {u}
                      /\ ~ Stored(table, Sha256(piece_buffer[u]))'
    BY DEF MutexInv
  <1>1. CASE CheckBlob(t)
    <2>1. CASE u = t
      BY <1>1, <2>1 DEF CheckBlob, CanLock, TypeOK
    <2>2. CASE u # t
      BY <1>1, <2>2 DEF CheckBlob, CanLock, MutexInv, TypeOK
    <2> QED
      BY <2>1, <2>2
  <1>2. CASE InsertBlob(t)
    BY <1>2 DEF InsertBlob, MutexInv, TypeOK
  <1>3. CASE ReadPiece(t)
    <2>1. u # t /\ pc[u] = "insert" /\ piece_buffer'[u] = piece_buffer[u]
      BY <1>3 DEF ReadPiece, TypeOK
    <2> QED
      BY <1>3, <2>1 DEF ReadPiece, MutexInv
  <1>4. CASE StoreFails(t)
    BY <1>4 DEF StoreFails, CanLock, MutexInv, TypeOK
  <1>5. CASE RecordHash(t) \/ LeaveLoop(t)
    BY <1>5 DEF RecordHash, LeaveLoop, MutexInv, TypeOK
  <1> QED
    BY <1>1, <1>2, <1>3, <1>4, <1>5 DEF LoopStep

LEMMA StepMutex == TypeOK /\ ControlInv /\ MutexInv /\ [Next]_vars => MutexInv'
  <1> SUFFICES ASSUME TypeOK, ControlInv, MutexInv, [Next]_vars PROVE MutexInv'
    OBVIOUS
  <1>1. CASE \E t \in Thread : LoopStep(t)
    BY <1>1, LoopMutex
  <1>2. CASE OpenFile \/ StoreIndex
    <2>1. /\ main \in {"open", "encode"}
          /\ UNCHANGED pc
      BY <1>2 DEF OpenFile, Open, StoreIndex, loop
    <2>2. \A t \in Thread : pc[t] # "insert"
      BY <2>1, NobodyWorks DEF ControlInv, Working
    <2> QED
      BY <2>1, <2>2 DEF MutexInv
  <1>3. CASE Launch
    <2>1. /\ pc' = [pc EXCEPT ![launched] = "read"]
          /\ UNCHANGED <<table, piece_buffer, database_mutex>>
      BY <1>3 DEF Launch
    <2>2. \A t \in Thread : pc'[t] = "insert" => pc[t] = "insert"
      BY <2>1 DEF TypeOK
    <2> QED
      BY <2>1, <2>2 DEF MutexInv
  <1>4. CASE \/ OpenFails \/ LaunchFails \/ StartJoin \/ Join \/ StoreIndexFails
             \/ Unwind \/ EndUnwind \/ WriteFile \/ Finished \/ UNCHANGED vars
    <2>1. UNCHANGED <<table, pc, piece_buffer, database_mutex>>
      BY <1>4 DEF OpenFails, LaunchFails, StartJoin, Join, StoreIndexFails, Unwind,
                  EndUnwind, WriteFile, Finished, loop, vars
    <2> QED
      BY <2>1 DEF MutexInv
  <1> QED
    BY <1>1, <1>2, <1>3, <1>4 DEF Next, MainStep

\* The primary key never rejects a piece: whoever is about to insert a row, it
\* does not exist (import.cpp:138, blob_storage.cpp:67 and 92).
THEOREM InsertsAreFresh == Spec => []NoConstraintViolation
  <1>1. MutexInv => NoConstraintViolation
    BY DEF MutexInv, NoConstraintViolation
  <1> QED
    BY <1>1, TypeCorrect, InitControl, StepControl, InitTyped, StepTyped, InitMutex, StepMutex,
       PTL DEF Spec

-----------------------------------------------------------------------------
(***************************************************************************)
(* Which thread works on which piece, and what has been recorded for each. *)
(***************************************************************************)

\* The threads of the loop are numbered below `threads`, and each stays on the
\* pieces with its own remainder.
StrideInv ==
  /\ 0 .. threads - 1 \subseteq Thread
  /\ launched <= MainThread
  /\ main = "open" => threads = 1 /\ k[0] = 0 /\ \A t \in Thread : pc[t] = "idle"
  /\ main = "join" => launched = MainThread /\ pc[MainThread] = "returned"
  /\ \A t \in Thread : pc[t] # "idle" => t < threads
  /\ \A t \in 0 .. threads - 1 : k[t] % threads = t

\* A piece has been recorded, and is stored, if its thread is past it, and is
\* untouched if not.
PieceInv ==
  /\ \A i \in 0 .. Pieces - 1 :
       /\ i < k[i % threads] => Stored(table, hash_codes[i])
       /\ i >= k[i % threads] => hash_codes[i] = ZeroDigest
  /\ \A t \in Thread :
       /\ pc[t] = "record" => Stored(table, Sha256(piece_buffer[t]))
       /\ pc[t] = "returned" => k[t] >= Pieces
  /\ main \in {"encode", "done"} =>
       /\ \A t \in Thread : pc[t] # "threw"
       /\ \A i \in 0 .. Pieces - 1 : Stored(table, hash_codes[i])

-----------------------------------------------------------------------------
(* StrideInv is inductive. *)

LEMMA InitStride == Init => StrideInv
  <1> SUFFICES ASSUME Init PROVE StrideInv
    OBVIOUS
  <1>1. threads = 1 /\ 0 .. threads - 1 = {0} /\ 0 \in Thread
    BY DEF Init, Thread
  <1>2. k[0] = 0 /\ k[0] % threads = 0
    BY <1>1, RemainderOfSmall DEF Init
  <1> QED
    BY <1>1, <1>2 DEF Init, StrideInv, MainThread

\* The number of threads that take part is one that may occur.
LEMMA OpenStride ==
  ASSUME TypeOK, ControlInv, StrideInv,
         NEW concurrency \in Concurrencies \cup {1}, Open(concurrency)
  PROVE  StrideInv'
  <1> DEFINE pieces == NumberOfPieces(Len(file))
             parallelism == MaxParallelism(pieces, concurrency)
  <1>1. /\ main = "open" /\ threads = 1 /\ k[0] = 0
        /\ \A t \in Thread : pc[t] = "idle"
        /\ UNCHANGED <<launched, pc>>
        /\ launched <= MainThread
        /\ 0 .. threads - 1 \subseteq Thread
        /\ 0 % 1 = 0
    BY DEF Open, StrideInv
  <1>2. pieces \in Nat /\ concurrency \in Nat
    BY ContentType, PiecesOfSize, ConcurrenciesAssumption DEF TypeOK
  <1>3. CASE pieces = 0 \/ parallelism < 1
    <2>1. UNCHANGED <<threads, k>> /\ main' \in {"aborted", "encode"}
      BY <1>3 DEF Open
    <2> QED
      BY <1>1, <2>1 DEF StrideInv, MainThread
  <1>4. CASE ~ (pieces = 0 \/ parallelism < 1)
    <2>1. /\ threads' = Minimum(parallelism, pieces)
          /\ k' = [t \in Thread |-> t]
          /\ main' = "spawn"
      BY <1>4 DEF Open
    <2>2. threads' \in Nat \ {0}
      BY <2>1, <1>2, <1>4, ThreadsOfLoop
    <2>3. 0 .. threads' - 1 \subseteq Thread
      <3>1. threads' <= parallelism
        BY <2>1, <1>2 DEF Minimum, MaxParallelism
      <3>2. CASE threads' <= 1
        <4>1. 0 .. threads' - 1 = {0}
          BY <2>2, <3>2
        <4> QED
          BY <4>1 DEF Thread
      <3>3. CASE concurrency \in Concurrencies /\ threads' <= concurrency
        <4>1. 0 .. concurrency - 1 \subseteq Thread
          BY <3>3 DEF Thread
        <4>2. 0 .. threads' - 1 \subseteq 0 .. concurrency - 1
          <5>1. PICK n \in Nat : threads' = n /\ n <= concurrency
            BY <2>2, <3>3
          <5> QED
            BY <1>2, <5>1
        <4> QED
          BY <4>1, <4>2
      <3>4. threads' <= 1 \/ threads' <= concurrency
        BY <3>1 DEF MaxParallelism
      <3> QED
        BY <3>2, <3>3, <3>4
    <2>4. \A t \in 0 .. threads' - 1 : k'[t] % threads' = t
      BY <2>1, <2>2, <2>3, RemainderOfSmall
    <2>5. launched' = 0 /\ 0 <= threads' - 1
      <3>1. launched' = 0
        BY <1>1 DEF ControlInv
      <3>2. PICK n \in Nat \ {0} : threads' = n
        BY <2>2
      <3> QED
        BY <3>1, <3>2
    <2> QED
      BY <1>1, <2>1, <2>2, <2>3, <2>4, <2>5 DEF StrideInv, MainThread
  <1> QED
    BY <1>3, <1>4

LEMMA LoopStride ==
  ASSUME TypeOK, ControlInv, StrideInv, NEW t \in Thread, LoopStep(t)
  PROVE  StrideInv'
  <1>1. /\ t \in Working /\ pc[t] \notin {"idle", "returned"}
        /\ UNCHANGED <<main, size, threads, launched>>
        /\ \E place \in {"read", "store", "insert", "record", "returned", "threw"} :
             pc' = [pc EXCEPT ![t] = place]
        /\ k' = k \/ k' = [k EXCEPT ![t] = @ + threads]
    BY DEF LoopStep, ReadPiece, CheckBlob, InsertBlob, StoreFails, RecordHash, LeaveLoop,
           Working, locals
  <1>2. main # "open"
    BY <1>1, NobodyWorks DEF ControlInv
  <1>3. t < threads
    BY <1>1 DEF StrideInv
  <1>4. \A u \in Thread : pc'[u] # "idle" => u < threads
    BY <1>1, <1>3 DEF StrideInv, TypeOK
  <1>5. main = "join" => pc'[MainThread] = "returned"
    BY <1>1 DEF StrideInv, TypeOK
  <1>6. \A u \in 0 .. threads - 1 : k'[u] % threads = u
    <2> SUFFICES ASSUME NEW u \in 0 .. threads - 1 PROVE k'[u] % threads = u
      OBVIOUS
    <2>1. u \in Thread /\ k[u] \in Nat /\ k[u] % threads = u /\ threads \in Nat \ {0}
      BY DEF StrideInv, TypeOK
    <2>2. k'[u] = k[u] \/ k'[u] = k[u] + threads
      BY <1>1, <2>1 DEF TypeOK
    <2> QED
      BY <2>1, <2>2, RemainderAfterStride
  <1> QED
    BY <1>1, <1>2, <1>4, <1>5, <1>6 DEF StrideInv, MainThread

LEMMA MainStride ==
  ASSUME TypeOK, ControlInv, StrideInv, MainStep
  PROVE  StrideInv'
  <1>1. CASE OpenFile
    BY <1>1, OpenStride DEF OpenFile
  <1>2. CASE Launch
    <2>1. /\ main = "spawn" /\ main' \in {"spawn", "loop"}
          /\ UNCHANGED <<threads, k>>
          /\ pc' = [pc EXCEPT ![launched] = "read"]
          /\ launched \in Nat /\ launched <= threads - 1
      BY <1>2 DEF Launch, StrideInv, MainThread, TypeOK
    <2>2. launched' <= threads - 1
      BY <1>2, <2>1 DEF Launch, MainThread, TypeOK
    <2>3. \A t \in Thread : pc'[t] # "idle" => t < threads
      BY <2>1 DEF StrideInv, TypeOK
    <2> QED
      BY <2>1, <2>2, <2>3 DEF StrideInv, MainThread
  <1>3. CASE StartJoin
    <2>1. main = "loop" /\ pc[MainThread] = "returned" /\ main' = "join"
          /\ UNCHANGED <<threads, launched, k, pc>>
      BY <1>3 DEF StartJoin, loop
    <2>2. launched = MainThread
      BY <2>1 DEF ControlInv
    <2> QED
      BY <2>1, <2>2 DEF StrideInv, MainThread
  <1>4. CASE OpenFails \/ LaunchFails \/ Join \/ StoreIndex \/ StoreIndexFails
               \/ Unwind \/ EndUnwind
    <2>1. /\ UNCHANGED <<threads, launched, k, pc>>
          /\ main' \in {"failed", "unwind", "encode", "done"}
      BY <1>4 DEF OpenFails, LaunchFails, Join, StoreIndex, StoreIndexFails, Unwind,
                  EndUnwind, loop
    <2> QED
      BY <2>1 DEF StrideInv, MainThread
  <1> QED
    BY <1>1, <1>2, <1>3, <1>4 DEF MainStep

LEMMA StepStride == TypeOK /\ ControlInv /\ StrideInv /\ [Next]_vars => StrideInv'
  <1> SUFFICES ASSUME TypeOK, ControlInv, StrideInv, [Next]_vars PROVE StrideInv'
    OBVIOUS
  <1>1. CASE MainStep
    BY <1>1, MainStride
  <1>2. CASE \E t \in Thread : LoopStep(t)
    BY <1>2, LoopStride
  <1>3. CASE WriteFile \/ Finished \/ UNCHANGED vars
    <2>1. UNCHANGED <<main, threads, launched, k, pc>>
      BY <1>3 DEF WriteFile, Finished, vars, locals, loop
    <2> QED
      BY <2>1 DEF StrideInv, MainThread
  <1> QED
    BY <1>1, <1>2, <1>3 DEF Next
-----------------------------------------------------------------------------
(* PieceInv is inductive. *)

LEMMA InitPiece == Init => PieceInv
  <1> SUFFICES ASSUME Init PROVE PieceInv
    OBVIOUS
  <1>1. Pieces = 0
    BY PieceLengthAssumption DEF Init, Pieces, NumberOfPieces
  <1> QED
    BY <1>1 DEF Init, PieceInv

\* Every piece is still ahead of its thread.
LEMMA OpenPiece ==
  ASSUME TypeOK, StrideInv, NEW concurrency \in Concurrencies \cup {1},
         Open(concurrency), StrideInv', TypeOK'
  PROVE  PieceInv'
  <1>1. /\ \A t \in Thread : pc'[t] = "idle"
        /\ main' \in {"aborted", "encode", "spawn"}
        /\ threads' \in Nat \ {0}
        /\ Pieces' \in Nat
    BY PiecesOfSize DEF Open, StrideInv, TypeOK, Pieces
  <1>2. \A i \in 0 .. Pieces' - 1 : hash_codes'[i] = ZeroDigest
    BY DEF Open, EmptyVector, Pieces
  <1>3. \A i \in 0 .. Pieces' - 1 : ~ (i < k'[i % threads'])
    <2> SUFFICES ASSUME NEW i \in 0 .. Pieces' - 1
                 PROVE  ~ (i < k'[i % threads'])
      OBVIOUS
    <2>1. PICK n \in Nat \ {0} : threads' = n /\ 0 .. n - 1 \subseteq Thread
      BY <1>1 DEF StrideInv
    <2>2. i \in Nat
      BY <1>1
    <2>3. CASE k' = [t \in Thread |-> t]
      <3>1. i % n \in Thread /\ i % n \in 0 .. n - 1 /\ i % n <= i
        BY <2>1, <2>2, Division, RemainderAtMost
      <3>2. k'[i % n] = i % n
        BY <2>3, <3>1
      <3>3. PICK r \in Nat : i % n = r /\ r <= i
        BY <2>1, <2>2, <3>1
      <3>4. k'[i % n] = r
        BY <3>2, <3>3
      <3>5. ~ (i < k'[i % n])
        BY <2>2, <3>3, <3>4
      <3> QED
        BY <2>1, <3>5
    <2>4. CASE UNCHANGED <<threads, k>>
      <3>1. n = 1 /\ k'[0] = 0
        BY <2>1, <2>4 DEF Open, StrideInv
      <3>2. i % n = 0
        BY <2>1, <2>2, <3>1, Division
      <3>3. ~ (i < k'[i % n])
        BY <2>1, <2>2, <3>1, <3>2
      <3> QED
        BY <2>1, <3>3
    <2> QED
      BY <2>3, <2>4 DEF Open
  <1>4. main' = "encode" => 0 .. Pieces' - 1 = {}
    <2>1. main' = "encode" => Pieces' = 0
      BY DEF Open, Pieces
    <2> QED
      BY <2>1
  <1>5. main' \in {"encode", "done"} => \A i \in 0 .. Pieces' - 1 : Stored(table', hash_codes'[i])
    BY <1>1, <1>4
  <1>6. \A i \in 0 .. Pieces' - 1 :
          /\ i < k'[i % threads'] => Stored(table', hash_codes'[i])
          /\ i >= k'[i % threads'] => hash_codes'[i] = ZeroDigest
    BY <1>2, <1>3
  <1> QED
    BY <1>1, <1>5, <1>6 DEF PieceInv

\* The rounds that record nothing: rows are only ever added, and a thread that
\* is about to record has seen its row or has inserted it.
LEMMA RoundPiece ==
  ASSUME TypeOK, StrideInv, PieceInv, main \notin {"encode", "done"}, NEW t \in Thread,
         LoopStep(t), ~ RecordHash(t)
  PROVE  PieceInv'
  <1>1. /\ UNCHANGED <<main, size, threads, hash_codes, k>>
        /\ pc[t] \notin {"record", "returned"}
        /\ \E place \in {"store", "insert", "record", "returned", "threw"} :
             pc' = [pc EXCEPT ![t] = place]
        /\ \A u \in Thread : u # t => piece_buffer'[u] = piece_buffer[u]
        /\ Pieces' = Pieces
    BY DEF LoopStep, ReadPiece, CheckBlob, InsertBlob, StoreFails, LeaveLoop, locals, Pieces,
           TypeOK
  <1>2. table' = table \/ table' = InsertRow(table, piece_buffer[t])
    BY DEF LoopStep, ReadPiece, CheckBlob, InsertBlob, StoreFails, LeaveLoop
  <1>3. \A hash_code : Stored(table, hash_code) => Stored(table', hash_code)
    BY <1>2, RowsStay
  <1>4. \A u \in Thread : pc'[u] = "record" => Stored(table', Sha256(piece_buffer'[u]))
    <2> SUFFICES ASSUME NEW u \in Thread, pc'[u] = "record"
                 PROVE  Stored(table', Sha256(piece_buffer'[u]))
      OBVIOUS
    <2>1. CASE u # t
      BY <1>1, <1>3, <2>1 DEF PieceInv, TypeOK
    <2>2. CASE u = t
      <3>1. pc'[t] = "record"
        BY <2>2
      <3>2. CASE CheckBlob(t)
        BY <3>1, <3>2, <2>2 DEF CheckBlob, TypeOK
      <3>3. CASE InsertBlob(t)
        BY <3>1, <3>3, <2>2, InsertedIsStored DEF InsertBlob, TypeOK
      <3>4. CASE ReadPiece(t) \/ StoreFails(t) \/ LeaveLoop(t)
        BY <3>1, <3>4 DEF ReadPiece, StoreFails, LeaveLoop, TypeOK
      <3> QED
        BY <3>2, <3>3, <3>4 DEF LoopStep
    <2> QED
      BY <2>1, <2>2
  <1>5. \A u \in Thread : pc'[u] = "returned" => k'[u] >= Pieces
    <2> SUFFICES ASSUME NEW u \in Thread, pc'[u] = "returned"
                 PROVE  k[u] >= Pieces
      BY <1>1
    <2>1. CASE u # t
      BY <1>1, <2>1 DEF PieceInv, TypeOK
    <2>2. CASE u = t
      <3>1. LeaveLoop(t)
        BY <2>2 DEF LoopStep, ReadPiece, CheckBlob, InsertBlob, StoreFails, TypeOK
      <3> QED
        BY <2>2, <3>1 DEF LeaveLoop
    <2> QED
      BY <2>1, <2>2
  <1> QED
    BY <1>1, <1>3, <1>4, <1>5 DEF PieceInv

\* A thread that records is past that piece alone: its other pieces are a whole
\* stride away, and the pieces of the others have other remainders.
LEMMA RecordPiece ==
  ASSUME TypeOK, StrideInv, PieceInv, main \notin {"encode", "done"}, NEW t \in Thread,
         RecordHash(t)
  PROVE  PieceInv'
  <1> DEFINE hash_code == Sha256(piece_buffer[t])
  <1>1. /\ UNCHANGED <<main, threads, table, piece_buffer>>
        /\ pc' = [pc EXCEPT ![t] = "read"]
        /\ k' = [k EXCEPT ![t] = @ + threads]
        /\ hash_codes' = [hash_codes EXCEPT ![k[t]] = hash_code]
        /\ Pieces' = Pieces
    BY DEF RecordHash, locals, Pieces
  <1>2. /\ threads \in Nat \ {0}
        /\ t \in 0 .. threads - 1
        /\ k[t] \in Nat
        /\ k[t] % threads = t
        /\ Stored(table, hash_code)
    BY ThreadsAreNumbers DEF RecordHash, StrideInv, PieceInv, TypeOK
  <1> HIDE DEF hash_code
  <1>3. \A i \in 0 .. Pieces - 1 :
          /\ i < k'[i % threads] => Stored(table, hash_codes'[i])
          /\ i >= k'[i % threads] => hash_codes'[i] = ZeroDigest
    <2> SUFFICES ASSUME NEW i \in 0 .. Pieces - 1
                 PROVE  /\ i < k'[i % threads] => Stored(table, hash_codes'[i])
                        /\ i >= k'[i % threads] => hash_codes'[i] = ZeroDigest
      OBVIOUS
    <2>1. /\ i \in Nat
          /\ i % threads \in Thread
          /\ k[i % threads] \in Nat
          /\ i \in DOMAIN hash_codes
      BY <1>2, Division DEF StrideInv, TypeOK
    <2>2. /\ i < k[i % threads] => Stored(table, hash_codes[i])
          /\ i >= k[i % threads] => hash_codes[i] = ZeroDigest
      BY DEF PieceInv
    <2>3. CASE i = k[t]
      <3>1. i % threads = t /\ hash_codes'[i] = hash_code /\ k'[t] = i + threads
        BY <1>1, <1>2, <2>1, <2>3 DEF TypeOK
      <3> QED
        BY <1>2, <2>1, <3>1
    <2>4. CASE i # k[t] /\ i % threads = t
      <3>1. hash_codes'[i] = hash_codes[i] /\ k'[t] = k[t] + threads
        BY <1>1, <2>1, <2>4 DEF TypeOK
      <3>2. ~ (k[t] <= i /\ i < k[t] + threads)
        BY <1>2, <2>1, <2>4, NothingBetweenStrides
      <3>3. i < k[t] \/ i >= k[t] + threads
        BY <1>2, <2>1, <3>2
      <3> QED
        BY <1>2, <2>1, <2>2, <2>4, <3>1, <3>3
    <2>5. CASE i % threads # t
      <3>1. hash_codes'[i] = hash_codes[i] /\ k'[i % threads] = k[i % threads]
        BY <1>1, <1>2, <2>1, <2>5 DEF TypeOK
      <3> QED
        BY <2>2, <3>1
    <2> QED
      BY <2>3, <2>4, <2>5
  <1>4. \A u \in Thread : pc'[u] \in {"record", "returned"} => u # t /\ pc'[u] = pc[u]
    BY <1>1 DEF TypeOK
  <1>5. \A u \in Thread : u # t => k'[u] = k[u]
    BY <1>1 DEF TypeOK
  <1> QED
    BY <1>1, <1>3, <1>4, <1>5 DEF PieceInv

\* Once every thread of the loop has returned, every piece is behind its thread.
LEMMA JoinPiece ==
  ASSUME TypeOK, StrideInv, PieceInv, Join
  PROVE  PieceInv'
  <1>1. /\ UNCHANGED <<table, size, threads, hash_codes, pc, k, piece_buffer>>
        /\ Pieces' = Pieces
        /\ launched = MainThread /\ pc[MainThread] = "returned"
        /\ \A w \in Worker : pc[w] = "returned"
    BY DEF Join, StrideInv, loop, Pieces
  <1>2. \A t \in 0 .. threads - 1 : pc[t] = "returned"
    <2> SUFFICES ASSUME NEW t \in 0 .. threads - 1 PROVE pc[t] = "returned"
      OBVIOUS
    <2>1. threads \in Nat \ {0} /\ launched = threads - 1
      BY <1>1 DEF MainThread, TypeOK
    <2>2. t = threads - 1 \/ t \in 0 .. launched - 1
      BY <2>1
    <2> QED
      BY <1>1, <2>2 DEF Worker, MainThread
  <1>3. \A t \in Thread : pc[t] # "threw"
    <2> SUFFICES ASSUME NEW t \in Thread, pc[t] = "threw" PROVE FALSE
      OBVIOUS
    <2>1. t \in 0 .. threads - 1
      BY ThreadsAreNumbers DEF StrideInv, TypeOK
    <2> QED
      BY <1>2, <2>1
  <1>4. \A i \in 0 .. Pieces - 1 : Stored(table, hash_codes[i])
    <2> SUFFICES ASSUME NEW i \in 0 .. Pieces - 1 PROVE Stored(table, hash_codes[i])
      OBVIOUS
    <2>1. i % threads \in 0 .. threads - 1 /\ i % threads \in Thread
      BY Division DEF StrideInv, TypeOK
    <2>2. k[i % threads] >= Pieces /\ k[i % threads] \in Nat
      BY <1>2, <2>1 DEF PieceInv, TypeOK
    <2>3. Pieces \in Nat
      BY PiecesOfSize DEF Pieces, TypeOK
    <2> QED
      BY <2>2, <2>3 DEF PieceInv
  <1> QED
    BY <1>1, <1>3, <1>4 DEF PieceInv

LEMMA StepPiece ==
  TypeOK /\ ControlInv /\ StrideInv /\ PieceInv /\ [Next]_vars => PieceInv'
  <1> SUFFICES ASSUME TypeOK, ControlInv, StrideInv, PieceInv, [Next]_vars
               PROVE  PieceInv'
    OBVIOUS
  <1>1. CASE OpenFile
    <2>1. TypeOK' /\ StrideInv'
      BY StepTyped, StepStride
    <2> QED
      BY <1>1, <2>1, OpenPiece DEF OpenFile
  <1>2. CASE \E t \in Thread : LoopStep(t)
    <2>1. PICK t \in Thread : LoopStep(t)
      BY <1>2
    <2>2. Working # {}
      BY <2>1 DEF LoopStep, ReadPiece, CheckBlob, InsertBlob, StoreFails, RecordHash,
                  LeaveLoop, Working
    <2>3. main \notin {"encode", "done"}
      BY <2>2, NobodyWorks DEF ControlInv
    <2> QED
      BY <2>1, <2>3, RoundPiece, RecordPiece
  <1>3. CASE Launch
    <2>1. /\ UNCHANGED <<table, size, threads, hash_codes, k, piece_buffer>>
          /\ Pieces' = Pieces
          /\ main' \in {"spawn", "loop"}
          /\ pc' = [pc EXCEPT ![launched] = "read"]
      BY <1>3 DEF Launch, Pieces
    <2>2. \A t \in Thread : pc'[t] \in {"record", "returned"} => pc'[t] = pc[t]
      BY <2>1 DEF TypeOK
    <2> QED
      BY <2>1, <2>2 DEF PieceInv
  <1>4. CASE Join
    BY <1>4, JoinPiece
  <1>5. CASE StoreIndex
    <2>1. /\ UNCHANGED <<size, threads, hash_codes, pc, k, piece_buffer>>
          /\ Pieces' = Pieces
          /\ main = "encode"
          /\ table' = table \/ \E content : table' = StoreBlob(table, content)
      BY <1>5 DEF StoreIndex, loop, Pieces
    <2>2. \A hash_code : Stored(table, hash_code) => Stored(table', hash_code)
      BY <2>1, RowsStay
    <2> QED
      BY <2>1, <2>2 DEF PieceInv
  <1>6. CASE \/ OpenFails \/ LaunchFails \/ StartJoin \/ StoreIndexFails
             \/ Unwind \/ EndUnwind \/ WriteFile \/ Finished \/ UNCHANGED vars
    <2>1. /\ UNCHANGED <<table, size, threads, hash_codes, pc, k, piece_buffer>>
          /\ Pieces' = Pieces
          /\ main' = main \/ main' \notin {"encode", "done"}
      BY <1>6 DEF OpenFails, LaunchFails, StartJoin, StoreIndexFails, Unwind, EndUnwind,
                  WriteFile, Finished, loop, locals, vars, Pieces
    <2> QED
      BY <2>1 DEF PieceInv
  <1> QED
    BY <1>1, <1>2, <1>3, <1>4, <1>5, <1>6 DEF Next, MainStep

-----------------------------------------------------------------------------
\* The vector of digests is written without a lock, and without a race: a thread
\* at work on a piece is alone with it, and nobody has recorded it before
\* (import.cpp:85, 91 and 141).
THEOREM PiecesAreOwned == Spec => []PieceOwnership
  <1>1. TypeOK /\ StrideInv /\ PieceInv => PieceOwnership
    <2> SUFFICES ASSUME TypeOK, StrideInv, PieceInv, NEW t \in Working, k[t] < Pieces
                 PROVE  /\ hash_codes[k[t]] = ZeroDigest
                        /\ \A u \in Working : k[u] = k[t] => u = t
      BY DEF PieceOwnership
    <2>1. \A u \in Working : u \in Thread /\ k[u] \in Nat /\ k[u] % threads = u
      <3> SUFFICES ASSUME NEW u \in Working
                   PROVE  u \in Thread /\ k[u] \in Nat /\ k[u] % threads = u
        OBVIOUS
      <3>1. u \in Thread /\ u \in Nat /\ pc[u] # "idle"
        BY ThreadsAreNumbers DEF Working
      <3>2. u < threads /\ threads \in Nat
        BY <3>1 DEF StrideInv, TypeOK
      <3>3. u \in 0 .. threads - 1
        BY <3>1, <3>2
      <3>4. k[u] % threads = u
        BY <3>3 DEF StrideInv
      <3> QED
        BY <3>1, <3>4 DEF TypeOK
    <2>2. Pieces \in Nat
      BY PiecesOfSize DEF Pieces, TypeOK
    <2>3. k[t] \in 0 .. Pieces - 1
      BY <2>1, <2>2
    <2> QED
      BY <2>1, <2>3 DEF PieceInv
  <1> QED
    BY <1>1, InitTyped, StepTyped, InitControl, StepControl, InitStride, StepStride,
       InitPiece, StepPiece, PTL DEF Spec

\* The index is encoded only when every piece has been recorded and is stored,
\* and no exception of any thread is lost (import.cpp:95 to 98).
THEOREM EncodingIsComplete == Spec => []EncodeOnlyWhenComplete
  <1>1. PieceInv => EncodeOnlyWhenComplete
    BY DEF PieceInv, EncodeOnlyWhenComplete
  <1> QED
    BY <1>1, InitTyped, StepTyped, InitControl, StepControl, InitStride, StepStride,
       InitPiece, StepPiece, PTL DEF Spec

-----------------------------------------------------------------------------
(***************************************************************************)
(* Rows are stored after everything they mention, so that this import is a *)
(* writer that ClosedStore speaks of.                                      *)
(***************************************************************************)

\* A row is added, and what it mentions is there.
StoreStep ==
  \/ table' = table
  \/ \E content : References(content) \subseteq DOMAIN table /\ table' = StoreBlob(table, content)

LEMMA StoreStepIsPut == StoreStep => [Store!Next]_table
  <1> SUFFICES ASSUME NEW content, References(content) \subseteq DOMAIN table,
                      table' = StoreBlob(table, content), table' # table
               PROVE  Store!Next
    BY DEF StoreStep
  <1> DEFINE h == Sha256(content)
  <1>1. h \notin DOMAIN table /\ table' = InsertRow(table, content)
    BY DEF StoreBlob, Stored
  <1>2. /\ DOMAIN table' = DOMAIN table \cup {h}
        /\ table'[h] = content
        /\ \A g \in DOMAIN table : table'[g] = table[g]
    BY <1>1 DEF InsertRow
  <1>3. Store!Put(h)
    BY <1>2 DEF Store!Put, Store!Sha256, Sha256, Store!References, References
  <1> QED
    BY <1>2, <1>3 DEF Store!Next

\* A piece mentions nothing.
LEMMA InsertIsStore ==
  ASSUME TypeOK, NEW t \in Thread, InsertBlob(t)
  PROVE  StoreStep
  <1>1. CASE Stored(table, Sha256(piece_buffer[t]))
    BY <1>1 DEF InsertBlob, StoreStep
  <1>2. CASE ~ Stored(table, Sha256(piece_buffer[t]))
    <2>1. table' = StoreBlob(table, piece_buffer[t])
      BY <1>2 DEF InsertBlob, StoreBlob
    <2>2. References(piece_buffer[t]) = {}
      BY BytesMentionNothing DEF TypeOK
    <2> QED
      BY <2>1, <2>2 DEF StoreStep
  <1> QED
    BY <1>1, <1>2

\* The tail that StoreIndex reads.
LEMMA TailIsBytes ==
  ASSUME TypeOK, CanReadAt(file, Pieces * PieceLength, RemainingSize(size))
  PROVE  /\ Pieces \in Nat /\ Pieces * PieceLength \in Nat /\ RemainingSize(size) \in Nat
         /\ ReadAt(file, Pieces * PieceLength, RemainingSize(size)) \in Seq(Byte)
         /\ Len(ReadAt(file, Pieces * PieceLength, RemainingSize(size))) = RemainingSize(size)
         /\ \A i \in 1 .. RemainingSize(size) :
              ReadAt(file, Pieces * PieceLength, RemainingSize(size))[i]
                = file[Pieces * PieceLength + i]
  <1>1. file \in Seq(Byte) /\ size \in Nat
    BY ContentType DEF TypeOK
  <1>2. Pieces \in Nat /\ RemainingSize(size) \in Nat
    BY <1>1, PiecesOfSize, PieceLengthAssumption DEF Pieces
  <1>3. Pieces * PieceLength \in Nat
    BY <1>2, PieceLengthAssumption
  <1> QED
    BY <1>1, <1>2, <1>3, ReadAtContent

\* When the index is stored its pieces are.
LEMMA IndexIsStore ==
  ASSUME TypeOK, PieceInv, StoreIndex
  PROVE  StoreStep
  <1>1. CASE ~ CanReadAt(file, Pieces * PieceLength, RemainingSize(size))
    BY <1>1 DEF StoreIndex, StoreStep
  <1>2. CASE CanReadAt(file, Pieces * PieceLength, RemainingSize(size))
    <2>1. PICK tail : tail = ReadAt(file, Pieces * PieceLength, RemainingSize(size))
      OBVIOUS
    <2>2. tail \in Seq(Byte) /\ Pieces \in Nat
      BY <1>2, <2>1, TailIsBytes
    <2>3. table' = StoreBlob(table, EncodeFile(hash_codes, Pieces, tail))
      BY <1>2, <2>1 DEF StoreIndex
    <2>4. \A i \in 0 .. Pieces - 1 : Mentioned(hash_codes[i]) \in DOMAIN table
      <3> SUFFICES ASSUME NEW i \in 0 .. Pieces - 1
                   PROVE  Mentioned(hash_codes[i]) \in DOMAIN table
        OBVIOUS
      <3>1. hash_codes[i] \in DOMAIN table
        BY DEF StoreIndex, PieceInv, Stored
      <3>2. hash_codes[i] = ZeroDigest \/ hash_codes[i] = Sha256(hash_codes[i].of)
        BY DEF TypeOK, IsPieceDigest
      <3>3. Mentioned(hash_codes[i]) = hash_codes[i]
        BY <3>2, DigestIsMentioned DEF Mentioned, ZeroDigest
      <3> QED
        BY <3>1, <3>3
    <2>5. References(EncodeFile(hash_codes, Pieces, tail)) \subseteq DOMAIN table
      BY <2>2, <2>4, IndexMentions
    <2> QED
      BY <2>3, <2>5 DEF StoreStep
  <1> QED
    BY <1>1, <1>2

LEMMA NextStore == TypeOK /\ PieceInv /\ [Next]_vars => StoreStep
  <1> SUFFICES ASSUME TypeOK, PieceInv, [Next]_vars PROVE StoreStep
    OBVIOUS
  <1>1. CASE \E t \in Thread : InsertBlob(t)
    BY <1>1, InsertIsStore
  <1>2. CASE StoreIndex
    BY <1>2, IndexIsStore
  <1>3. CASE \E t \in Thread : LoopStep(t) /\ ~ InsertBlob(t)
    <2>1. table' = table
      BY <1>3 DEF LoopStep, ReadPiece, CheckBlob, StoreFails, RecordHash, LeaveLoop
    <2> QED
      BY <2>1 DEF StoreStep
  <1>4. CASE \/ OpenFile \/ OpenFails \/ Launch \/ LaunchFails \/ StartJoin \/ Join
             \/ StoreIndexFails \/ Unwind \/ EndUnwind \/ WriteFile \/ UNCHANGED vars
    <2>1. table' = table
      BY <1>4 DEF OpenFile, Open, OpenFails, Launch, LaunchFails, StartJoin, Join,
                  StoreIndexFails, Unwind, EndUnwind, WriteFile, vars
    <2> QED
      BY <2>1 DEF StoreStep
  <1> QED
    BY <1>1, <1>2, <1>3, <1>4 DEF Next, MainStep, Finished

\* Readers of the table can rely on ClosedStore while files are imported by
\* many threads: an index is stored after all of its pieces.
THEOREM ImportKeepsStoreClosed == Spec => StoreSpec
  <1>1. Init => Store!Init
    BY DEF Init, Store!Init, EmptyTable, Store!EmptyTable
  <1>2. TypeOK /\ PieceInv /\ [Next]_vars => [Store!Next]_table
    BY NextStore, StoreStepIsPut
  <1> QED
    BY <1>1, <1>2, InitTyped, StepTyped, InitControl, StepControl, InitStride, StepStride,
       InitPiece, StepPiece, PTL DEF Spec, StoreSpec, Store!Spec

-----------------------------------------------------------------------------
(***************************************************************************)
(* What was read.  ImportFaithful speaks of the result alone; it has to be *)
(* known of every piece on its way, and of the tail, that the file         *)
(* contained it at some moment since it was opened.                        *)
(***************************************************************************)

WasIn(content, offset, count) ==
  \E version \in versions :
    CanReadAt(version, offset, count) /\ content = ReadAt(version, offset, count)

\* What is returned.
Returned(tail) ==
  LET encoded == EncodeFile(hash_codes, Pieces, tail)
  IN  /\ Stored(table, Sha256(encoded))
      /\ result = {[hash_code |-> Sha256(encoded), content_size |-> size]}

ReadInv ==
  /\ ContentAddressed(table)
  /\ main \notin {"open", "failed"} => file \in versions
  /\ main = "open" => \A i \in 0 .. Pieces - 1 : hash_codes[i] = ZeroDigest
  /\ \A t \in Thread : pc[t] \in {"store", "insert", "record"} =>
       WasIn(piece_buffer[t], k[t] * PieceLength, PieceLength)
  /\ \A i \in 0 .. Pieces - 1 : hash_codes[i] # ZeroDigest =>
       \E content : /\ hash_codes[i] = Sha256(content)
                    /\ WasIn(content, i * PieceLength, PieceLength)
  /\ main # "done" => result = {}
  /\ main = "done" =>
       \E tail : WasIn(tail, Pieces * PieceLength, RemainingSize(size)) /\ Returned(tail)

LEMMA InitRead == Init => ReadInv
  <1> SUFFICES ASSUME Init PROVE ReadInv
    OBVIOUS
  <1>1. Pieces = 0
    BY PieceLengthAssumption DEF Init, Pieces, NumberOfPieces
  <1>2. ContentAddressed(table)
    BY DEF Init, EmptyTable, ContentAddressed
  <1> QED
    BY <1>1, <1>2 DEF Init, ReadInv

\* Nothing is at work, and nothing recorded, when the file is opened.
LEMMA OpenRead ==
  ASSUME ControlInv, ReadInv, NEW concurrency, Open(concurrency)
  PROVE  ReadInv'
  <1>1. /\ main = "open" /\ main' \in {"aborted", "encode", "spawn"}
        /\ UNCHANGED <<file, table, pc, result>>
        /\ versions' = {file}
        /\ hash_codes' = [i \in 0 .. Pieces' - 1 |-> ZeroDigest]
    BY DEF Open, EmptyVector, Pieces
  <1>2. \A t \in Thread : pc'[t] \notin {"store", "insert", "record"}
    BY <1>1, NobodyWorks DEF ControlInv, Working
  <1>3. \A i \in 0 .. Pieces' - 1 : hash_codes'[i] = ZeroDigest
    BY <1>1
  <1>4. ContentAddressed(table') /\ result' = {}
    BY <1>1 DEF ReadInv
  <1> QED
    BY <1>1, <1>2, <1>3, <1>4 DEF ReadInv

\* Rows and versions are added.
LEMMA WasInStays ==
  ASSUME NEW content, NEW offset, NEW count, WasIn(content, offset, count),
         versions \subseteq versions'
  PROVE  WasIn(content, offset, count)'
  BY DEF WasIn

LEMMA LoopRead ==
  ASSUME TypeOK, ReadInv, main \notin {"open", "failed", "done"}, NEW t \in Thread, LoopStep(t)
  PROVE  ReadInv'
  <1>1. /\ UNCHANGED <<file, versions, main, size, threads, result>>
        /\ Pieces' = Pieces
    BY DEF LoopStep, ReadPiece, CheckBlob, InsertBlob, StoreFails, RecordHash, LeaveLoop,
           environment, locals, Pieces
  <1>2. ContentAddressed(table')
    <2>1. table' = table \/ table' = InsertRow(table, piece_buffer[t])
      BY DEF LoopStep, ReadPiece, CheckBlob, InsertBlob, StoreFails, RecordHash, LeaveLoop
    <2> QED
      BY <2>1 DEF ReadInv, ContentAddressed, InsertRow
  <1>3. \A u \in Thread : pc'[u] \in {"store", "insert", "record"} =>
          WasIn(piece_buffer'[u], k'[u] * PieceLength, PieceLength)
    <2> SUFFICES ASSUME NEW u \in Thread, pc'[u] \in {"store", "insert", "record"}
                 PROVE  WasIn(piece_buffer'[u], k'[u] * PieceLength, PieceLength)
      OBVIOUS
    <2>1. CASE u # t
      <3>1. pc'[u] = pc[u] /\ piece_buffer'[u] = piece_buffer[u] /\ k'[u] = k[u]
        BY <2>1 DEF LoopStep, ReadPiece, CheckBlob, InsertBlob, StoreFails, RecordHash,
                    LeaveLoop, TypeOK
      <3> QED
        BY <3>1 DEF ReadInv
    <2>2. CASE u = t /\ ReadPiece(t)
      <3>1. CanReadAt(file, k[t] * PieceLength, PieceLength)
        BY <2>2 DEF ReadPiece, TypeOK
      <3>2. /\ piece_buffer'[t] = ReadAt(file, k[t] * PieceLength, PieceLength)
            /\ k'[t] = k[t]
        BY <2>2, <3>1 DEF ReadPiece, TypeOK
      <3>3. file \in versions
        BY DEF ReadInv
      <3> QED
        BY <2>2, <3>1, <3>2, <3>3 DEF WasIn
    <2>3. CASE u = t /\ (CheckBlob(t) \/ InsertBlob(t))
      <3>1. /\ pc[t] \in {"store", "insert"}
            /\ UNCHANGED <<piece_buffer, k>>
        BY <2>3 DEF CheckBlob, InsertBlob
      <3> QED
        BY <2>3, <3>1 DEF ReadInv
    <2>4. CASE u = t /\ (StoreFails(t) \/ RecordHash(t) \/ LeaveLoop(t))
      BY <2>4 DEF StoreFails, RecordHash, LeaveLoop, TypeOK
    <2> QED
      BY <2>1, <2>2, <2>3, <2>4 DEF LoopStep
  <1>4. \A i \in 0 .. Pieces - 1 : hash_codes'[i] # ZeroDigest =>
          \E content : /\ hash_codes'[i] = Sha256(content)
                       /\ WasIn(content, i * PieceLength, PieceLength)
    <2> SUFFICES ASSUME NEW i \in 0 .. Pieces - 1, hash_codes'[i] # ZeroDigest
                 PROVE  \E content : /\ hash_codes'[i] = Sha256(content)
                                     /\ WasIn(content, i * PieceLength, PieceLength)
      OBVIOUS
    <2>1. CASE hash_codes'[i] = hash_codes[i]
      BY <2>1 DEF ReadInv
    <2>2. CASE hash_codes'[i] # hash_codes[i]
      <3>1. RecordHash(t)
        BY <2>2 DEF LoopStep, ReadPiece, CheckBlob, InsertBlob, StoreFails, LeaveLoop
      <3>2. hash_codes' = [hash_codes EXCEPT ![k[t]] = Sha256(piece_buffer[t])]
            /\ pc[t] = "record"
        BY <3>1 DEF RecordHash
      <3>3. i = k[t] /\ hash_codes'[i] = Sha256(piece_buffer[t])
        BY <2>2, <3>2 DEF TypeOK
      <3>4. WasIn(piece_buffer[t], k[t] * PieceLength, PieceLength)
        BY <3>2 DEF ReadInv
      <3> QED
        BY <3>3, <3>4
    <2> QED
      BY <2>1, <2>2
  <1>5. \A content, offset, count : WasIn(content, offset, count)' <=> WasIn(content, offset, count)
    BY <1>1 DEF WasIn
  <1>6. \A u \in Thread : (pc[u] \in {"store", "insert", "record"} =>
          WasIn(piece_buffer[u], k[u] * PieceLength, PieceLength))'
    BY <1>3, <1>5
  <1>7. (\A i \in 0 .. Pieces - 1 : hash_codes[i] # ZeroDigest =>
           \E content : /\ hash_codes[i] = Sha256(content)
                        /\ WasIn(content, i * PieceLength, PieceLength))'
    BY <1>1, <1>4, <1>5
  <1> QED
    BY <1>1, <1>2, <1>6, <1>7 DEF ReadInv

\* The steps that leave the table and the loop's data alone.
LEMMA ControlRead ==
  ASSUME ReadInv, UNCHANGED <<file, versions, table, size, hash_codes, k, piece_buffer, result>>,
         \A t \in Thread : pc'[t] \in {"store", "insert", "record"} => pc'[t] = pc[t],
         main' = main \/ main' = "failed" \/ (main \notin {"open", "failed"} /\ main' # "open"),
         main # "done", main' # "done"
  PROVE  ReadInv'
  <1>1. Pieces' = Pieces
    BY DEF Pieces
  <1>2. \A content, offset, count : WasIn(content, offset, count)' <=> WasIn(content, offset, count)
    BY DEF WasIn
  <1>3. \A u \in Thread : (pc[u] \in {"store", "insert", "record"} =>
          WasIn(piece_buffer[u], k[u] * PieceLength, PieceLength))'
    BY <1>2 DEF ReadInv
  <1>4. (\A i \in 0 .. Pieces - 1 : hash_codes[i] # ZeroDigest =>
           \E content : /\ hash_codes[i] = Sha256(content)
                        /\ WasIn(content, i * PieceLength, PieceLength))'
    BY <1>1, <1>2 DEF ReadInv
  <1> QED
    BY <1>1, <1>3, <1>4 DEF ReadInv

\* The index of what was recorded, and of the tail, is stored.
LEMMA StoreIndexRead ==
  ASSUME TypeOK, ReadInv, StoreIndex
  PROVE  ReadInv'
  <1>1. /\ main = "encode" /\ main' \in {"done", "failed"}
        /\ UNCHANGED <<file, versions, size, hash_codes, pc, k, piece_buffer>>
        /\ Pieces' = Pieces /\ file \in versions
    BY DEF StoreIndex, ReadInv, environment, loop, Pieces
  <1>2. \A content, offset, count : WasIn(content, offset, count)' <=> WasIn(content, offset, count)
    BY <1>1 DEF WasIn
  <1>3. \A u \in Thread : (pc[u] \in {"store", "insert", "record"} =>
          WasIn(piece_buffer[u], k[u] * PieceLength, PieceLength))'
    BY <1>1, <1>2 DEF ReadInv
  <1>4. (\A i \in 0 .. Pieces - 1 : hash_codes[i] # ZeroDigest =>
           \E content : /\ hash_codes[i] = Sha256(content)
                        /\ WasIn(content, i * PieceLength, PieceLength))'
    BY <1>1, <1>2 DEF ReadInv
  <1>5. CASE ~ CanReadAt(file, Pieces * PieceLength, RemainingSize(size))
    <2>1. UNCHANGED <<table, result>> /\ main' = "failed"
      BY <1>5 DEF StoreIndex
    <2> QED
      BY <1>1, <1>3, <1>4, <2>1 DEF ReadInv
  <1>6. CASE CanReadAt(file, Pieces * PieceLength, RemainingSize(size))
    <2>1. PICK tail, encoded :
            /\ tail = ReadAt(file, Pieces * PieceLength, RemainingSize(size))
            /\ encoded = EncodeFile(hash_codes, Pieces, tail)
      OBVIOUS
    <2>2. /\ table' = StoreBlob(table, encoded)
          /\ result' = {[hash_code |-> Sha256(encoded), content_size |-> size]}
          /\ main' = "done"
      BY <1>6, <2>1 DEF StoreIndex
    <2>3. ContentAddressed(table')
      BY <2>2, StoredKeepsAddresses DEF ReadInv
    <2>4. Stored(table', Sha256(encoded))
      BY <2>2, StoredBlob DEF Stored, StoreBlob, InsertRow
    <2>5. WasIn(tail, Pieces * PieceLength, RemainingSize(size))
      BY <1>1, <1>6, <2>1 DEF WasIn
    <2>6. WasIn(tail, Pieces * PieceLength, RemainingSize(size))'
      BY <1>1, <2>5 DEF WasIn
    <2>7. Returned(tail)'
      BY <1>1, <2>1, <2>2, <2>4 DEF Returned
    <2> QED
      BY <1>1, <1>3, <1>4, <2>2, <2>3, <2>6, <2>7 DEF ReadInv
  <1> QED
    BY <1>5, <1>6

\* A rewrite adds a version.
LEMMA WriteRead ==
  ASSUME ControlInv, ReadInv, WriteFile
  PROVE  ReadInv'
  <1>1. /\ UNCHANGED <<table, main, size, hash_codes, pc, k, piece_buffer, result>>
        /\ Pieces' = Pieces /\ main \notin {"done", "failed"}
        /\ ContentAddressed(table) /\ result = {}
    BY DEF WriteFile, ReadInv, locals, loop, Pieces
  <1>2. CASE main = "open"
    <2>1. \A t \in Thread : pc[t] \notin {"store", "insert", "record"}
      BY <1>2, NobodyWorks DEF ControlInv, Working
    <2>2. \A i \in 0 .. Pieces - 1 : hash_codes[i] = ZeroDigest
      BY <1>2 DEF ReadInv
    <2> QED
      BY <1>1, <1>2, <2>1, <2>2 DEF ReadInv
  <1>3. CASE main # "open"
    <2>1. versions' = versions \cup {file'}
      BY <1>3 DEF WriteFile
    <2>2. \A content, offset, count : WasIn(content, offset, count) => WasIn(content, offset, count)'
      BY <2>1 DEF WasIn
    <2>3. \A u \in Thread : (pc[u] \in {"store", "insert", "record"} =>
            WasIn(piece_buffer[u], k[u] * PieceLength, PieceLength))'
      BY <1>1, <2>2 DEF ReadInv
    <2>4. (\A i \in 0 .. Pieces - 1 : hash_codes[i] # ZeroDigest =>
             \E content : /\ hash_codes[i] = Sha256(content)
                          /\ WasIn(content, i * PieceLength, PieceLength))'
      BY <1>1, <2>2 DEF ReadInv
    <2> QED
      BY <1>1, <1>3, <2>1, <2>3, <2>4 DEF ReadInv
  <1> QED
    BY <1>2, <1>3

LEMMA NextRead == TypeOK /\ ControlInv /\ ReadInv /\ [Next]_vars => ReadInv'
  <1> SUFFICES ASSUME TypeOK, ControlInv, ReadInv, [Next]_vars PROVE ReadInv'
    OBVIOUS
  <1>1. CASE OpenFile
    BY <1>1, OpenRead DEF OpenFile
  <1>2. CASE \E t \in Thread : LoopStep(t)
    <2>1. PICK t \in Thread : LoopStep(t)
      BY <1>2
    <2>2. Working # {}
      BY <2>1 DEF LoopStep, ReadPiece, CheckBlob, InsertBlob, StoreFails, RecordHash,
                  LeaveLoop, Working
    <2>3. main \notin {"open", "failed", "done"}
      BY <2>2, NobodyWorks DEF ControlInv
    <2> QED
      BY <2>1, <2>3, LoopRead
  <1>3. CASE StoreIndex
    BY <1>3, StoreIndexRead
  <1>4. CASE WriteFile
    BY <1>4, WriteRead
  <1>5. CASE Launch
    <2>1. /\ main = "spawn" /\ main' \in {"spawn", "loop"}
          /\ pc' = [pc EXCEPT ![launched] = "read"]
          /\ UNCHANGED <<file, versions, table, size, hash_codes, k, piece_buffer, result>>
      BY <1>5 DEF Launch, environment
    <2>2. \A t \in Thread : pc'[t] \in {"store", "insert", "record"} => pc'[t] = pc[t]
      BY <2>1 DEF TypeOK
    <2> QED
      BY <2>1, <2>2, ControlRead
  <1>6. CASE OpenFails \/ LaunchFails \/ StartJoin \/ Join \/ StoreIndexFails \/ Unwind \/ EndUnwind
    <2>1. /\ UNCHANGED <<pc, file, versions, table, size, hash_codes, k, piece_buffer, result>>
          /\ main' = "failed" \/ (main \notin {"open", "failed"} /\ main' # "open")
          /\ main # "done" /\ main' # "done"
      BY <1>6 DEF OpenFails, LaunchFails, StartJoin, Join, StoreIndexFails, Unwind, EndUnwind,
                  MustUnwind, environment, loop
    <2> QED
      BY <2>1, ControlRead
  <1>7. CASE UNCHANGED vars
    <2>1. /\ UNCHANGED <<file, versions, table, main, size, hash_codes, pc, k, piece_buffer, result>>
          /\ Pieces' = Pieces
      BY <1>7 DEF vars, environment, locals, loop, Pieces
    <2> QED
      BY <2>1 DEF ReadInv, WasIn, Returned
  <1> QED
    BY <1>1, <1>2, <1>3, <1>4, <1>5, <1>6, <1>7 DEF Next, MainStep, Finished

\* Every recorded piece is stored, as some version of the file had it.
LEMMA PieceIsVersion ==
  ASSUME PieceInv, ReadInv, main = "done", NEW i \in 0 .. Pieces - 1
  PROVE  /\ Stored(table, hash_codes[i])
         /\ WasIn(table[hash_codes[i]], i * PieceLength, PieceLength)
  <1>1. hash_codes[i] \in DOMAIN table
    BY DEF PieceInv, Stored
  <1>2. hash_codes[i] = Sha256(table[hash_codes[i]])
    BY <1>1 DEF ReadInv, ContentAddressed
  <1>3. hash_codes[i] # ZeroDigest
    BY <1>2 DEF Sha256, ZeroDigest
  <1>4. PICK content : /\ hash_codes[i] = Sha256(content)
                       /\ WasIn(content, i * PieceLength, PieceLength)
    BY <1>3 DEF ReadInv
  <1>5. content = table[hash_codes[i]]
    BY <1>2, <1>4, DigestsDiffer
  <1> QED
    BY <1>1, <1>4, <1>5 DEF Stored

LEMMA ReadImpliesFaithful == TypeOK /\ PieceInv /\ ReadInv => ImportFaithful
  <1> SUFFICES ASSUME TypeOK, PieceInv, ReadInv, NEW imported \in result
               PROVE  LET index == LoadIndex(table, imported.content_size, imported.hash_code)
                          SameBytes(piece, version) ==
                            \A i \in 0 .. imported.content_size - 1 :
                              i \div PieceLength = piece =>
                                i < Len(version) /\ IndexedByte(table, index, i) = version[i + 1]
                      IN  /\ imported.content_size = size
                          /\ CanLoadIndex(table, imported.content_size, imported.hash_code)
                          /\ \A i \in DOMAIN index.pieces : Stored(table, index.pieces[i])
                          /\ \A piece \in 0 .. Pieces :
                               \E version \in versions : SameBytes(piece, version)
    BY DEF ImportFaithful
  <1>1. main = "done"
    BY DEF ReadInv
  <1>2. PICK tail : WasIn(tail, Pieces * PieceLength, RemainingSize(size)) /\ Returned(tail)
    BY <1>1 DEF ReadInv
  <1>3. PICK n \in Nat, h \in {Sha256(EncodeFile(hash_codes, Pieces, tail))} : n = Pieces
    BY PiecesOfSize DEF Pieces, TypeOK
  <1>4. imported = [hash_code |-> h, content_size |-> size] /\ h \in DOMAIN table
    BY <1>2, <1>3 DEF Returned, Stored
  <1>5. /\ size \in Nat /\ n * PieceLength \in Nat /\ RemainingSize(size) \in Nat
        /\ n = NumberOfPieces(size)
    <2>1. size \in Nat /\ n = NumberOfPieces(size)
      BY <1>3 DEF Pieces, TypeOK
    <2>2. RemainingSize(size) \in Nat
      BY <2>1, PiecesOfSize, PieceLengthAssumption
    <2>3. n * PieceLength \in Nat
      BY PieceLengthAssumption
    <2> QED
      BY <2>1, <2>2, <2>3
  <1>6. PICK last \in versions :
          /\ CanReadAt(last, n * PieceLength, RemainingSize(size))
          /\ tail = ReadAt(last, n * PieceLength, RemainingSize(size))
    BY <1>2, <1>3 DEF WasIn
  <1>7. \A version \in versions : version \in Seq(Byte)
    BY ContentType DEF TypeOK
  <1>8. /\ tail \in Seq(Byte) /\ Len(tail) = RemainingSize(size)
        /\ \A i \in 1 .. RemainingSize(size) : tail[i] = last[n * PieceLength + i]
    <2>1. last \in Seq(Byte)
      BY <1>6, <1>7
    <2> QED
      BY <1>5, <1>6, <2>1, ReadAtContent
  <1>9. table[h] = EncodeFile(hash_codes, NumberOfPieces(size), tail)
    <2>1. h = Sha256(table[h])
      BY <1>4 DEF ReadInv, ContentAddressed
    <2> QED
      BY <1>3, <1>5, <2>1, DigestsDiffer
  <1>10. PICK index : index = LoadIndex(table, size, h)
    OBVIOUS
  <1>11. CanLoadIndex(table, size, h) /\ IsIndexOf(index, hash_codes, size, tail)
    BY <1>4, <1>5, <1>8, <1>9, <1>10, LoadedIndex
  <1>12. \A i \in DOMAIN index.pieces : Stored(table, index.pieces[i])
    <2> SUFFICES ASSUME NEW i \in DOMAIN index.pieces PROVE Stored(table, index.pieces[i])
      OBVIOUS
    <2>1. i \in 1 .. n /\ index.pieces[i] = hash_codes[i - 1]
      BY <1>5, <1>11 DEF IsIndexOf
    <2>2. i - 1 \in 0 .. Pieces - 1
      BY <1>3, <2>1
    <2> QED
      BY <1>1, <2>1, <2>2, PieceIsVersion
  <1>13. ASSUME NEW i \in 0 .. size - 1
         PROVE  IndexedByte(table, index, i) = LaidOutByte(table, hash_codes, size, tail, i)
    BY <1>4, <1>5, <1>8, <1>9, <1>10, ByteOfIndex
  <1>14. ASSUME NEW piece \in 0 .. n
         PROVE  \E version \in versions :
                  \A i \in 0 .. size - 1 :
                    i \div PieceLength = piece =>
                      i < Len(version) /\ IndexedByte(table, index, i) = version[i + 1]
    <2>1. CASE piece < n
      <3>1. piece \in 0 .. Pieces - 1 /\ piece \in Nat
        BY <1>3, <2>1
      <3>2. PICK version \in versions :
              /\ CanReadAt(version, piece * PieceLength, PieceLength)
              /\ table[hash_codes[piece]] = ReadAt(version, piece * PieceLength, PieceLength)
        BY <1>1, <3>1, PieceIsVersion DEF WasIn
      <3>3. ASSUME NEW i \in 0 .. size - 1, i \div PieceLength = piece
            PROVE  i < Len(version) /\ IndexedByte(table, index, i) = version[i + 1]
        <4>1. version \in Seq(Byte) /\ i \in Nat
          BY <1>7
        <4>2. /\ i < Len(version)
              /\ ReadAt(version, piece * PieceLength, PieceLength)[(i % PieceLength) + 1]
                   = version[i + 1]
          BY <3>2, <3>3, <4>1, ByteOfPiece
        <4>3. LaidOutByte(table, hash_codes, size, tail, i)
                = table[hash_codes[piece]][(i % PieceLength) + 1]
          BY <1>5, <2>1, <3>3 DEF LaidOutByte
        <4> QED
          BY <1>13, <3>2, <4>2, <4>3
      <3> QED
        BY <3>3
    <2>2. CASE piece = n
      <3>1. ASSUME NEW i \in 0 .. size - 1, i \div PieceLength = piece
            PROVE  i < Len(last) /\ IndexedByte(table, index, i) = last[i + 1]
        <4>1. PICK r \in 0 .. PieceLength - 1 : r = i % PieceLength
          <5>1. i \in Nat
            OBVIOUS
          <5> QED
            BY <5>1, Division, PieceLengthAssumption
        <4>2. ~ (i \div PieceLength < NumberOfPieces(size))
          BY <1>5, <2>2, <3>1
        <4>3. r < RemainingSize(size) /\ i = n * PieceLength + r
          BY <1>5, <4>1, <4>2, ByteOfTail
        <4>4. PICK start \in Nat : start = n * PieceLength
          BY <1>5
        <4>5. r + 1 \in 1 .. RemainingSize(size) /\ start + (r + 1) = i + 1
          BY <1>5, <4>1, <4>3, <4>4, PieceLengthAssumption
        <4>6. tail[r + 1] = last[i + 1]
          BY <1>8, <4>4, <4>5
        <4>7. LaidOutByte(table, hash_codes, size, tail, i) = tail[r + 1]
          BY <4>1, <4>2 DEF LaidOutByte
        <4>8. i < Len(last)
          <5>1. last \in Seq(Byte)
            BY <1>6, <1>7
          <5>2. PICK m \in Nat, l \in Nat : m = RemainingSize(size) /\ l = Len(last)
            BY <1>5, <5>1
          <5>3. m = 0 \/ start + m <= l
            BY <1>6, <4>4, <5>2 DEF CanReadAt
          <5>4. r < m /\ i = start + r /\ r \in Nat
            BY <4>1, <4>3, <4>4, <5>2, PieceLengthAssumption
          <5> QED
            BY <5>2, <5>3, <5>4
        <4> QED
          BY <1>13, <4>6, <4>7, <4>8
      <3> QED
        BY <1>6, <3>1
    <2> QED
      BY <2>1, <2>2
  <1> QED
    BY <1>3, <1>4, <1>10, <1>11, <1>12, <1>14

\* What a successful import returns can be read back: as many bytes as were
\* measured, each piece as it was at some moment of the import, whatever the
\* threads do and whoever writes to the file (import.cpp:109 to 149).
THEOREM ImportIsFaithful == Spec => []ImportFaithful
  BY ReadImpliesFaithful, InitTyped, StepTyped, InitControl, StepControl, InitStride, StepStride,
     InitPiece, StepPiece, InitRead, NextRead, PTL DEF Spec
=============================================================================

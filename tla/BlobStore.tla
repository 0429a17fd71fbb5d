----------------------------- MODULE BlobStore -----------------------------
(***************************************************************************)
(* The blob table (blob_layer/blob_storage.cpp) and the clients of one     *)
(* database file: processes, or threads that do not share the mutex of an  *)
(* import.  A statement of SQLite is atomic; store_blob is two of them.    *)
(*                                                                         *)
(* A row has what LZ4 made of the content and the size it had.  IntMax is  *)
(* the limit of int, and LZ4MaxInput that of LZ4, which is smaller: above  *)
(* it LZ4_compressBound and LZ4_compress_default return 0, and the asserts *)
(* around them hold.                                                       *)
(***************************************************************************)
EXTENDS Blobs, FiniteSets

CONSTANTS
  Client,         \* processes and threads that use the database
  Content,        \* the blobs they store and load
  IntMax,         \* std::numeric_limits<int>::max()
  LZ4MaxInput     \* LZ4_MAX_INPUT_SIZE

ASSUME BlobAssumption ==
  Content \subseteq Seq(Byte) /\ IntMax \in Nat /\ LZ4MaxInput \in Nat

VARIABLES
  database,       \* the table `blob`, once there is one
  inserting,      \* what each client is about to insert: empty or one content
  answer          \* what each client was told last: empty or one answer

vars == <<database, inserting, answer>>

Init ==
  /\ database = {}
  /\ inserting = [c \in Client |-> {}]
  /\ answer = [c \in Client |-> {}]

Told(c, a) == answer' = [answer EXCEPT ![c] = a]
Idle(c) == inserting[c] = {}
Error == [to |-> "error"]
Table == CHOOSE table \in database : TRUE

-----------------------------------------------------------------------------
(* LZ4 *)

Nothing == [lz4 |-> <<>>, size |-> 0]
Compress(content) ==
  IF Len(content) <= LZ4MaxInput THEN [lz4 |-> content, size |-> Len(content) + 1] ELSE Nothing

\* std::vector::resize; then LZ4_decompress_safe, whose result is ignored.
Resize(buffer, size) ==
  [i \in 1 .. size |-> IF i \in DOMAIN buffer THEN buffer[i] ELSE 0]
Decompress(row, buffer) ==
  IF row.compressed_content.size > 0 THEN row.compressed_content.lz4
  ELSE Resize(buffer, row.original_size)

-----------------------------------------------------------------------------
(* The operations.  A statement is prepared only if there is a table. *)

Initialize(c) ==
  /\ Idle(c)
  /\ IF database = {}
     THEN database' = {EmptyTable} /\ Told(c, {[to |-> "initialize"]})
     ELSE UNCHANGED database /\ Told(c, {Error})
  /\ UNCHANGED inserting

\* The SELECT of load_blob finds a row.
HasRow(content) == \E table \in database : Sha256(content) \in DOMAIN table

\* load_blob into a buffer that may have the content of the last load.
Buffers(c) == {<<>>} \cup UNION {a.content : a \in {b \in answer[c] : b.to = "load"}}

Load(c, content) ==
  /\ Idle(c)
  /\ database # {}
  /\ IF HasRow(content) /\ Table[Sha256(content)].original_size > IntMax
     THEN Told(c, {Error})
     ELSE \E buffer \in Buffers(c) :
            Told(c, {[to |-> "load", hash_code |-> Sha256(content),
                      content |-> {Decompress(Table[h], buffer) :
                                     h \in {Sha256(content)} \cap DOMAIN Table}]})
  /\ UNCHANGED <<database, inserting>>

\* The first half of store_blob: load_blob, and the limit of int.  The defect
\* is to forget the limit.
NeverTooLarge(content) == FALSE
TooLarge(content) == Len(content) > IntMax

StoreDone(c, content) == Told(c, {[to |-> "store", hash_code |-> Sha256(content)]})

LookUp(c, content) ==
  /\ Idle(c)
  /\ database # {}
  /\ \/ /\ HasRow(content)
        /\ StoreDone(c, content)
        /\ UNCHANGED inserting
     \/ /\ ~ HasRow(content) /\ TooLarge(content)
        /\ Told(c, {Error})
        /\ UNCHANGED inserting
     \/ /\ ~ HasRow(content) /\ ~ TooLarge(content)
        /\ inserting' = [inserting EXCEPT ![c] = {content}]
        /\ Told(c, {})
  /\ UNCHANGED database

\* The second half: the INSERT.  The primary key refuses a digest that another
\* client has inserted meanwhile.
Inserted(content) ==
  [h \in DOMAIN Table \cup {Sha256(content)} |->
     IF h = Sha256(content)
     THEN [compressed_content |-> Compress(content), original_size |-> Len(content)]
     ELSE Table[h]]

Insert(c) ==
  /\ \E content \in inserting[c] :
       \/ /\ ~ HasRow(content)
          /\ database' = {Inserted(content)}
          /\ StoreDone(c, content)
       \/ /\ HasRow(content)
          /\ UNCHANGED database
          /\ Told(c, {[to |-> "constraint", hash_code |-> Sha256(content)]})
  /\ inserting' = [inserting EXCEPT ![c] = {}]

Count(c) ==
  /\ Idle(c)
  /\ database # {}
  /\ Told(c, {[to |-> "count", number |-> Cardinality(DOMAIN Table)]})
  /\ UNCHANGED <<database, inserting>>

\* No statement succeeds without the table, and any may fail: the database is
\* locked by another client, or the disk is full.  The defect is that the
\* result of the INSERT is not looked at.
ErrorIgnored(c) ==
  IF Idle(c) THEN Error
  ELSE [to |-> "store", hash_code |-> Sha256(CHOOSE content \in inserting[c] : TRUE)]
ErrorOf(c) == Error

Fail(c) ==
  /\ Told(c, {ErrorOf(c)})
  /\ inserting' = [inserting EXCEPT ![c] = {}]
  /\ UNCHANGED database

\* A client is killed, between two statements or during one, and starts again.
\* SQLite completes a statement or undoes it.
Kill(c) ==
  /\ Told(c, {})
  /\ inserting' = [inserting EXCEPT ![c] = {}]
  /\ UNCHANGED database

Next == \E c \in Client :
  \/ Initialize(c) \/ Insert(c) \/ Count(c) \/ Fail(c) \/ Kill(c)
  \/ \E content \in Content : LookUp(c, content) \/ Load(c, content)

Spec == Init /\ [][Next]_vars

-----------------------------------------------------------------------------
\* The contents whose size LZ4 can take, and those store_blob rejects.
NoLossySizes ==
  \A content \in Content : Len(content) <= LZ4MaxInput \/ Len(content) > IntMax

\* Every row has the size of the content its digest was computed from, which
\* fits into an int, and decompresses to that content; and whoever is about to
\* insert has a table and a content that may be inserted (blob_storage.cpp:72
\* to 100 against 128 to 143).
RowsDecodable ==
  /\ \A table, other \in database : table = other
  /\ \A table \in database : \A h \in DOMAIN table : \E content \in Content :
       /\ h = Sha256(content)
       /\ Len(content) <= IntMax
       /\ table[h] = [compressed_content |-> [lz4 |-> content, size |-> Len(content) + 1],
                      original_size |-> Len(content)]
  /\ DOMAIN inserting = Client
  /\ \A c \in Client : \A content \in inserting[c] :
       content \in Content /\ Len(content) <= IntMax /\ database # {}

\* The clients together see one store: what one was told to be stored is there
\* for all, complete, whoever is killed or fails, and a client is refused only
\* what another has stored.
Store == INSTANCE ContentStore WITH
  created <- database # {},
  stored <- UNION {DOMAIN table : table \in database}
ImplementsStore == Store!Spec

\* What is loaded is what was stored under the digest
\* (blob_storage_test.cpp:29).
LoadedAsStored ==
  \A c \in Client : \A a \in answer[c] :
    a.to = "load" => \A content \in a.content : a.hash_code = Sha256(content)
=============================================================================

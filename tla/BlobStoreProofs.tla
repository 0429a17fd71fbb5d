-------------------------- MODULE BlobStoreProofs --------------------------
(***************************************************************************)
(* The blob table implements ContentStore, for any number of clients and   *)
(* any contents, as long as no content has a size that int can hold and    *)
(* LZ4 cannot (NoLossySizes).                                              *)
(***************************************************************************)
EXTENDS BlobStore, TLAPS

\* Only one of the values of database is the table.
LEMMA TableIs ==
  ASSUME RowsDecodable, NEW table \in database PROVE Table = table
BY DEF RowsDecodable, Table

\* What LZ4 makes of a content that store_blob inserts.
LEMMA CompressIsExact ==
  ASSUME NoLossySizes, NEW content \in Content, Len(content) <= IntMax
  PROVE  Compress(content) = [lz4 |-> content, size |-> Len(content) + 1]
<1>1. Len(content) \in Nat
  BY BlobAssumption
<1>2. Len(content) <= LZ4MaxInput
  BY <1>1, BlobAssumption DEF NoLossySizes
<1>. QED  BY <1>2 DEF Compress

\* A step of a client other than the INSERT leaves the table and adds at most
\* one content to what is about to be inserted.
LEMMA QuietStep ==
  ASSUME RowsDecodable, UNCHANGED database, DOMAIN inserting' = Client,
         \A c \in Client : \A content \in inserting'[c] :
           content \in Content /\ Len(content) <= IntMax /\ database # {}
  PROVE  RowsDecodable'
BY DEF RowsDecodable

LEMMA InsertedRows ==
  ASSUME RowsDecodable, NoLossySizes, NEW content \in Content, Len(content) <= IntMax,
         NEW h \in DOMAIN Inserted(content), database # {}
  PROVE  \E x \in Content :
           /\ h = Sha256(x)
           /\ Len(x) <= IntMax
           /\ Inserted(content)[h] =
                [compressed_content |-> [lz4 |-> x, size |-> Len(x) + 1],
                 original_size |-> Len(x)]
<1>1. CASE h = Sha256(content)
  BY <1>1, CompressIsExact DEF Inserted
<1>2. CASE h # Sha256(content)
  <2>1. PICK table \in database : TRUE
    OBVIOUS
  <2>2. h \in DOMAIN table /\ Inserted(content)[h] = table[h]
    BY <1>2, <2>1, TableIs DEF Inserted
  <2>. QED  BY <2>1, <2>2 DEF RowsDecodable
<1>. QED  BY <1>1, <1>2

LEMMA InitRows == Init => RowsDecodable
BY DEF Init, RowsDecodable

LEMMA NextRows ==
  ASSUME NoLossySizes, RowsDecodable, [Next]_vars PROVE RowsDecodable'
<1>0. CASE UNCHANGED vars
  BY <1>0 DEF vars, RowsDecodable
<1>1. ASSUME NEW c \in Client,
             Initialize(c) \/ Count(c) \/ Fail(c) \/ Kill(c)
             \/ \E content \in Content : Load(c, content)
      PROVE  RowsDecodable'
  <2>1. CASE Initialize(c)
    <3>1. CASE database = {}
      <4>1. database' = {EmptyTable} /\ DOMAIN EmptyTable = {} /\ inserting' = inserting
        BY <2>1, <3>1 DEF Initialize, EmptyTable
      <4>. QED  BY <4>1 DEF RowsDecodable
    <3>2. CASE database # {}
      BY <2>1, <3>2 DEF Initialize, RowsDecodable
    <3>. QED  BY <3>1, <3>2
  <2>2. CASE Fail(c) \/ Kill(c)
    <3>1. /\ UNCHANGED database /\ DOMAIN inserting' = Client
          /\ \A d \in Client : inserting'[d] \subseteq inserting[d]
      BY <2>2 DEF Fail, Kill, RowsDecodable
    <3>. QED  BY <3>1, QuietStep DEF RowsDecodable
  <2>3. CASE Count(c) \/ \E content \in Content : Load(c, content)
    BY <2>3 DEF Count, Load, RowsDecodable
  <2>. QED  BY <1>1, <2>1, <2>2, <2>3
<1>2. ASSUME NEW c \in Client, NEW content \in Content, LookUp(c, content)
      PROVE  RowsDecodable'
  <2>1. UNCHANGED database /\ database # {}
    BY <1>2 DEF LookUp
  <2>2. CASE inserting' = inserting
    BY <2>1, <2>2 DEF RowsDecodable
  <2>3. CASE ~ TooLarge(content) /\ inserting' = [inserting EXCEPT ![c] = {content}]
    <3>1. Len(content) <= IntMax
      <4>1. Len(content) \in Nat
        BY BlobAssumption
      <4>. QED  BY <4>1, <2>3, BlobAssumption DEF TooLarge
    <3>2. /\ DOMAIN inserting' = Client
          /\ \A d \in Client : inserting'[d] \subseteq inserting[d] \cup {content}
      BY <2>3 DEF RowsDecodable
    <3>. QED  BY <2>1, <3>1, <3>2, QuietStep DEF RowsDecodable
  <2>. QED  BY <1>2, <2>2, <2>3 DEF LookUp
<1>3. ASSUME NEW c \in Client, Insert(c) PROVE RowsDecodable'
  <2>1. /\ DOMAIN inserting' = Client
        /\ \A d \in Client : inserting'[d] \subseteq inserting[d]
    BY <1>3 DEF Insert, RowsDecodable
  <2>2. CASE UNCHANGED database
    BY <2>1, <2>2, QuietStep DEF RowsDecodable
  <2>3. CASE \E content \in inserting[c] : database' = {Inserted(content)}
    <3>1. PICK content \in inserting[c] : database' = {Inserted(content)}
      BY <2>3
    <3>2. content \in Content /\ Len(content) <= IntMax /\ database # {}
      BY DEF RowsDecodable
    <3>3. \A h \in DOMAIN Inserted(content) : \E x \in Content :
            /\ h = Sha256(x)
            /\ Len(x) <= IntMax
            /\ Inserted(content)[h] =
                 [compressed_content |-> [lz4 |-> x, size |-> Len(x) + 1],
                  original_size |-> Len(x)]
      BY <3>2, InsertedRows
    <3>4. \A d \in Client : \A x \in inserting'[d] :
            x \in Content /\ Len(x) <= IntMax /\ database' # {}
      BY <2>1, <3>1 DEF RowsDecodable
    <3>. QED  BY <2>1, <3>1, <3>3, <3>4 DEF RowsDecodable
  <2>. QED  BY <1>3, <2>2, <2>3 DEF Insert
<1>. QED  BY <1>0, <1>1, <1>2, <1>3 DEF Next

\* Every row decompresses to the content of its digest: store_blob never
\* inserts what load_blob cannot load.
THEOREM RowsAreDecodable == ASSUME NoLossySizes PROVE Spec => []RowsDecodable
<1>1. RowsDecodable /\ [Next]_vars => RowsDecodable'
  BY NextRows
<1>. QED  BY <1>1, InitRows, PTL DEF Spec

-----------------------------------------------------------------------------
\* The digests of the table, seen as a set.
LEMMA StoredIs ==
  ASSUME RowsDecodable, database # {}
  PROVE  UNION {DOMAIN table : table \in database} = DOMAIN Table
<1>1. PICK table \in database : TRUE
  OBVIOUS
<1>2. database = {table} /\ Table = table
  BY <1>1, TableIs DEF RowsDecodable
<1>. QED  BY <1>2

LEMMA HasRowIs ==
  ASSUME RowsDecodable, database # {}, NEW content
  PROVE  HasRow(content) <=> Sha256(content) \in DOMAIN Table
BY TableIs DEF HasRow

\* What load_blob returns for a digest that is stored.
LEMMA LoadIsExact ==
  ASSUME RowsDecodable, database # {}, NEW content, NEW buffer,
         Sha256(content) \in DOMAIN Table
  PROVE  Decompress(Table[Sha256(content)], buffer) = content
<1>1. PICK x \in Content :
        /\ Sha256(content) = Sha256(x)
        /\ Table[Sha256(content)] =
             [compressed_content |-> [lz4 |-> x, size |-> Len(x) + 1],
              original_size |-> Len(x)]
  BY TableIs DEF RowsDecodable
<1>2. x = content
  BY <1>1 DEF Sha256
<1>3. Len(x) \in Nat
  BY BlobAssumption
<1>. QED  BY <1>1, <1>2, <1>3 DEF Decompress

LEMMA StepImplements ==
  ASSUME RowsDecodable, RowsDecodable', [Next]_vars
  PROVE  [Store!Next]_(Store!vars)
<1>. DEFINE stored == UNION {DOMAIN table : table \in database}
<1>. USE DEF Told, Store!Told
<1>0. CASE UNCHANGED vars
  BY <1>0 DEF vars, Store!vars
<1>1. ASSUME NEW c \in Client, Initialize(c) PROVE [Store!Next]_(Store!vars)
  <2>1. CASE database = {}
    <3>1. database' = {EmptyTable} /\ DOMAIN EmptyTable = {}
      BY <1>1, <2>1 DEF Initialize, EmptyTable
    <3>2. Store!Initialize(c)
      BY <1>1, <2>1, <3>1 DEF Initialize, Store!Initialize
    <3>. QED  BY <3>2 DEF Store!Next
  <2>2. CASE database # {}
    BY <1>1, <2>2 DEF Initialize, Error, Store!Fail, Store!Next
  <2>. QED  BY <2>1, <2>2
<1>2. ASSUME NEW c \in Client, Fail(c) \/ Kill(c) PROVE [Store!Next]_(Store!vars)
  BY <1>2 DEF Fail, ErrorOf, Error, Kill, Store!Fail, Store!Waits, Store!Next
<1>3. ASSUME NEW c \in Client, Count(c) PROVE [Store!Next]_(Store!vars)
  <2>1. Store!Count(c)
    BY <1>3, StoredIs DEF Count, Store!Count, Cardinality, Store!Cardinality
  <2>. QED  BY <2>1 DEF Store!Next
<1>4. ASSUME NEW c \in Client, NEW content \in Content, LookUp(c, content)
      PROVE  [Store!Next]_(Store!vars)
  <2>1. CASE HasRow(content) /\ StoreDone(c, content)
    <3>1. Sha256(content) \in stored
      BY <1>4, <2>1, HasRowIs, StoredIs DEF LookUp
    <3>2. stored \cup {Sha256(content)} = stored /\ UNCHANGED database
      BY <1>4, <3>1 DEF LookUp
    <3>3. Store!Store(c, content)
      BY <1>4, <2>1, <3>2 DEF LookUp, StoreDone, Store!Store, Sha256, Store!Sha256
    <3>. QED  BY <3>3 DEF Store!Next
  <2>2. CASE answer' = [answer EXCEPT ![c] = {Error}]
    BY <1>4, <2>2 DEF LookUp, Error, Store!Fail, Store!Next
  <2>3. CASE answer' = [answer EXCEPT ![c] = {}]
    BY <1>4, <2>3 DEF LookUp, Store!Waits, Store!Next
  <2>. QED  BY <1>4, <2>1, <2>2, <2>3 DEF LookUp
<1>5. ASSUME NEW c \in Client, NEW content \in Content, Load(c, content)
      PROVE  [Store!Next]_(Store!vars)
  <2>1. CASE answer' = [answer EXCEPT ![c] = {Error}]
    BY <1>5, <2>1 DEF Load, Error, Store!Fail, Store!Next
  <2>2. ASSUME NEW buffer,
               answer' = [answer EXCEPT ![c] =
                 {[to |-> "load", hash_code |-> Sha256(content),
                   content |-> {Decompress(Table[h], buffer) :
                                  h \in {Sha256(content)} \cap DOMAIN Table}]}]
        PROVE  [Store!Next]_(Store!vars)
    <3>1. {Decompress(Table[h], buffer) : h \in {Sha256(content)} \cap DOMAIN Table}
            = {x \in {content} : Sha256(x) \in stored}
      <4>1. database # {} /\ stored = DOMAIN Table
        BY <1>5, StoredIs DEF Load
      <4>2. CASE Sha256(content) \in DOMAIN Table
        BY <4>1, <4>2, LoadIsExact
      <4>3. CASE Sha256(content) \notin DOMAIN Table
        BY <4>1, <4>3
      <4>. QED  BY <4>2, <4>3
    <3>2. Store!Load(c, content)
      BY <1>5, <2>2, <3>1 DEF Load, Store!Load, Sha256, Store!Sha256
    <3>. QED  BY <3>2 DEF Store!Next
  <2>. QED  BY <1>5, <2>1, <2>2 DEF Load
<1>6. ASSUME NEW c \in Client, Insert(c) PROVE [Store!Next]_(Store!vars)
  <2>1. PICK content \in inserting[c] :
          \/ ~ HasRow(content) /\ database' = {Inserted(content)} /\ StoreDone(c, content)
          \/ /\ HasRow(content) /\ UNCHANGED database
             /\ Told(c, {[to |-> "constraint", hash_code |-> Sha256(content)]})
    BY <1>6 DEF Insert
  <2>2. content \in Content /\ database # {}
    BY DEF RowsDecodable
  <2>3. CASE ~ HasRow(content) /\ database' = {Inserted(content)} /\ StoreDone(c, content)
    <3>1. stored = DOMAIN Table
      BY <2>2, StoredIs
    <3>2. stored' = stored \cup {Sha256(content)}
      BY <2>3, <3>1 DEF Inserted
    <3>3. Store!Store(c, content)
      BY <2>2, <2>3, <3>2 DEF StoreDone, Store!Store, Sha256, Store!Sha256
    <3>. QED  BY <2>2, <3>3 DEF Store!Next
  <2>4. CASE /\ HasRow(content) /\ UNCHANGED database
             /\ Told(c, {[to |-> "constraint", hash_code |-> Sha256(content)]})
    <3>1. Sha256(content) \in stored
      BY <2>2, <2>4, HasRowIs, StoredIs
    <3>2. Store!Refuse(c, content)
      BY <2>4, <3>1 DEF Store!Refuse, Sha256, Store!Sha256
    <3>. QED  BY <2>2, <3>2 DEF Store!Next
  <2>. QED  BY <2>1, <2>3, <2>4
<1>. QED  BY <1>0, <1>1, <1>2, <1>3, <1>4, <1>5, <1>6 DEF Next

\* The table with all of its clients is one content store: what one client was
\* told to be stored is there for all of them, and a client is refused only
\* what another has stored.
THEOREM TableIsStore == ASSUME NoLossySizes PROVE Spec => ImplementsStore
<1>1. Init => Store!Init
  BY DEF Init, Store!Init
<1>2. RowsDecodable /\ RowsDecodable' /\ [Next]_vars => [Store!Next]_(Store!vars)
  BY StepImplements
<1>. QED  BY <1>1, <1>2, RowsAreDecodable, PTL DEF Spec, Store!Spec, ImplementsStore
=============================================================================

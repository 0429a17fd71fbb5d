---------------------------- MODULE ContentStore ----------------------------
(***************************************************************************)
(* What the blob table promises to the clients of one database: contents   *)
(* are stored and never go away, a stored content is loaded as it was, and *)
(* an operation may fail, but it does so as a whole.                       *)
(***************************************************************************)
EXTENDS Blobs, FiniteSets

CONSTANTS
  Client,     \* processes and threads that use the database
  Content     \* the blobs they store and load

VARIABLES
  created,    \* the table exists
  stored,     \* the digests of what has been stored
  answer      \* what each client was told last: empty or one answer

vars == <<created, stored, answer>>

Told(c, a) == answer' = [answer EXCEPT ![c] = a]

Waits(c) == Told(c, {}) /\ UNCHANGED <<created, stored>>

Initialize(c) ==
  /\ ~ created
  /\ created' = TRUE
  /\ Told(c, {[to |-> "initialize"]})
  /\ UNCHANGED stored

Store(c, content) ==
  /\ created
  /\ stored' = stored \cup {Sha256(content)}
  /\ Told(c, {[to |-> "store", hash_code |-> Sha256(content)]})
  /\ UNCHANGED created

Load(c, content) ==
  /\ created
  /\ Told(c, {[to |-> "load", hash_code |-> Sha256(content),
               content |-> {x \in {content} : Sha256(x) \in stored}]})
  /\ UNCHANGED <<created, stored>>

Count(c) ==
  /\ created
  /\ Told(c, {[to |-> "count", number |-> Cardinality(stored)]})
  /\ UNCHANGED <<created, stored>>

\* A digest is refused only if somebody else has stored it.
Refuse(c, content) ==
  /\ Sha256(content) \in stored
  /\ Told(c, {[to |-> "constraint", hash_code |-> Sha256(content)]})
  /\ UNCHANGED <<created, stored>>

Fail(c) == Told(c, {[to |-> "error"]}) /\ UNCHANGED <<created, stored>>

Init == created = FALSE /\ stored = {} /\ answer = [c \in Client |-> {}]

Next == \E c \in Client :
  \/ Waits(c) \/ Initialize(c) \/ Count(c) \/ Fail(c)
  \/ \E content \in Content : Store(c, content) \/ Load(c, content) \/ Refuse(c, content)

Spec == Init /\ [][Next]_vars
=============================================================================

---------------------------- MODULE ClosedStore ----------------------------
(***************************************************************************)
(* What every writer of the blob table promises to its readers: rows are   *)
(* only ever added, one at a time, each under its own digest, and never    *)
(* before everything the new row mentions.  A reader that holds a digest   *)
(* can therefore follow it to the end at any moment, however the writer    *)
(* that produced it, or any later one, came to an end.                     *)
(***************************************************************************)
EXTENDS Blobs

VARIABLE table

Init == table = EmptyTable

\* One row with digest hash_code appears.
Put(hash_code) ==
  /\ DOMAIN table' = DOMAIN table \cup {hash_code}
  /\ \A h \in DOMAIN table : table'[h] = table[h]
  /\ hash_code = Sha256(table'[hash_code])
  /\ References(table'[hash_code]) \subseteq DOMAIN table

Next == \E hash_code \in DOMAIN table' : Put(hash_code)

Spec == Init /\ [][Next]_table
=============================================================================

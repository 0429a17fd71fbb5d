------------------------------- MODULE Blobs -------------------------------
(***************************************************************************)
(* The content-addressed blob layer (blob_layer/): digests, and the table  *)
(* `blob` of the SQLite database.                                          *)
(*                                                                         *)
(* A blob is a sequence of symbols.  A symbol is a byte of user data, a    *)
(* whole 32-byte digest, or a whole directory entry.  Blobs carry no type: *)
(* a file shorter than one piece is stored as its own bytes, so an empty   *)
(* file and an empty directory are the same blob, as in the code.          *)
(***************************************************************************)
EXTENDS Integers, Sequences

CONSTANT Byte           \* the bytes user data is made of

\* SHA-256 is taken to be free of collisions: a digest determines the
\* content it was computed from.
Sha256(content) == [kind |-> "digest", of |-> content]

\* A value-initialised blob_hash_code, all of its digits zero.  No content
\* has this digest.
ZeroDigest == [kind |-> "zero"]

\* The table is a function from its primary key, the digest, to the content
\* of the row.  LZ4 is lossless, so a row is modelled by what it decompresses
\* to.
EmptyTable == [hash_code \in {} |-> <<>>]

Stored(table, hash_code) == hash_code \in DOMAIN table

InsertRow(table, content) ==
  [hash_code \in DOMAIN table \cup {Sha256(content)} |->
     IF hash_code = Sha256(content) THEN content ELSE table[hash_code]]

\* store_blob as one step: what it does when nothing else runs between its
\* SELECT and its INSERT.
StoreBlob(table, content) ==
  IF Stored(table, Sha256(content)) THEN table ELSE InsertRow(table, content)

\* An entry of a directory blob, from encode_entry.
DirectoryEntry(type, name, hash_code, size) ==
  [kind |-> "entry", type |-> type, name |-> name,
   hash_code |-> hash_code, size |-> size]

\* The digests a blob mentions: those of the pieces of a file, or those of
\* the entries of a directory.
References(content) ==
  LET symbols == {content[i] : i \in DOMAIN content} \ Byte
  IN  {IF s.kind = "entry" THEN s.hash_code ELSE s : s \in symbols}

\* Every row is stored under its own digest.
ContentAddressed(table) ==
  \A hash_code \in DOMAIN table : hash_code = Sha256(table[hash_code])

\* Whatever a stored blob mentions is stored too.
Closed(table) ==
  \A hash_code \in DOMAIN table : References(table[hash_code]) \subseteq DOMAIN table
=============================================================================

--------------------------- MODULE DirectoryBytes ---------------------------
(***************************************************************************)
(* The bytes of a directory blob: encode_entry (trees/directory.h),        *)
(* decode_entry (trees/directory.cpp) and the big endian integers of       *)
(* trees/regular_file.h, with the loop that find_entry and adaptor_readdir *)
(* run over a blob (fuse_adaptor/operations.cpp).  Elsewhere an entry is   *)
(* one symbol; here it is shown that it may be.                            *)
(*                                                                         *)
(* Widths and values are parameters: 256, 8, 32, 254 and 255 in the code.  *)
(* A pointer into the blob is the number of bytes in front of it.          *)
(***************************************************************************)
EXTENDS Integers, Sequences, SequencesExt

CONSTANTS
  Base,           \* the number of values of a byte
  IntegerLength,  \* sizeof(length_type)
  DigestLength,   \* the size of a digest
  Blobs,          \* byte sequences that may be found in the table
  Directories     \* sequences of entries that are encoded

Byte == 0 .. Base - 1
RegularFile == Base - 2
Directory == Base - 1

\* Powers of the base.
Power[n \in 0 .. IntegerLength] == IF n = 0 THEN 1 ELSE Base * Power[n - 1]

\* What encode_entry is called with: the name of a file, which has no zero in
\* it, and a size that is a length_type, 0 for a directory.
EncodableEntry ==
  {entry \in [type : {RegularFile, Directory}, name : Seq(Byte \ {0}),
              hash_code : [1 .. DigestLength -> Byte],
              regular_file_size : 0 .. Power[IntegerLength] - 1] :
     entry.type = Directory => entry.regular_file_size = 0}

ASSUME WidthsAssumption ==
  /\ Base \in Nat /\ Base > 2
  /\ IntegerLength \in Nat
  /\ DigestLength \in Nat
ASSUME BlobsAssumption == Blobs \subseteq Seq(Byte)
ASSUME DirectoriesAssumption == Directories \subseteq Seq(EncodableEntry)

VARIABLES
  source,         \* the entries that were encoded, if the blob comes from there
  blob,           \* the loaded blob
  cursor,         \* the loop's position in it
  decoded,        \* the entries that were decoded
  outcome         \* "decoding", "end", or "throw" for the TO_DO of the loop

vars == <<source, blob, cursor, decoded, outcome>>

-----------------------------------------------------------------------------
(* regular_file::encode_big_endian_integer and decode_big_endian_integer *)

Mod(value) == value % Power[IntegerLength]

EncodeInteger(value) ==
  [i \in 1 .. IntegerLength |-> (value \div Power[IntegerLength - i]) % Base]

DecodeInteger(bytes) ==
  LET result[i \in 0 .. Len(bytes)] ==
        IF i = 0 THEN 0 ELSE Mod(result[i - 1] * Base) + bytes[i]
  IN  result[Len(bytes)]

\* encode_entry; and the defects that every entry gets a size, and that the
\* name is not terminated.
EncodeSizeAlways(entry) ==
  <<entry.type>> \o EncodeInteger(entry.regular_file_size) \o entry.name \o <<0>> \o entry.hash_code
EncodeEntry(entry) ==
  <<entry.type>>
    \o (IF entry.type = RegularFile THEN EncodeInteger(entry.regular_file_size) ELSE <<>>)
    \o entry.name \o <<0>> \o entry.hash_code

EncodeDirectory(entries) == FlattenSeq([i \in DOMAIN entries |-> EncodeEntry(entries[i])])

-----------------------------------------------------------------------------
(* decode_entry *)

\* What a pointer leads to.  Behind the end it may be anything.
At(in) == IF in < Len(blob) THEN blob[in + 1] ELSE 0
BytesAt(in, count) == [i \in 1 .. count |-> At(in + i - 1)]

\* Enough bytes are left; and the defect of one too few.
FitsAlmost(in, count) == count <= Len(blob) - in + 1
Fits(in, count) == count <= Len(blob) - in

\* Where the size of a regular file ends, and the name begins.
NameBegin(in) == in + 1 + (IF At(in) = RegularFile THEN IntegerLength ELSE 0)

Zeros(in) == {z \in NameBegin(in) .. Len(blob) - 1 : At(z) = 0}
NameEnd(in) == CHOOSE z \in Zeros(in) : \A other \in Zeros(in) : z <= other

CanDecode(in) ==
  /\ At(in) \in {RegularFile, Directory}
  /\ Fits(in, NameBegin(in) - in)
  /\ Zeros(in) # {}
  /\ Fits(NameEnd(in) + 1, DigestLength)

Decode(in) ==
  [type |-> At(in),
   name |-> BytesAt(NameBegin(in), NameEnd(in) - NameBegin(in)),
   hash_code |-> BytesAt(NameEnd(in) + 1, DigestLength),
   regular_file_size |->
     IF At(in) = RegularFile THEN DecodeInteger(BytesAt(in + 1, IntegerLength)) ELSE 0]

\* The pointer behind the entry; and the defect that it stays at the digest.
AtDigest(in) == NameEnd(in) + 1
Behind(in) == NameEnd(in) + 1 + DigestLength

-----------------------------------------------------------------------------
Init ==
  /\ \/ source = {} /\ blob \in Blobs
     \/ \E entries \in Directories : source = {entries} /\ blob = EncodeDirectory(entries)
  /\ cursor = 0
  /\ decoded = <<>>
  /\ outcome = "decoding"

\* One iteration of the loop.
NextEntry ==
  /\ outcome = "decoding"
  /\ cursor # Len(blob)
  /\ IF CanDecode(cursor)
     THEN /\ decoded' = Append(decoded, Decode(cursor))
          /\ cursor' = Behind(cursor)
          /\ UNCHANGED outcome
     ELSE outcome' = "throw" /\ UNCHANGED <<decoded, cursor>>
  /\ UNCHANGED <<source, blob>>

LeaveLoop ==
  /\ outcome = "decoding"
  /\ cursor = Len(blob)
  /\ outcome' = "end"
  /\ UNCHANGED <<source, blob, cursor, decoded>>

Next == NextEntry \/ LeaveLoop

Spec == Init /\ [][Next]_vars

-----------------------------------------------------------------------------
\* The loop stays inside of the blob, whatever bytes it is given: `cursor !=
\* end` would not stop it behind the end (operations.cpp:42).
CursorInBlob == cursor \in 0 .. Len(blob)

\* What was encoded is decoded, entry by entry, and never rejected
\* (directory.h:31 against directory.cpp:7).
DecodesWhatWasEncoded ==
  \A entries \in source :
    /\ outcome # "throw"
    /\ outcome = "end" => decoded = entries

\* Nothing else is accepted: a blob that is read to its end, or up to the
\* cursor, is the encoding of what was read.
AcceptsOnlyEncodings == EncodeDirectory(decoded) = SubSeq(blob, 1, cursor)
=============================================================================

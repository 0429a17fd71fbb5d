---------------------------- MODULE MCEncodings ----------------------------
(***************************************************************************)
(* Bytes of four values, two of them the tags; sizes of two bytes, digests *)
(* of one.  Every blob of up to MaxLength bytes is decoded, and every      *)
(* directory of up to two entries with names of up to two bytes is encoded.*)
(*                                                                         *)
(* Texts of digests have real bytes: all digests of one byte, and those of *)
(* two whose digits are 0, 9, 10 or 15; and all texts of up to five        *)
(* characters of these values, in both cases, or that are no digit.        *)
(*                                                                         *)
(* A behaviour decodes one blob or parses one text.                        *)
(***************************************************************************)
EXTENDS DirectoryBytes, HexDigest

CONSTANT MaxLength

MCBlobs == UNION {[1 .. n -> Byte] : n \in 0 .. MaxLength}

Names == UNION {[1 .. n -> Byte \ {0}] : n \in 1 .. 2}
Sizes == {0, 1, Base - 1, Base, Base ^ IntegerLength - 1}
Entry(type, sizes) ==
  [type : {type}, name : Names, hash_code : {<<0>>, <<Directory>>}, regular_file_size : sizes]

Entries == Entry(RegularFile, Sizes) \cup Entry(Directory, {0})
MCDirectories == {<<>>} \cup {<<e>> : e \in Entries} \cup {<<e, f>> : e \in Entries, f \in Entries}

Values == {0, 9, 10, 15}
MCDigests == [1 .. 1 -> 0 .. 255] \cup [1 .. 2 -> {16 * h + l : h \in Values, l \in Values}]
MCTexts == UNION {[1 .. n -> {c \in Characters : c.value \in Values \cup {16}}] : n \in 0 .. 5}

MCInit ==
  \/ Init /\ input = {} /\ result = {}
  \/ HexInit /\ source = {} /\ blob = <<>> /\ cursor = 0 /\ decoded = <<>> /\ outcome = "end"

MCNext ==
  \/ Next /\ UNCHANGED hexVars
  \/ ParseInput /\ UNCHANGED vars

MCSpec == MCInit /\ [][MCNext]_<<vars, hexVars>>
=============================================================================

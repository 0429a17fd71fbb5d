----------------------------- MODULE HexDigest -----------------------------
(***************************************************************************)
(* The text of a digest (blob_layer/hash_code.h and hash_code.cpp):        *)
(* to_string, whose result is the primary key of the table, and            *)
(* parse_sha256_hash_code, which reads a digest that a user or a test      *)
(* gives.                                                                  *)
(*                                                                         *)
(* A character is a number, below sixteen if it is a digit, and a case if  *)
(* it is a letter.  A digest is a sequence of bytes: 32 in the code.       *)
(***************************************************************************)
EXTENDS Integers, Sequences

CONSTANTS
  Digests,        \* digests whose text is parsed
  Texts,          \* texts that are parsed
  TextDigestSize  \* the size of the digest that is parsed from Texts

VARIABLES
  input,          \* the call: a text, the size of the digest to parse, and what
                  \* was printed, if the text comes from there
  result          \* what was returned, if anything yet

hexVars == <<input, result>>

Digit(value, case) == [value |-> value, case |-> IF value > 9 THEN case ELSE "none"]
NoDigit == [value |-> 16, case |-> "none"]
Characters ==
  {Digit(v, "lower") : v \in 0 .. 15} \cup {Digit(v, "upper") : v \in 0 .. 15} \cup {NoDigit}

\* A digest is an array of unsigned char, and a text is a string.
ASSUME DigestsAssumption == Digests \subseteq Seq(0 .. 255)
ASSUME TextsAssumption == Texts \subseteq Seq(Characters) /\ TextDigestSize \in Nat

\* byte_to_hex writes lower case; and the defect of the two digits in the
\* wrong order.
LowFirst(byte) == <<Digit(byte % 16, "lower"), Digit(byte \div 16, "lower")>>
ByteToHex(byte) == <<Digit(byte \div 16, "lower"), Digit(byte % 16, "lower")>>

\* format_bytes
FormatBytes(digest) ==
  [k \in 1 .. 2 * Len(digest) |-> ByteToHex(digest[(k + 1) \div 2])[2 - (k % 2)]]

\* decode_hex_digit knows both cases.  The defect is to forget to add ten to
\* an upper case digit.
DecodeWithoutTen(c) ==
  {IF c.case = "upper" THEN value - 10 ELSE value : value \in {c.value} \cap 0 .. 15}
DecodeHexDigit(c) == {c.value} \cap 0 .. 15

\* The byte that two digits make, if both are digits.
JoinDigits(high, low) == {16 * h + l : h \in high, l \in low}

\* parse_sha256_hash_code: empty for std::nullopt.
Parse(text, size) ==
  LET digits(k) == DecodeHexDigit(text[k])
      byte(k) == JoinDigits(digits(2 * k - 1), digits(2 * k))
  IN  IF Len(text) # 2 * size \/ \E k \in 1 .. size : byte(k) = {}
      THEN {}
      ELSE {[k \in 1 .. size |-> CHOOSE b \in byte(k) : TRUE]}

HexInit ==
  /\ \/ \E digest \in Digests :
          input = {[text |-> FormatBytes(digest), size |-> Len(digest), printed |-> {digest}]}
     \/ \E text \in Texts : input = {[text |-> text, size |-> TextDigestSize, printed |-> {}]}
  /\ result = {}

ParseInput ==
  /\ result = {}
  /\ \E call \in input : result' = {Parse(call.text, call.size)}
  /\ UNCHANGED input

HexSpec == HexInit /\ [][ParseInput]_hexVars

-----------------------------------------------------------------------------
LowerCase(text) ==
  [k \in DOMAIN text |-> IF text[k] = NoDigit THEN NoDigit ELSE Digit(text[k].value, "lower")]

\* The text of a digest is parsed to that digest: two digests never have the
\* same text, so the text may be the primary key (blob_storage.cpp:86).
TextIdentifiesDigest ==
  \A call \in input, parsed \in result : call.printed # {} => parsed = call.printed

\* What is parsed is the text of the result, up to the case of its digits, and
\* whatever is of the right size and made of digits is parsed.
ParsesExactlyDigests ==
  \A call \in input, parsed \in result :
    /\ \A digest \in parsed : FormatBytes(digest) = LowerCase(call.text)
    /\ parsed = {} =>
         Len(call.text) # 2 * call.size \/ \E k \in DOMAIN call.text : call.text[k] = NoDigit
=============================================================================

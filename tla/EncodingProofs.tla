--------------------------- MODULE EncodingProofs ---------------------------
(***************************************************************************)
(* Proofs about the encodings: that the text of a digest says which digest *)
(* it is, and that decode_entry stays inside of the blob it is given.      *)
(***************************************************************************)
EXTENDS HexDigest, DirectoryBytes, SequenceTheorems, TLAPS

\* Lemmas about numbers and recursive functions.  The length of a piece, which
\* does not occur here, is any number that is allowed.
Lemmas == INSTANCE DogboxLemmas WITH PieceLength <- 1

LEMMA OneIsALength == 1 \in Nat \ {0}
  OBVIOUS

-----------------------------------------------------------------------------
(* The text of a digest. *)

LEMMA Positions ==
  ASSUME NEW n \in Nat, NEW j \in 1 .. 2 * n
  PROVE  /\ (j + 1) \div 2 \in 1 .. n
         /\ j % 2 \in {0, 1}
         /\ j % 2 = 1 => j = 2 * ((j + 1) \div 2) - 1
         /\ j % 2 = 0 => j = 2 * ((j + 1) \div 2)
  OBVIOUS

LEMMA PositionsOfByte ==
  ASSUME NEW n \in Nat, NEW k \in 1 .. n
  PROVE  /\ 2 * k - 1 \in 1 .. 2 * n /\ 2 * k \in 1 .. 2 * n
         /\ (2 * k - 1 + 1) \div 2 = k /\ (2 * k - 1) % 2 = 1
         /\ (2 * k + 1) \div 2 = k /\ (2 * k) % 2 = 0
  OBVIOUS

LEMMA Nibbles ==
  ASSUME NEW b \in 0 .. 255
  PROVE  b \div 16 \in 0 .. 15 /\ b % 16 \in 0 .. 15 /\ 16 * (b \div 16) + (b % 16) = b
  OBVIOUS

LEMMA ByteOfNibbles ==
  ASSUME NEW high \in 0 .. 15, NEW low \in 0 .. 15
  PROVE  /\ 16 * high + low \in 0 .. 255
         /\ (16 * high + low) \div 16 = high
         /\ (16 * high + low) % 16 = low
  OBVIOUS

LEMMA DigitIsCharacter ==
  ASSUME NEW v \in 0 .. 15
  PROVE  Digit(v, "lower") \in Characters /\ DecodeHexDigit(Digit(v, "lower")) = {v}
  <1>1. Digit(v, "lower") \in Characters
    BY Zenon DEF Characters
  <1>2. Digit(v, "lower").value = v
    BY DEF Digit
  <1>3. DecodeHexDigit(Digit(v, "lower")) = {v} \cap 0 .. 15
    BY <1>2, Zenon DEF DecodeHexDigit
  <1> QED
    BY <1>1, <1>3

LEMMA CharacterIsDigit ==
  ASSUME NEW c \in Characters
  PROVE  \/ c = NoDigit /\ DecodeHexDigit(c) = {}
         \/ c.value \in 0 .. 15 /\ c # NoDigit /\ DecodeHexDigit(c) = {c.value}
  <1>1. CASE c = NoDigit
    BY <1>1 DEF NoDigit, DecodeHexDigit
  <1>2. ASSUME NEW v \in 0 .. 15, NEW case, c = Digit(v, case)
        PROVE  c.value \in 0 .. 15 /\ c # NoDigit /\ DecodeHexDigit(c) = {c.value}
    <2>1. c.value = v
      BY <1>2 DEF Digit
    <2>2. NoDigit.value = 16 /\ v # 16
      BY DEF NoDigit
    <2>3. DecodeHexDigit(c) = {v} \cap 0 .. 15
      BY <2>1, Zenon DEF DecodeHexDigit
    <2> QED
      BY <2>1, <2>2, <2>3
  <1>3. c = NoDigit \/ \E v \in 0 .. 15 : c = Digit(v, "lower") \/ c = Digit(v, "upper")
    BY Zenon DEF Characters
  <1> QED
    BY <1>1, <1>2, <1>3

LEMMA JoinedDigits ==
  ASSUME NEW High, NEW Low, NEW b
  PROVE  b \in JoinDigits(High, Low) <=> \E h \in High, l \in Low : b = 16 * h + l
  BY SMT DEF JoinDigits

LEMMA OneByte ==
  ASSUME NEW high, NEW low
  PROVE  JoinDigits({high}, {low}) = {16 * high + low}
  <1>1. \A b : b \in JoinDigits({high}, {low}) <=> b = 16 * high + low
    BY JoinedDigits
  <1> QED
    BY <1>1, Zenon

LEMMA NoByte ==
  ASSUME NEW High, NEW Low
  PROVE  JoinDigits(High, Low) = {} <=> High = {} \/ Low = {}
  <1>1. \A b : b \in JoinDigits(High, Low) <=> \E h \in High, l \in Low : b = 16 * h + l
    BY JoinedDigits
  <1> QED
    BY <1>1, Zenon

LEMMA SequenceShape ==
  ASSUME NEW S, NEW s \in Seq(S)
  PROVE  Len(s) \in Nat /\ s \in [1 .. Len(s) -> S] /\ DOMAIN s = 1 .. Len(s)
  OBVIOUS

\* format_bytes writes two digits per byte (hash_code.h).
LEMMA FormattedDigits ==
  ASSUME NEW n \in Nat, NEW digest \in [1 .. n -> 0 .. 255], Len(digest) = n
  PROVE  /\ FormatBytes(digest) \in [1 .. 2 * n -> Characters]
         /\ Len(FormatBytes(digest)) = 2 * n
         /\ \A k \in 1 .. n :
              /\ FormatBytes(digest)[2 * k - 1] = Digit(digest[k] \div 16, "lower")
              /\ FormatBytes(digest)[2 * k] = Digit(digest[k] % 16, "lower")
  <1> DEFINE text == FormatBytes(digest)
  <1>1. text = [j \in 1 .. 2 * n |-> ByteToHex(digest[(j + 1) \div 2])[2 - (j % 2)]]
    BY DEF FormatBytes
  <1>2. ASSUME NEW j \in 1 .. 2 * n
        PROVE  ByteToHex(digest[(j + 1) \div 2])[2 - (j % 2)] \in Characters
    <2>1. digest[(j + 1) \div 2] \in 0 .. 255 /\ 2 - (j % 2) \in {1, 2}
      <3>1. (j + 1) \div 2 \in 1 .. n /\ j % 2 \in {0, 1}
        BY Positions
      <3>2. ASSUME NEW r \in {0, 1} PROVE 2 - r \in {1, 2}
        OBVIOUS
      <3> QED
        BY <3>1, <3>2
    <2>2. \A b \in 0 .. 255 : Digit(b \div 16, "lower") \in Characters /\ Digit(b % 16, "lower") \in Characters
      BY Nibbles, DigitIsCharacter
    <2>3. ASSUME NEW b \in 0 .. 255, NEW i \in {1, 2} PROVE ByteToHex(b)[i] \in Characters
      BY <2>2 DEF ByteToHex
    <2> QED
      BY <2>1, <2>3
  <1>3. text \in [1 .. 2 * n -> Characters]
    BY <1>1, <1>2
  <1>4. ASSUME NEW k \in 1 .. n
        PROVE  /\ text[2 * k - 1] = Digit(digest[k] \div 16, "lower")
               /\ text[2 * k] = Digit(digest[k] % 16, "lower")
    <2>1. /\ 2 * k - 1 \in 1 .. 2 * n /\ 2 * k \in 1 .. 2 * n
          /\ (2 * k - 1 + 1) \div 2 = k /\ (2 * k - 1) % 2 = 1
          /\ (2 * k + 1) \div 2 = k /\ (2 * k) % 2 = 0
      BY PositionsOfByte
    <2>2. text[2 * k - 1] = ByteToHex(digest[k])[2 - 1]
      BY <1>1, <2>1, Zenon
    <2>3. text[2 * k] = ByteToHex(digest[k])[2 - 0]
      BY <1>1, <2>1, Zenon
    <2> QED
      BY <2>2, <2>3 DEF ByteToHex
  <1>5. Len(text) = 2 * n
    BY <1>3
  <1> QED
    BY <1>3, <1>4, <1>5

LEMMA ParseFormatted ==
  ASSUME NEW n \in Nat, NEW digest \in [1 .. n -> 0 .. 255], Len(digest) = n
  PROVE  Parse(FormatBytes(digest), n) = {digest}
  <1> DEFINE text == FormatBytes(digest)
             digits(k) == DecodeHexDigit(text[k])
             byte(k) == JoinDigits(digits(2 * k - 1), digits(2 * k))
  <1>1. ASSUME NEW k \in 1 .. n PROVE byte(k) = {digest[k]}
    <2>1. digest[k] \in 0 .. 255
      OBVIOUS
    <2>2. digits(2 * k - 1) = {digest[k] \div 16} /\ digits(2 * k) = {digest[k] % 16}
      <3>1. text[2 * k - 1] = Digit(digest[k] \div 16, "lower") /\ text[2 * k] = Digit(digest[k] % 16, "lower")
        BY FormattedDigits
      <3> QED
        BY <2>1, <3>1, Nibbles, DigitIsCharacter, Zenon
    <2>3. byte(k) = {16 * (digest[k] \div 16) + (digest[k] % 16)}
      BY <2>2, OneByte
    <2> HIDE DEF byte
    <2> QED
      BY <2>1, <2>3, Nibbles
  <1>2. Len(text) = 2 * n
    BY FormattedDigits
  <1>3. Parse(text, n) =
          IF Len(text) # 2 * n \/ \E k \in 1 .. n : byte(k) = {}
          THEN {}
          ELSE {[k \in 1 .. n |-> CHOOSE b \in byte(k) : TRUE]}
    BY DEF Parse
  <1> HIDE DEF byte, text
  <1>4. \A k \in 1 .. n : byte(k) # {} /\ (CHOOSE b \in byte(k) : TRUE) = digest[k]
    BY <1>1
  <1>5. Parse(text, n) = {[k \in 1 .. n |-> CHOOSE b \in byte(k) : TRUE]}
    BY <1>2, <1>3, <1>4, Zenon
  <1>6. [k \in 1 .. n |-> CHOOSE b \in byte(k) : TRUE] = [k \in 1 .. n |-> digest[k]]
    BY <1>4
  <1> QED
    BY <1>5, <1>6 DEF text

LEMMA ParsedText ==
  ASSUME NEW size \in Nat, NEW text \in Seq(Characters)
  PROVE  /\ \A digest \in Parse(text, size) : FormatBytes(digest) = LowerCase(text)
         /\ Parse(text, size) = {} =>
              Len(text) # 2 * size \/ \E k \in DOMAIN text : text[k] = NoDigit
  <1> DEFINE digits(k) == DecodeHexDigit(text[k])
             byte(k) == JoinDigits(digits(2 * k - 1), digits(2 * k))
  <1>1. Parse(text, size) =
          IF Len(text) # 2 * size \/ \E k \in 1 .. size : byte(k) = {}
          THEN {}
          ELSE {[k \in 1 .. size |-> CHOOSE b \in byte(k) : TRUE]}
    BY DEF Parse
  <1>2. ASSUME NEW c \in Characters
        PROVE  \/ c = NoDigit /\ DecodeHexDigit(c) = {}
               \/ /\ c.value \in 0 .. 15 /\ c # NoDigit
                  /\ DecodeHexDigit(c) = {c.value}
    BY CharacterIsDigit
  <1>3. CASE Len(text) # 2 * size
    <2>1. Parse(text, size) = {}
      BY <1>1, <1>3, Zenon
    <2> QED
      BY <1>3, <2>1
  <1>4. CASE Len(text) = 2 * size
    <2>1. \A j \in 1 .. 2 * size : text[j] \in Characters /\ j \in DOMAIN text
      BY <1>4
    <2>2. ASSUME NEW k \in 1 .. size, byte(k) = {} PROVE \E j \in DOMAIN text : text[j] = NoDigit
      <3>1. 2 * k - 1 \in 1 .. 2 * size /\ 2 * k \in 1 .. 2 * size
        BY PositionsOfByte
      <3>2. JoinDigits(digits(2 * k - 1), digits(2 * k)) = {}
        BY <2>2
      <3>3. digits(2 * k - 1) = {} \/ digits(2 * k) = {}
        <4> HIDE DEF digits
        <4> QED
          BY <3>2, NoByte, ZenonT(30)
      <3> QED
        BY <1>2, <2>1, <3>1, <3>3
    <2>3. ASSUME \A k \in 1 .. size : byte(k) # {},
                 NEW digest, digest = [k \in 1 .. size |-> CHOOSE b \in byte(k) : TRUE]
          PROVE  FormatBytes(digest) = LowerCase(text)
      <3>1. ASSUME NEW k \in 1 .. size
            PROVE  /\ text[2 * k - 1].value \in 0 .. 15 /\ text[2 * k].value \in 0 .. 15
                   /\ text[2 * k - 1] # NoDigit /\ text[2 * k] # NoDigit
                   /\ digest[k] \in 0 .. 255
                   /\ digest[k] \div 16 = text[2 * k - 1].value
                   /\ digest[k] % 16 = text[2 * k].value
        <4>1. 2 * k - 1 \in 1 .. 2 * size /\ 2 * k \in 1 .. 2 * size
          BY PositionsOfByte
        <4>2. text[2 * k - 1] \in Characters /\ text[2 * k] \in Characters
          BY <2>1, <4>1
        <4>3. digits(2 * k - 1) # {} /\ digits(2 * k) # {}
          <5>1. byte(k) # {}
            BY <2>3
          <5> QED
            BY <5>1, NoByte
        <4>4. /\ text[2 * k - 1].value \in 0 .. 15 /\ text[2 * k].value \in 0 .. 15
              /\ text[2 * k - 1] # NoDigit /\ text[2 * k] # NoDigit
              /\ digits(2 * k - 1) = {text[2 * k - 1].value}
              /\ digits(2 * k) = {text[2 * k].value}
          BY <1>2, <4>2, <4>3
        <4>5. byte(k) = {16 * text[2 * k - 1].value + text[2 * k].value}
          BY <4>4, OneByte
        <4>6. digest[k] = CHOOSE b \in byte(k) : TRUE
          BY <2>3
        <4> HIDE DEF byte
        <4>7. digest[k] = 16 * text[2 * k - 1].value + text[2 * k].value
          BY <4>5, <4>6
        <4> DEFINE high == text[2 * k - 1].value
                   low == text[2 * k].value
        <4>8. high \in 0 .. 15 /\ low \in 0 .. 15 /\ digest[k] = 16 * high + low
          BY <4>4, <4>7
        <4> HIDE DEF high, low
        <4>9. digest[k] \in 0 .. 255 /\ digest[k] \div 16 = high /\ digest[k] % 16 = low
          BY <4>8, ByteOfNibbles
        <4> QED
          BY <4>4, <4>9 DEF high, low
      <3>2. digest \in [1 .. size -> 0 .. 255] /\ Len(digest) = size
        <4>1. digest \in [1 .. size -> 0 .. 255]
          BY <2>3, <3>1
        <4> QED
          BY <4>1
      <3>3. /\ FormatBytes(digest) \in [1 .. 2 * size -> Characters]
            /\ \A k \in 1 .. size :
                 /\ FormatBytes(digest)[2 * k - 1] = Digit(digest[k] \div 16, "lower")
                 /\ FormatBytes(digest)[2 * k] = Digit(digest[k] % 16, "lower")
        BY <3>2, FormattedDigits
      <3>4. DOMAIN text = 1 .. 2 * size
        BY <1>4
      <3>5. LowerCase(text) =
              [j \in 1 .. 2 * size |->
                 IF text[j] = NoDigit THEN NoDigit ELSE Digit(text[j].value, "lower")]
        BY <3>4 DEF LowerCase
      <3>6. ASSUME NEW j \in 1 .. 2 * size
            PROVE  FormatBytes(digest)[j] =
                     IF text[j] = NoDigit THEN NoDigit ELSE Digit(text[j].value, "lower")
        <4>1. PICK k \in 1 .. size : j = 2 * k - 1 \/ j = 2 * k
          BY Positions
        <4> QED
          BY <3>1, <3>3, <4>1
      <3> QED
        BY <3>3, <3>5, <3>6
    <2>4. CASE \E k \in 1 .. size : byte(k) = {}
      <3>1. Parse(text, size) = {}
        BY <1>1, <2>4, Zenon
      <3> QED
        BY <2>2, <2>4, <3>1
    <2>5. CASE \A k \in 1 .. size : byte(k) # {}
      <3>1. Parse(text, size) = {[k \in 1 .. size |-> CHOOSE b \in byte(k) : TRUE]}
        BY <1>1, <1>4, <2>5, Zenon
      <3> HIDE DEF byte
      <3> QED
        BY <2>3, <2>5, <3>1
    <2> QED
      BY <2>4, <2>5, Zenon
  <1> QED
    BY <1>3, <1>4

\* There is one call, and its answer is the one of parse_sha256_hash_code.
HexInv ==
  /\ \A call \in input :
       /\ call.text \in Seq(Characters) /\ call.size \in Nat
       /\ \A digest \in call.printed :
            /\ digest \in [1 .. call.size -> 0 .. 255] /\ Len(digest) = call.size
            /\ call.text = FormatBytes(digest) /\ call.printed = {digest}
  /\ \A call \in input, other \in input : call = other
  /\ \A call \in input, parsed \in result : parsed = Parse(call.text, call.size)

LEMMA HexInitially == ASSUME HexInit PROVE HexInv
  <1>1. CASE \E text \in Texts :
               input = {[text |-> text, size |-> TextDigestSize, printed |-> {}]}
    BY <1>1, TextsAssumption DEF HexInit, HexInv
  <1>2. ASSUME NEW digest \in Digests,
               input = {[text |-> FormatBytes(digest), size |-> Len(digest), printed |-> {digest}]}
        PROVE  HexInv
    <2>1. digest \in Seq(0 .. 255)
      BY DigestsAssumption
    <2> DEFINE n == Len(digest)
    <2>2. n \in Nat /\ digest \in [1 .. n -> 0 .. 255] /\ n = Len(digest)
      BY <2>1, SequenceShape
    <2> HIDE DEF n
    <2>3. FormatBytes(digest) \in [1 .. 2 * n -> Characters]
      BY <2>2, FormattedDigits
    <2>4. FormatBytes(digest) \in Seq(Characters)
      <3>1. 2 * n \in Nat
        BY <2>2
      <3> QED
        BY <2>3, <3>1
    <2> QED
      BY <1>2, <2>2, <2>4 DEF HexInit, HexInv
  <1> QED
    BY <1>1, <1>2 DEF HexInit

LEMMA HexNext == ASSUME HexInv, [ParseInput]_hexVars PROVE HexInv'
  <1>1. CASE UNCHANGED hexVars
    BY <1>1 DEF HexInv, hexVars
  <1>2. CASE ParseInput
    <2>1. PICK call \in input : result' = {Parse(call.text, call.size)}
      BY <1>2 DEF ParseInput
    <2>2. input' = input /\ \A other \in input : other = call
      BY <1>2 DEF ParseInput, HexInv
    <2> QED
      BY <2>1, <2>2, Zenon DEF HexInv
  <1> QED
    BY <1>1, <1>2

\* to_string and parse_sha256_hash_code (hash_code.h, hash_code.cpp): digests
\* of any size are told apart by their text.
THEOREM TextsIdentifyDigests == HexSpec => []TextIdentifiesDigest
  <1>1. HexInv => TextIdentifiesDigest
    <2> SUFFICES ASSUME HexInv, NEW call \in input, NEW parsed \in result, call.printed # {}
        PROVE  parsed = call.printed
      BY DEF TextIdentifiesDigest
    <2>1. PICK digest \in call.printed : TRUE
      OBVIOUS
    <2>2. /\ call.size \in Nat /\ digest \in [1 .. call.size -> 0 .. 255]
          /\ Len(digest) = call.size /\ call.text = FormatBytes(digest)
          /\ call.printed = {digest} /\ parsed = Parse(call.text, call.size)
      BY DEF HexInv
    <2> QED
      BY <2>2, ParseFormatted
  <1> QED
    BY <1>1, HexInitially, HexNext, PTL DEF HexSpec

\* A text of any length is parsed exactly if it is the text of a digest of the
\* size asked for, up to the case of its digits.
THEOREM DigestsAreParsedExactly == HexSpec => []ParsesExactlyDigests
  <1>1. HexInv => ParsesExactlyDigests
    <2> SUFFICES ASSUME HexInv, NEW call \in input, NEW parsed \in result
        PROVE  /\ \A digest \in parsed : FormatBytes(digest) = LowerCase(call.text)
               /\ parsed = {} =>
                    Len(call.text) # 2 * call.size \/ \E k \in DOMAIN call.text : call.text[k] = NoDigit
      BY DEF ParsesExactlyDigests
    <2>1. parsed = Parse(call.text, call.size) /\ call.text \in Seq(Characters) /\ call.size \in Nat
      BY DEF HexInv
    <2> QED
      BY <2>1, ParsedText
  <1> QED
    BY <1>1, HexInitially, HexNext, PTL DEF HexSpec

-----------------------------------------------------------------------------
(***************************************************************************)
(* Big endian integers: a value that fits and its bytes determine each     *)
(* other.                                                                  *)
(***************************************************************************)

LEMMA Widths == Base \in Nat \ {0} /\ Base > 2 /\ IntegerLength \in Nat /\ DigestLength \in Nat
  BY WidthsAssumption

LEMMA PowerFacts ==
  /\ Power[0] = 1
  /\ \A n \in 0 .. IntegerLength : Power[n] \in Nat \ {0}
  /\ \A n \in 1 .. IntegerLength : Power[n] = Base * Power[n - 1]
  <1> DEFINE L == IntegerLength
             U == Nat \ {0}
             step == [x \in Nat \X U |-> Base * x[2]]
             IsPower(p) == p = [n \in 0 .. L |-> IF n = 0 THEN 1 ELSE Base * p[n - 1]]
  <1>1. step \in [Nat \X U -> U] /\ 1 \in U
    <2>1. \A x \in U : Base * x \in U
      BY Widths
    <2> QED
      BY <2>1
  <1>2. PICK f \in [0 .. L -> U] : Lemmas!IsRecursive(f, 1, step, L)
    <2>1. L \in Nat
      BY Widths
    <2> HIDE DEF U, step, L
    <2> QED
      BY <1>1, <2>1, OneIsALength, Lemmas!RecursionExists
  <1>3. \A i \in 0 .. L : i # 0 => step[<<i, f[i - 1]>>] = Base * f[i - 1]
    <2>1. ASSUME NEW i \in 0 .. L, i # 0 PROVE step[<<i, f[i - 1]>>] = Base * f[i - 1]
      <3>1. i \in Nat /\ i - 1 \in 0 .. L
        BY <2>1, Widths
      <3> QED
        BY <3>1
    <2> QED
      BY <2>1
  <1> HIDE DEF step
  <1>4. IsPower(f)
    BY <1>2, <1>3 DEF Lemmas!IsRecursive
  <1>5. Power = CHOOSE p : IsPower(p)
    BY Zenon DEF Power
  <1>6. IsPower(Power)
    BY <1>4, <1>5, Zenon
  <1> DEFINE Bad == {n \in 0 .. L : Power[n] \notin U}
  <1>7. \A n \in 0 .. L : Power[n] = IF n = 0 THEN 1 ELSE Base * Power[n - 1]
    BY <1>6, Zenon
  <1>8. Bad = {}
    <2> SUFFICES ASSUME Bad # {} PROVE FALSE
      OBVIOUS
    <2>1. Bad \subseteq Nat
      BY Widths
    <2>2. PICK m \in Bad : \A k \in Bad : m <= k
      <3> HIDE DEF Bad
      <3> QED
        BY <2>1, OneIsALength, Lemmas!LeastNumber, Zenon
    <2>3. m \in 0 .. L /\ Power[m] \notin U
      OBVIOUS
    <2>4. m # 0 /\ m - 1 \in 0 .. L
      BY <1>7, <2>3, Widths
    <2>5. ~ (m <= m - 1)
      BY <2>4
    <2>6. Power[m - 1] \in U
      BY <2>2, <2>4, <2>5
    <2>7. Power[m] = Base * Power[m - 1]
      BY <1>7, <2>3, <2>4
    <2> QED
      BY <2>3, <2>6, <2>7, Widths
  <1>9. \A n \in 0 .. L : Power[n] \in U
    BY <1>8
  <1>10. 0 \in 0 .. L /\ \A n \in 1 .. L : n \in 0 .. L /\ n # 0
    BY Widths
  <1> QED
    BY <1>7, <1>9, <1>10

LEMMA QuotientOfSum ==
  ASSUME NEW n \in Nat \ {0}, NEW q \in Nat, NEW r \in 0 .. n - 1
  PROVE  (n * q + r) \div n = q /\ (n * q + r) % n = r
  <1>1. n * q \in Nat
    OBVIOUS
  <1>2. PICK i \in Nat : i = n * q + r
    BY <1>1
  <1>3. PICK p \in Nat, s \in 0 .. n - 1 : p = i \div n /\ s = i % n /\ i = n * p + s
    BY Lemmas!Division
  <1>4. p = q /\ s = r
    BY <1>2, <1>3, Lemmas!UniqueDivision
  <1> QED
    BY <1>2, <1>3, <1>4

LEMMA NestedDivision ==
  ASSUME NEW v \in Nat, NEW b \in Nat \ {0}, NEW p \in Nat \ {0}
  PROVE  v \div (b * p) = (v \div p) \div b
  <1>1. PICK q \in Nat, r \in 0 .. p - 1 : q = v \div p /\ r = v % p /\ v = p * q + r
    BY Lemmas!Division
  <1>2. PICK c \in Nat, s \in 0 .. b - 1 : c = q \div b /\ s = q % b /\ q = b * c + s
    BY Lemmas!Division
  <1>3. p * s \in Nat /\ p * s <= p * (b - 1) /\ b * p \in Nat \ {0}
    <2>1. PICK d \in Nat : b - 1 = s + d
      BY <1>2
    <2>2. p * (s + d) = p * s + p * d /\ p * d \in Nat /\ p * s \in Nat
      BY <1>2
    <2> QED
      BY <2>1, <2>2
  <1>4. p * s + r \in 0 .. b * p - 1
    <2>1. p * (b - 1) = b * p - p
      OBVIOUS
    <2> QED
      BY <1>1, <1>3, <2>1
  <1>5. v = (b * p) * c + (p * s + r)
    <2>1. PICK d \in Nat, w \in Nat : d = c /\ w = s
      BY <1>2
    <2>2. p * (b * d + w) = (b * p) * d + p * w
      OBVIOUS
    <2>3. v = p * (b * c + s) + r
      BY <1>1, <1>2
    <2>4. (b * p) * d \in Nat /\ p * w \in Nat
      BY <1>2
    <2> QED
      BY <1>1, <2>1, <2>2, <2>3, <2>4
  <1>6. (b * p) \in Nat \ {0}
    BY <1>3
  <1> DEFINE n == b * p
             t == p * s + r
  <1>7. n \in Nat \ {0} /\ t \in 0 .. n - 1 /\ v = n * c + t
    BY <1>4, <1>5, <1>6
  <1> HIDE DEF n, t
  <1>8. v \div n = c
    BY <1>7, QuotientOfSum
  <1> QED
    BY <1>1, <1>2, <1>8 DEF n

LEMMA PowerGrows ==
  ASSUME NEW m \in 0 .. IntegerLength
  PROVE  Power[m] <= Power[IntegerLength]
  <1> DEFINE L == IntegerLength
             Below(n) == n \in m .. L /\ ~ (Power[m] <= Power[n])
             Bad == {n \in 0 .. L : Below(n)}
  <1>1. Bad = {}
    <2> SUFFICES ASSUME Bad # {} PROVE FALSE
      OBVIOUS
    <2>1. Bad \subseteq Nat
      BY Widths
    <2>2. PICK n \in Bad : \A k \in Bad : n <= k
      <3> HIDE DEF Bad
      <3> QED
        BY <2>1, OneIsALength, Lemmas!LeastNumber, Zenon
    <2>3. n \in 0 .. L /\ Below(n)
      OBVIOUS
    <2>4. n # m
      BY <2>3, Widths, PowerFacts
    <2>5. n - 1 \in 0 .. L /\ n - 1 \in m .. L /\ n \in 1 .. L /\ ~ (n <= n - 1)
      BY <2>3, <2>4, Widths
    <2>6. Power[m] <= Power[n - 1]
      BY <2>2, <2>5
    <2>7. PICK p \in Nat, q \in Nat : p = Power[m] /\ q = Power[n - 1] /\ Power[n] = Base * q
      BY <2>5, PowerFacts
    <2>8. q <= Base * q
      <3>1. PICK d \in Nat : Base = 1 + d
        BY Widths
      <3>2. (1 + d) * q = q + d * q /\ d * q \in Nat
        OBVIOUS
      <3> QED
        BY <3>1, <3>2
    <2> QED
      BY <2>3, <2>6, <2>7, <2>8, Widths
  <1>2. L \in 0 .. L /\ L \in m .. L
    BY Widths
  <1> QED
    BY <1>1, <1>2

LEMMA RoomAbove ==
  ASSUME NEW a \in Nat, NEW p \in Nat, a < p
  PROVE  \E d \in Nat : p = a + 1 + d
  <1>1. p - a - 1 \in Nat /\ p = a + 1 + (p - a - 1)
    OBVIOUS
  <1> QED
    BY <1>1

LEMMA OneMoreDigit ==
  ASSUME NEW c \in Nat, NEW base \in Nat, NEW limit \in Nat, NEW d \in 0 .. base - 1,
         c + base <= limit
  PROVE  c + d \in Nat /\ c + d < limit
  OBVIOUS

\* decode_big_endian_integer never overflows.
LEMMA DecodingSteps ==
  ASSUME NEW bytes \in [1 .. IntegerLength -> Byte], Len(bytes) = IntegerLength
  PROVE  \E f \in [0 .. IntegerLength -> Nat] :
           /\ f[0] = 0
           /\ \A i \in 1 .. IntegerLength : f[i] = Base * f[i - 1] + bytes[i]
           /\ \A i \in 0 .. IntegerLength : f[i] < Power[i]
           /\ f[IntegerLength] = DecodeInteger(bytes)
  <1> DEFINE L == IntegerLength
             step == [x \in Nat \X Nat |-> IF x[1] \in 1 .. L THEN Mod(x[2] * Base) + bytes[x[1]] ELSE 0]
             IsResult(f) == f = [i \in 0 .. L |-> IF i = 0 THEN 0 ELSE Mod(f[i - 1] * Base) + bytes[i]]
  <1>0. L \in Nat /\ Base \in Nat \ {0} /\ \A i \in 1 .. L : bytes[i] \in 0 .. Base - 1
    BY Widths DEF Byte
  <1>1. \A x \in Nat : Mod(x * Base) \in Nat
    <2>1. Power[L] \in Nat \ {0}
      BY <1>0, PowerFacts
    <2>2. ASSUME NEW x \in Nat PROVE Mod(x * Base) \in Nat
      <3>1. PICK y \in Nat : y = x * Base
        BY <1>0
      <3>2. y % Power[L] \in Nat
        BY <2>1
      <3> QED
        BY <3>1, <3>2 DEF Mod
    <2> QED
      BY <2>2
  <1>2. step \in [Nat \X Nat -> Nat]
    <2>1. ASSUME NEW i \in 1 .. L, NEW x \in Nat PROVE Mod(x * Base) + bytes[i] \in Nat
      <3>1. PICK c \in Nat, d \in Nat : c = Mod(x * Base) /\ d = bytes[i]
        <4>1. Mod(x * Base) \in Nat
          BY <1>1
        <4>2. bytes[i] \in Nat
          BY <1>0
        <4> QED
          BY <4>1, <4>2
      <3> QED
        BY <3>1
    <2>2. ASSUME NEW i \in Nat, NEW x \in Nat
          PROVE  (IF i \in 1 .. L THEN Mod(x * Base) + bytes[i] ELSE 0) \in Nat
      BY <2>1
    <2> QED
      BY <2>2
  <1>3. PICK f \in [0 .. L -> Nat] : Lemmas!IsRecursive(f, 0, step, L)
    <2> HIDE DEF step, L
    <2> QED
      BY <1>0, <1>2, OneIsALength, Lemmas!RecursionExists
  <1>4. \A i \in 0 .. L : i # 0 => step[<<i, f[i - 1]>>] = Mod(f[i - 1] * Base) + bytes[i]
    <2>1. ASSUME NEW i \in 0 .. L, i # 0 PROVE step[<<i, f[i - 1]>>] = Mod(f[i - 1] * Base) + bytes[i]
      <3>1. i \in Nat /\ i - 1 \in 0 .. L /\ i \in 1 .. L
        BY <1>0, <2>1
      <3> QED
        BY <3>1
    <2> QED
      BY <2>1
  <1> HIDE DEF step
  <1>5. IsResult(f)
    BY <1>3, <1>4 DEF Lemmas!IsRecursive
  <1>6. PICK g : IsResult(g) /\ g[L] = DecodeInteger(bytes)
    <2> DEFINE g == CHOOSE g : IsResult(g)
    <2>1. IsResult(g)
      BY <1>5, Zenon
    <2>2. DecodeInteger(bytes) = g[L]
      BY Zenon DEF DecodeInteger
    <2> HIDE DEF g
    <2> QED
      BY <2>1, <2>2, Zenon
  <1>7. \A i \in 0 .. L : g[i] = IF i = 0 THEN 0 ELSE Mod(g[i - 1] * Base) + bytes[i]
    BY <1>6, Zenon
  <1> DEFINE Good(i) == /\ g[i] \in Nat /\ g[i] < Power[i]
                        /\ i # 0 => g[i] = Base * g[i - 1] + bytes[i]
             Bad == {i \in 0 .. L : ~ Good(i)}
  <1>8. Bad = {}
    <2> SUFFICES ASSUME Bad # {} PROVE FALSE
      OBVIOUS
    <2>1. Bad \subseteq Nat
      BY <1>0
    <2>2. PICK m \in Bad : \A k \in Bad : m <= k
      <3> HIDE DEF Bad
      <3> QED
        BY <2>1, OneIsALength, Lemmas!LeastNumber, Zenon
    <2>3. m \in 0 .. L /\ ~ Good(m)
      OBVIOUS
    <2>4. m # 0
      BY <1>0, <1>7, <2>3, PowerFacts
    <2>5. m - 1 \in 0 .. L /\ ~ (m <= m - 1) /\ m \in 1 .. L
      BY <1>0, <2>3, <2>4
    <2>6. Good(m - 1)
      BY <2>2, <2>5
    <2>7. PICK a \in Nat, p \in Nat \ {0} : a = g[m - 1] /\ p = Power[m - 1] /\ a < p
      BY <2>5, <2>6, PowerFacts
    <2> PICK Full \in Nat \ {0}, P \in Nat \ {0} : Full = Power[L] /\ P = Power[m]
      <3>1. L \in 0 .. L
        BY <1>0
      <3> QED
        BY <2>5, <3>1, PowerFacts
    <2>8. a * Base + Base <= P /\ a * Base \in Nat
      <3>1. P = Base * p
        BY <2>5, <2>7, PowerFacts
      <3>2. PICK b \in Nat, d \in Nat : b = Base /\ p = a + 1 + d
        <4>1. \E d \in Nat : p = a + 1 + d
          BY <2>7, RoomAbove, Zenon
        <4> QED
          BY <1>0, <4>1
      <3>3. b * (a + 1 + d) = a * b + b + b * d /\ b * d \in Nat /\ a * b \in Nat
        OBVIOUS
      <3> QED
        BY <3>1, <3>2, <3>3
    <2>9. P <= Full
      BY <2>5, PowerGrows
    <2>10. Mod(a * Base) = a * Base
      <3>1. PICK c \in Nat : c = a * Base /\ c + Base <= P
        BY <2>8
      <3>2. c \in 0 .. Full - 1
        BY <1>0, <2>9, <3>1
      <3>3. c % Full = c
        BY <3>2, OneIsALength, Lemmas!RemainderOfSmall
      <3> QED
        BY <3>1, <3>3 DEF Mod
    <2>11. g[m] = a * Base + bytes[m]
      BY <1>7, <2>3, <2>4, <2>7, <2>10
    <2>12. g[m] = Base * g[m - 1] + bytes[m]
      <3>1. a * Base = Base * a
        BY <1>0
      <3> QED
        BY <2>7, <2>11, <3>1
    <2>13. g[m] \in Nat /\ g[m] < Power[m]
      <3>1. PICK c \in Nat : c = a * Base /\ c + Base <= P
        BY <2>8
      <3>2. PICK d \in 0 .. Base - 1 : d = bytes[m]
        BY <1>0, <2>5
      <3>3. g[m] = c + d
        BY <2>11, <3>1, <3>2
      <3>4. c + d \in Nat /\ c + d < P
        <4>1. Base \in Nat
          BY <1>0
        <4> QED
          BY <3>1, <4>1, OneMoreDigit, Zenon
      <3> QED
        BY <3>3, <3>4
    <2> QED
      BY <2>3, <2>12, <2>13
  <1>9. \A i \in 0 .. L : Good(i)
    BY <1>8
  <1>10. g[0] = 0 /\ g \in [0 .. L -> Nat]
    <2>1. g[0] = 0
      BY <1>0, <1>7
    <2> QED
      BY <1>6, <1>9, <2>1
  <1>11. \A i \in 1 .. L : i \in 0 .. L /\ i # 0
    BY <1>0
  <1> QED
    BY <1>6, <1>9, <1>10, <1>11

\* decode_big_endian_integer after encode_big_endian_integer.
LEMMA IntegersAreDecoded ==
  ASSUME NEW value \in 0 .. Power[IntegerLength] - 1
  PROVE  /\ EncodeInteger(value) \in [1 .. IntegerLength -> Byte]
         /\ Len(EncodeInteger(value)) = IntegerLength
         /\ DecodeInteger(EncodeInteger(value)) = value
  <1> DEFINE L == IntegerLength
             bytes == EncodeInteger(value)
  <1>1. L \in Nat /\ Base \in Nat \ {0} /\ L \in 0 .. L /\ 0 \in 0 .. L
    BY Widths
  <1>2. value \in Nat /\ value < Power[L]
    BY <1>1, PowerFacts
  <1>3. ASSUME NEW i \in 0 .. L PROVE L - i \in 0 .. L /\ value \div Power[L - i] \in Nat
    <2>1. L - i \in 0 .. L
      BY <1>1
    <2>2. PICK p \in Nat \ {0} : p = Power[L - i]
      BY <2>1, PowerFacts
    <2>3. value \div p \in Nat
      BY <1>2, OneIsALength, Lemmas!Division
    <2> QED
      BY <2>1, <2>2, <2>3
  <1>4. bytes = [i \in 1 .. L |-> (value \div Power[L - i]) % Base]
    BY DEF EncodeInteger
  <1>5. ASSUME NEW i \in 1 .. L PROVE (value \div Power[L - i]) % Base \in 0 .. Base - 1
    <2>1. PICK q \in Nat : q = value \div Power[L - i]
      BY <1>1, <1>3
    <2> QED
      BY <1>1, <2>1, OneIsALength, Lemmas!Division
  <1>6. bytes \in [1 .. L -> Byte] /\ Len(bytes) = L
    <2>1. bytes \in [1 .. L -> Byte]
      BY <1>4, <1>5 DEF Byte
    <2> HIDE DEF bytes
    <2> QED
      BY <1>1, <2>1
  <1> HIDE DEF bytes
  <1>7. PICK f \in [0 .. L -> Nat] :
          /\ f[0] = 0
          /\ \A i \in 1 .. L : f[i] = Base * f[i - 1] + bytes[i]
          /\ f[L] = DecodeInteger(bytes)
    BY <1>6, DecodingSteps
  <1> DEFINE Bad == {i \in 0 .. L : f[i] # value \div Power[L - i]}
  <1>8. Bad = {}
    <2> SUFFICES ASSUME Bad # {} PROVE FALSE
      OBVIOUS
    <2>1. Bad \subseteq Nat
      BY <1>1
    <2>2. PICK m \in Bad : \A k \in Bad : m <= k
      <3> HIDE DEF Bad
      <3> QED
        BY <2>1, OneIsALength, Lemmas!LeastNumber, Zenon
    <2>3. m \in 0 .. L /\ f[m] # value \div Power[L - m]
      OBVIOUS
    <2>4. m # 0
      <3>1. value \div Power[L] = 0
        <4>1. PICK p \in Nat \ {0} : p = Power[L] /\ value \in 0 .. p - 1
          BY <1>1, <1>2, PowerFacts
        <4>2. value \div p = 0
          BY <4>1
        <4> QED
          BY <4>1, <4>2
      <3>2. L - 0 = L
        BY <1>1
      <3> QED
        BY <1>7, <2>3, <3>1, <3>2
    <2>5. m - 1 \in 0 .. L /\ ~ (m <= m - 1) /\ m \in 1 .. L /\ L - (m - 1) = (L - m) + 1
      BY <1>1, <2>3, <2>4
    <2>6. f[m - 1] = value \div Power[L - (m - 1)]
      BY <2>2, <2>5
    <2>7. PICK p \in Nat \ {0} : p = Power[L - m] /\ Power[L - (m - 1)] = Base * p
      <3>1. L - m \in 0 .. L /\ L - (m - 1) \in 1 .. L /\ (L - (m - 1)) - 1 = L - m
        BY <1>1, <2>5
      <3> QED
        BY <3>1, PowerFacts
    <2>8. PICK q \in Nat : q = value \div p
      BY <1>3, <2>3, <2>7
    <2>9. f[m - 1] = q \div Base
      <3>1. value \div (Base * p) = (value \div p) \div Base
        BY <1>1, <1>2, NestedDivision
      <3> QED
        BY <2>6, <2>7, <2>8, <3>1, Zenon
    <2>10. bytes[m] = q % Base
      BY <1>4, <2>5, <2>7, <2>8
    <2>11. q = Base * (q \div Base) + (q % Base)
      BY <1>1, OneIsALength, Lemmas!Division
    <2> QED
      BY <1>7, <2>3, <2>5, <2>7, <2>8, <2>9, <2>10, <2>11, Zenon
  <1>9. f[L] = value \div Power[0]
    <2>1. L - L = 0
      BY <1>1
    <2> QED
      BY <1>1, <1>8, <2>1
  <1>10. value \div 1 = value
    BY <1>2
  <1> QED
    BY <1>6, <1>7, <1>9, <1>10, PowerFacts DEF bytes

\* encode_big_endian_integer after decode_big_endian_integer.
LEMMA IntegersAreEncodedAgain ==
  ASSUME NEW bytes \in [1 .. IntegerLength -> Byte], Len(bytes) = IntegerLength
  PROVE  /\ DecodeInteger(bytes) \in 0 .. Power[IntegerLength] - 1
         /\ EncodeInteger(DecodeInteger(bytes)) = bytes
  <1> DEFINE L == IntegerLength
  <1>1. L \in Nat /\ Base \in Nat \ {0} /\ L \in 0 .. L /\ 0 \in 0 .. L
    BY Widths
  <1>2. PICK f \in [0 .. L -> Nat] :
          /\ f[0] = 0
          /\ \A i \in 1 .. L : f[i] = Base * f[i - 1] + bytes[i]
          /\ \A i \in 0 .. L : f[i] < Power[i]
          /\ f[L] = DecodeInteger(bytes)
    BY DecodingSteps
  <1>3. PICK value \in Nat : value = f[L] /\ value = DecodeInteger(bytes) /\ value < Power[L]
    BY <1>1, <1>2
  <1>4. ASSUME NEW i \in 1 .. L PROVE f[i] \div Base = f[i - 1] /\ f[i] % Base = bytes[i]
    <2>1. PICK q \in Nat, r \in 0 .. Base - 1 : q = f[i - 1] /\ r = bytes[i] /\ f[i] = Base * q + r
      <3>1. i - 1 \in 0 .. L
        BY <1>1
      <3>2. bytes[i] \in 0 .. Base - 1
        BY DEF Byte
      <3> QED
        BY <1>2, <3>1, <3>2
    <2>2. (Base * q + r) \div Base = q /\ (Base * q + r) % Base = r
      BY <1>1, QuotientOfSum
    <2> QED
      BY <2>1, <2>2, Zenon
  <1> DEFINE Bad == {i \in 0 .. L : value \div Power[i] # f[L - i]}
  <1>5. Bad = {}
    <2> SUFFICES ASSUME Bad # {} PROVE FALSE
      OBVIOUS
    <2>1. Bad \subseteq Nat
      BY <1>1
    <2>2. PICK m \in Bad : \A k \in Bad : m <= k
      <3> HIDE DEF Bad
      <3> QED
        BY <2>1, OneIsALength, Lemmas!LeastNumber, Zenon
    <2>3. m \in 0 .. L /\ value \div Power[m] # f[L - m]
      OBVIOUS
    <2>4. m # 0
      <3>1. value \div 1 = value /\ L - 0 = L
        BY <1>1
      <3> QED
        BY <1>3, <2>3, <3>1, PowerFacts
    <2>5. /\ m - 1 \in 0 .. L /\ ~ (m <= m - 1) /\ m \in 1 .. L
          /\ L - (m - 1) \in 1 .. L /\ (L - (m - 1)) - 1 = L - m
      BY <1>1, <2>3, <2>4
    <2>6. value \div Power[m - 1] = f[L - (m - 1)]
      BY <2>2, <2>5
    <2>7. PICK p \in Nat \ {0} : p = Power[m - 1] /\ Power[m] = Base * p
      BY <2>5, PowerFacts
    <2>8. value \div (Base * p) = (value \div p) \div Base
      BY <1>1, NestedDivision
    <2>9. f[L - (m - 1)] \div Base = f[L - m]
      BY <1>4, <2>5
    <2> QED
      BY <2>3, <2>6, <2>7, <2>8, <2>9, Zenon
  <1>6. ASSUME NEW i \in 1 .. L PROVE (value \div Power[L - i]) % Base = bytes[i]
    <2>1. L - i \in 0 .. L /\ L - (L - i) = i
      BY <1>1
    <2>2. value \div Power[L - i] = f[i]
      BY <1>5, <2>1
    <2> QED
      BY <1>4, <2>2
  <1>7. EncodeInteger(value) = bytes
    BY <1>6 DEF EncodeInteger
  <1> QED
    BY <1>1, <1>3, <1>7, PowerFacts

-----------------------------------------------------------------------------
(***************************************************************************)
(* Entries (encode_entry and decode_entry).                                *)
(***************************************************************************)

HeaderSize(type) == 1 + (IF type = RegularFile THEN IntegerLength ELSE 0)
EntrySize(entry) == HeaderSize(entry.type) + Len(entry.name) + 1 + DigestLength

\* The bytes behind position `at` are those of the entry.
EncodedAt(bytes, at, entry) ==
  LET name == at + HeaderSize(entry.type)
      zero == name + Len(entry.name) + 1
  IN  /\ at + EntrySize(entry) <= Len(bytes)
      /\ bytes[at + 1] = entry.type
      /\ entry.type = RegularFile =>
           \A i \in 1 .. IntegerLength :
             bytes[at + 1 + i] = EncodeInteger(entry.regular_file_size)[i]
      /\ \A i \in 1 .. Len(entry.name) : bytes[name + i] = entry.name[i]
      /\ bytes[zero] = 0
      /\ \A i \in 1 .. DigestLength : bytes[zero + i] = entry.hash_code[i]

LEMMA Tags ==
  /\ RegularFile \in Byte \ {0} /\ Directory \in Byte \ {0} /\ RegularFile # Directory
  /\ 0 \in Byte
  BY Widths DEF RegularFile, Directory, Byte

LEMMA EntryShape ==
  ASSUME NEW entry \in EncodableEntry
  PROVE  /\ entry.type \in {RegularFile, Directory}
         /\ entry.name \in Seq(Byte \ {0}) /\ Len(entry.name) \in Nat
         /\ \A i \in 1 .. Len(entry.name) : entry.name[i] \in Byte \ {0}
         /\ entry.hash_code \in [1 .. DigestLength -> Byte]
         /\ entry.hash_code \in Seq(Byte) /\ Len(entry.hash_code) = DigestLength
         /\ entry.regular_file_size \in 0 .. Power[IntegerLength] - 1
         /\ entry.type = Directory => entry.regular_file_size = 0
         /\ HeaderSize(entry.type) \in Nat \ {0}
         /\ EntrySize(entry) \in Nat \ {0}
  <1>1. /\ entry.type \in {RegularFile, Directory}
        /\ entry.name \in Seq(Byte \ {0})
        /\ entry.hash_code \in [1 .. DigestLength -> Byte]
        /\ entry.regular_file_size \in 0 .. Power[IntegerLength] - 1
        /\ entry.type = Directory => entry.regular_file_size = 0
    BY DEF EncodableEntry
  <1>2. PICK hash \in [1 .. DigestLength -> Byte] : hash = entry.hash_code
    BY <1>1
  <1>3. hash \in Seq(Byte) /\ Len(hash) = DigestLength
    BY Widths
  <1>4. PICK name \in Seq(Byte \ {0}) : name = entry.name
    BY <1>1
  <1>5. Len(name) \in Nat /\ \A i \in 1 .. Len(name) : name[i] \in Byte \ {0}
    BY SequenceShape
  <1>6. PICK h \in Nat \ {0} : h = HeaderSize(entry.type)
    BY Widths DEF HeaderSize
  <1>7. h + Len(name) + 1 + DigestLength \in Nat \ {0}
    BY <1>5, Widths
  <1> QED
    BY <1>1, <1>2, <1>3, <1>4, <1>5, <1>6, <1>7 DEF EntrySize

LEMMA Concatenated ==
  ASSUME NEW S, NEW s \in Seq(S), NEW t \in Seq(S)
  PROVE  /\ s \o t \in Seq(S)
         /\ Len(s \o t) = Len(s) + Len(t)
         /\ \A i \in 1 .. Len(s) : (s \o t)[i] = s[i]
         /\ \A i \in 1 .. Len(t) : (s \o t)[Len(s) + i] = t[i]
  OBVIOUS

LEMMA InFirstPart ==
  ASSUME NEW x \in Nat, NEW y \in Nat, NEW i \in 1 .. x
  PROVE  i \in 1 .. x + y /\ i \in 1 .. x + y + 1
  OBVIOUS

LEMMA InSecondPart ==
  ASSUME NEW x \in Nat, NEW y \in Nat, NEW i \in 1 .. y
  PROVE  x + i \in 1 .. x + y /\ x + i \in 1 .. x + y + 1
  OBVIOUS

LEMMA InHeader ==
  ASSUME NEW a \in Nat, NEW b \in Nat, NEW length \in Nat, NEW n \in Nat, NEW d \in Nat,
         NEW i \in 1 .. length
  PROVE  /\ 1 + i \in 1 .. 1 + length + n + 1 + d
         /\ a + (1 + i) = a + 1 + i /\ b + (1 + i) = b + 1 + i
  OBVIOUS

LEMMA EntryIsEncoded ==
  ASSUME NEW entry \in EncodableEntry
  PROVE  /\ EncodeEntry(entry) \in Seq(Byte)
         /\ Len(EncodeEntry(entry)) = EntrySize(entry)
         /\ EncodedAt(EncodeEntry(entry), 0, entry)
  <1> DEFINE type == entry.type
             size == IF type = RegularFile THEN EncodeInteger(entry.regular_file_size) ELSE <<>>
             name == entry.name
             hash == entry.hash_code
             head == <<type>> \o size
             named == head \o name
             terminated == named \o <<0>>
             bytes == terminated \o hash
  <1>1. bytes = EncodeEntry(entry)
    BY DEF EncodeEntry
  <1>2. /\ type \in Byte /\ name \in Seq(Byte) /\ Len(name) \in Nat
        /\ hash \in Seq(Byte) /\ Len(hash) = DigestLength
    <2>1. \A s \in Seq(Byte \ {0}) : s \in Seq(Byte)
      OBVIOUS
    <2> QED
      BY <2>1, EntryShape, Tags
  <1>3. size \in Seq(Byte) /\ Len(size) = IF type = RegularFile THEN IntegerLength ELSE 0
    <2>1. CASE type = RegularFile
      <3>1. PICK code \in [1 .. IntegerLength -> Byte] :
              code = EncodeInteger(entry.regular_file_size) /\ Len(code) = IntegerLength
        BY EntryShape, IntegersAreDecoded
      <3>2. code \in Seq(Byte)
        BY Widths
      <3> QED
        BY <2>1, <3>1, <3>2
    <2>2. CASE type # RegularFile
      BY <2>2
    <2> QED
      BY <2>1, <2>2
  <1> HIDE DEF size, name, hash, type
  <1>4. <<type>> \in Seq(Byte) /\ Len(<<type>>) = 1 /\ <<0>> \in Seq(Byte) /\ Len(<<0>>) = 1
    BY <1>2, Tags
  <1>5. /\ head \in Seq(Byte) /\ Len(head) = 1 + Len(size)
        /\ head[1] = type /\ \A i \in 1 .. Len(size) : head[1 + i] = size[i]
    BY <1>3, <1>4
  <1> HIDE DEF head
  <1>6. /\ named \in Seq(Byte) /\ Len(named) = Len(head) + Len(name)
        /\ \A i \in 1 .. Len(head) : named[i] = head[i]
        /\ \A i \in 1 .. Len(name) : named[Len(head) + i] = name[i]
    <2>1. PICK s \in Seq(Byte), t \in Seq(Byte) : s = head /\ t = name
      BY <1>2, <1>5
    <2>2. /\ s \o t \in Seq(Byte) /\ Len(s \o t) = Len(s) + Len(t)
          /\ \A i \in 1 .. Len(s) : (s \o t)[i] = s[i]
          /\ \A i \in 1 .. Len(t) : (s \o t)[Len(s) + i] = t[i]
      BY Concatenated
    <2> QED
      BY <2>1, <2>2, Zenon
  <1> HIDE DEF named
  <1>7. /\ terminated \in Seq(Byte) /\ Len(terminated) = Len(named) + 1
        /\ \A i \in 1 .. Len(named) : terminated[i] = named[i]
        /\ terminated[Len(named) + 1] = 0
    BY <1>4, <1>6
  <1> HIDE DEF terminated
  <1>8. /\ bytes \in Seq(Byte) /\ Len(bytes) = Len(terminated) + DigestLength
        /\ \A i \in 1 .. Len(terminated) : bytes[i] = terminated[i]
        /\ \A i \in 1 .. DigestLength : bytes[Len(terminated) + i] = hash[i]
    <2>1. PICK s \in Seq(Byte), t \in Seq(Byte) : s = terminated /\ t = hash
      BY <1>2, <1>7
    <2>2. /\ s \o t \in Seq(Byte) /\ Len(s \o t) = Len(s) + Len(t)
          /\ \A i \in 1 .. Len(s) : (s \o t)[i] = s[i]
          /\ \A i \in 1 .. Len(t) : (s \o t)[Len(s) + i] = t[i]
      BY Concatenated
    <2> QED
      BY <1>2, <2>1, <2>2, Zenon
  <1> HIDE DEF bytes
  <1>9. Len(head) = HeaderSize(type) /\ Len(head) \in Nat \ {0} /\ Len(size) \in Nat
    BY <1>3, <1>5, Widths DEF HeaderSize
  <1>10. /\ Len(named) = HeaderSize(type) + Len(name) /\ Len(named) \in Nat
         /\ Len(terminated) = HeaderSize(type) + Len(name) + 1 /\ Len(terminated) \in Nat
         /\ Len(bytes) = EntrySize(entry)
    BY <1>2, <1>6, <1>7, <1>8, <1>9 DEF EntrySize, type, name
  <1>11. /\ bytes[1] = type
         /\ \A i \in 1 .. Len(size) : bytes[1 + i] = size[i]
         /\ \A i \in 1 .. Len(name) : bytes[Len(head) + i] = name[i]
         /\ bytes[Len(named) + 1] = 0
         /\ \A i \in 1 .. DigestLength : bytes[Len(named) + 1 + i] = hash[i]
    <2>0. /\ Len(head) \in Nat /\ Len(name) \in Nat
          /\ Len(named) = Len(head) + Len(name) /\ Len(terminated) = Len(head) + Len(name) + 1
      BY <1>2, <1>6, <1>7, <1>9, Zenon
    <2>1. ASSUME NEW i \in 1 .. Len(head) PROVE bytes[i] = head[i]
      <3>1. i \in 1 .. Len(named) /\ i \in 1 .. Len(terminated)
        BY <2>0, InFirstPart, Zenon
      <3> QED
        BY <1>6, <1>7, <1>8, <3>1, Zenon
    <2>2. bytes[1] = type /\ \A i \in 1 .. Len(size) : bytes[1 + i] = size[i]
      BY <1>5, <1>9, <2>1
    <2>3. ASSUME NEW i \in 1 .. Len(name) PROVE bytes[Len(head) + i] = name[i]
      <3>1. Len(head) + i \in 1 .. Len(named) /\ Len(head) + i \in 1 .. Len(terminated)
        BY <2>0, InSecondPart, Zenon
      <3> QED
        BY <1>6, <1>7, <1>8, <3>1, Zenon
    <2>4. bytes[Len(named) + 1] = 0 /\ \A i \in 1 .. DigestLength : bytes[Len(named) + 1 + i] = hash[i]
      BY <1>7, <1>8, <1>10
    <2> QED
      BY <2>2, <2>3, <2>4
  <1>12. EncodedAt(bytes, 0, entry)
    <2>1. /\ 0 + HeaderSize(type) = Len(head) /\ 0 + HeaderSize(type) + Len(name) + 1 = Len(named) + 1
          /\ 0 + EntrySize(entry) <= Len(bytes) /\ 0 + 1 = 1 /\ 0 + 1 = 1
      BY <1>2, <1>9, <1>10, EntryShape
    <2>2. type = RegularFile =>
            \A i \in 1 .. IntegerLength : bytes[0 + 1 + i] = EncodeInteger(entry.regular_file_size)[i]
      BY <1>3, <1>11 DEF size
    <2> QED
      BY <1>11, <2>1, <2>2, Zenon DEF EncodedAt, type, name, hash
  <1> QED
    BY <1>1, <1>8, <1>10, <1>12

\* The bytes of an entry are all there is of it.
LEMMA EncodedAlike ==
  ASSUME NEW entry \in EncodableEntry, NEW s, NEW t, NEW a \in Nat, NEW b \in Nat,
         EncodedAt(s, a, entry), EncodedAt(t, b, entry)
  PROVE  \A k \in 1 .. EntrySize(entry) : s[a + k] = t[b + k]
  <1> SUFFICES ASSUME NEW k \in 1 .. EntrySize(entry) PROVE s[a + k] = t[b + k]
    OBVIOUS
  <1>1. PICK h \in Nat \ {0}, n \in Nat, d \in Nat :
          h = HeaderSize(entry.type) /\ n = Len(entry.name) /\ d = DigestLength
    BY EntryShape, Widths
  <1>types. h \in Nat /\ n \in Nat /\ d \in Nat /\ 1 <= h
    BY <1>1
  <1>2. k \in 1 .. h + n + 1 + d
    BY <1>1 DEF EntrySize
  <1>3. k = 1 \/ k \in 2 .. h \/ k \in h + 1 .. h + n \/ k = h + n + 1 \/ k \in h + n + 2 .. h + n + 1 + d
    BY <1>types, <1>2
  <1>4. CASE k = 1
    BY <1>4 DEF EncodedAt
  <1>5. CASE k \in 2 .. h
    <2>1. entry.type = RegularFile /\ h = 1 + IntegerLength
      BY <1>1, <1>5 DEF HeaderSize
    <2>2. PICK i \in 1 .. IntegerLength : k = 1 + i
      <3>1. k - 1 \in 1 .. IntegerLength /\ k = 1 + (k - 1)
        BY <1>1, <1>5, <2>1, Widths
      <3> QED
        BY <3>1
    <2>3. /\ s[a + 1 + i] = EncodeInteger(entry.regular_file_size)[i]
          /\ t[b + 1 + i] = EncodeInteger(entry.regular_file_size)[i]
      BY <2>1 DEF EncodedAt
    <2>4. a + k = a + 1 + i /\ b + k = b + 1 + i
      BY <2>2, Widths
    <2> QED
      BY <2>3, <2>4, Zenon
  <1>6. CASE k \in h + 1 .. h + n
    <2>1. PICK i \in 1 .. n : k = h + i
      <3>1. k - h \in 1 .. n /\ k = h + (k - h)
        BY <1>types, <1>6
      <3> QED
        BY <3>1
    <2>2. s[a + h + i] = entry.name[i] /\ t[b + h + i] = entry.name[i]
      BY <1>1, Zenon DEF EncodedAt
    <2>3. a + k = a + h + i /\ b + k = b + h + i
      BY <1>types, <2>1
    <2> QED
      BY <2>2, <2>3, Zenon
  <1>7. CASE k = h + n + 1
    <2>1. s[a + h + n + 1] = 0 /\ t[b + h + n + 1] = 0
      BY <1>1, Zenon DEF EncodedAt
    <2>2. a + k = a + h + n + 1 /\ b + k = b + h + n + 1
      BY <1>types, <1>7
    <2> QED
      BY <2>1, <2>2, Zenon
  <1>8. CASE k \in h + n + 2 .. h + n + 1 + d
    <2>1. PICK i \in 1 .. d : k = h + n + 1 + i
      <3>1. k - (h + n + 1) \in 1 .. d /\ k = h + n + 1 + (k - (h + n + 1))
        BY <1>types, <1>8
      <3> QED
        BY <3>1
    <2>2. s[a + h + n + 1 + i] = entry.hash_code[i] /\ t[b + h + n + 1 + i] = entry.hash_code[i]
      BY <1>1, Zenon DEF EncodedAt
    <2>3. a + k = a + h + n + 1 + i /\ b + k = b + h + n + 1 + i
      BY <1>types, <2>1
    <2> QED
      BY <2>2, <2>3, Zenon
  <1> QED
    BY <1>3, <1>4, <1>5, <1>6, <1>7, <1>8

LEMMA EncodedElsewhere ==
  ASSUME NEW entry \in EncodableEntry, NEW s, NEW t, NEW a \in Nat, NEW b \in Nat,
         EncodedAt(s, a, entry), b + EntrySize(entry) <= Len(t),
         \A k \in 1 .. EntrySize(entry) : t[b + k] = s[a + k]
  PROVE  EncodedAt(t, b, entry)
  <1>1. PICK h \in Nat \ {0}, n \in Nat, d \in Nat :
          h = HeaderSize(entry.type) /\ n = Len(entry.name) /\ d = DigestLength
    BY EntryShape, Widths
  <1>types. h \in Nat /\ n \in Nat /\ d \in Nat /\ 1 <= h
    BY <1>1
  <1>2. EntrySize(entry) = h + n + 1 + d
    BY <1>1 DEF EntrySize
  <1>3. t[b + 1] = entry.type
    <2>1. 1 \in 1 .. EntrySize(entry)
      BY <1>1, <1>2
    <2> QED
      BY <2>1 DEF EncodedAt
  <1>4. ASSUME entry.type = RegularFile, NEW i \in 1 .. IntegerLength
        PROVE  t[b + 1 + i] = EncodeInteger(entry.regular_file_size)[i]
    <2>1. h = 1 + IntegerLength
      BY <1>1, <1>4 DEF HeaderSize
    <2>2. 1 + i \in 1 .. EntrySize(entry) /\ a + (1 + i) = a + 1 + i /\ b + (1 + i) = b + 1 + i
      <3>1. EntrySize(entry) = 1 + IntegerLength + n + 1 + d /\ IntegerLength \in Nat
        BY <1>2, <2>1, Widths, Zenon
      <3>2. /\ 1 + i \in 1 .. 1 + IntegerLength + n + 1 + d
            /\ a + (1 + i) = a + 1 + i /\ b + (1 + i) = b + 1 + i
        BY <1>types, <3>1, InHeader
      <3> QED
        BY <3>1, <3>2, Zenon
    <2>3. s[a + 1 + i] = EncodeInteger(entry.regular_file_size)[i]
      BY <1>4 DEF EncodedAt
    <2>4. t[b + (1 + i)] = s[a + (1 + i)]
      BY <2>2
    <2> QED
      BY <2>2, <2>3, <2>4, Zenon
  <1>5. ASSUME NEW i \in 1 .. n PROVE t[b + h + i] = entry.name[i]
    <2>1. h + i \in 1 .. EntrySize(entry) /\ a + (h + i) = a + h + i /\ b + (h + i) = b + h + i
      BY <1>types, <1>2
    <2>2. s[a + h + i] = entry.name[i]
      BY <1>1, Zenon DEF EncodedAt
    <2>3. t[b + (h + i)] = s[a + (h + i)]
      BY <2>1
    <2> QED
      BY <2>1, <2>2, <2>3, Zenon
  <1>6. t[b + h + n + 1] = 0
    <2>1. h + n + 1 \in 1 .. EntrySize(entry) /\ a + (h + n + 1) = a + h + n + 1 /\ b + (h + n + 1) = b + h + n + 1
      BY <1>types, <1>2
    <2>2. s[a + h + n + 1] = 0
      BY <1>1, Zenon DEF EncodedAt
    <2>3. t[b + (h + n + 1)] = s[a + (h + n + 1)]
      BY <2>1
    <2> QED
      BY <2>1, <2>2, <2>3, Zenon
  <1>7. ASSUME NEW i \in 1 .. d PROVE t[b + h + n + 1 + i] = entry.hash_code[i]
    <2>1. /\ h + n + 1 + i \in 1 .. EntrySize(entry)
          /\ a + (h + n + 1 + i) = a + h + n + 1 + i /\ b + (h + n + 1 + i) = b + h + n + 1 + i
      BY <1>types, <1>2
    <2>2. s[a + h + n + 1 + i] = entry.hash_code[i]
      BY <1>1, Zenon DEF EncodedAt
    <2>3. t[b + (h + n + 1 + i)] = s[a + (h + n + 1 + i)]
      BY <2>1
    <2> QED
      BY <2>1, <2>2, <2>3, Zenon
  <1> QED
    BY <1>1, <1>3, <1>4, <1>5, <1>6, <1>7, Zenon DEF EncodedAt

\* decode_entry where an entry was encoded.
LEMMA EncodedEntryIsDecoded ==
  ASSUME blob \in Seq(Byte), NEW in \in Nat, NEW entry \in EncodableEntry, EncodedAt(blob, in, entry)
  PROVE  CanDecode(in) /\ Decode(in) = entry /\ Behind(in) = in + EntrySize(entry)
  <1>1. PICK h \in Nat \ {0}, n \in Nat, d \in Nat, size \in Nat :
          /\ h = HeaderSize(entry.type) /\ n = Len(entry.name) /\ d = DigestLength
          /\ size = Len(blob)
    <2>1. Len(blob) \in Nat
      BY SequenceShape
    <2> QED
      BY <2>1, EntryShape, Widths
  <1>types. h \in Nat /\ n \in Nat /\ d \in Nat /\ size \in Nat /\ 1 <= h
    BY <1>1
  <1>2. EntrySize(entry) = h + n + 1 + d /\ in + h + n + 1 + d <= size
    <2>1. in + EntrySize(entry) <= size
      BY <1>1 DEF EncodedAt
    <2>2. EntrySize(entry) = h + n + 1 + d
      BY <1>1 DEF EntrySize
    <2> QED
      BY <1>types, <2>1, <2>2
  <1>3. \A i \in 0 .. size - 1 : At(i) = blob[i + 1]
    BY <1>1 DEF At
  <1>4. At(in) = entry.type /\ entry.type \in {RegularFile, Directory}
    <2>1. in \in 0 .. size - 1
      BY <1>types, <1>2
    <2> QED
      BY <1>3, <2>1, EntryShape DEF EncodedAt
  <1>5. NameBegin(in) = in + h
    BY <1>1, <1>4, Widths DEF NameBegin, HeaderSize
  <1>6. ASSUME NEW i \in 1 .. n PROVE At(in + h + i - 1) = entry.name[i] /\ entry.name[i] # 0
    <2>1. in + h + i - 1 \in 0 .. size - 1 /\ (in + h + i - 1) + 1 = in + h + i
      BY <1>types, <1>2
    <2>2. blob[in + h + i] = entry.name[i]
      BY <1>1, Zenon DEF EncodedAt
    <2>3. entry.name[i] # 0
      BY <1>1, EntryShape
    <2> QED
      BY <1>3, <2>1, <2>2, <2>3
  <1>7. At(in + h + n) = 0
    <2>1. in + h + n \in 0 .. size - 1
      BY <1>types, <1>2
    <2>2. blob[in + h + n + 1] = 0
      BY <1>1, Zenon DEF EncodedAt
    <2> QED
      BY <1>3, <2>1, <2>2
  <1>8. ASSUME NEW i \in 1 .. d PROVE At(in + h + n + 1 + i - 1) = entry.hash_code[i]
    <2>1. in + h + n + 1 + i - 1 \in 0 .. size - 1 /\ (in + h + n + 1 + i - 1) + 1 = in + h + n + 1 + i
      BY <1>types, <1>2
    <2>2. blob[in + h + n + 1 + i] = entry.hash_code[i]
      BY <1>1, Zenon DEF EncodedAt
    <2> QED
      BY <1>3, <2>1, <2>2
  <1>9. in + h + n \in Zeros(in) /\ \A z \in Zeros(in) : in + h + n <= z
    <2>1. in + h + n \in in + h .. size - 1
      BY <1>types, <1>2
    <2>2. in + h + n \in Zeros(in)
      BY <1>1, <1>5, <1>7, <2>1 DEF Zeros
    <2>3. ASSUME NEW z \in Zeros(in), z < in + h + n PROVE FALSE
      <3>1. z \in in + h .. size - 1 /\ At(z) = 0
        BY <1>1, <1>5 DEF Zeros
      <3>2. z - in - h + 1 \in 1 .. n /\ z = in + h + (z - in - h + 1) - 1
        BY <1>types, <2>3, <3>1
      <3> QED
        BY <1>6, <3>1, <3>2
    <2>4. \A z \in Zeros(in) : z \in Nat
      BY <1>1, <1>5 DEF Zeros
    <2>5. in + h + n \in Nat
      BY <1>types
    <2> QED
      BY <2>2, <2>3, <2>4, <2>5
  <1>10. NameEnd(in) = in + h + n
    <2> DEFINE First(z) == z \in Zeros(in) /\ \A other \in Zeros(in) : z <= other
               end == NameEnd(in)
    <2>1. end = CHOOSE z \in Zeros(in) : \A other \in Zeros(in) : z <= other
      BY DEF NameEnd
    <2>2. First(end)
      <3> HIDE DEF end
      <3> QED
        BY <1>9, <2>1, Zenon
    <2>3. end \in Nat
      BY <1>1, <1>5, <2>2 DEF Zeros
    <2>4. end <= in + h + n /\ in + h + n <= end
      BY <1>9, <2>2
    <2> HIDE DEF end
    <2>5. end = in + h + n
      BY <1>1, <2>3, <2>4
    <2> QED
      BY <2>5 DEF end
  <1>11. CanDecode(in)
    <2>1. Fits(in, NameBegin(in) - in)
      <3>1. (in + h) - in <= size - in
        BY <1>types, <1>2
      <3> QED
        BY <1>1, <1>5, <3>1, Zenon DEF Fits
    <2>2. Fits(NameEnd(in) + 1, DigestLength)
      <3>1. d <= size - (in + h + n + 1)
        BY <1>types, <1>2
      <3> QED
        BY <1>1, <1>10, <3>1, Zenon DEF Fits
    <2> QED
      BY <1>4, <1>9, <2>1, <2>2 DEF CanDecode
  <1>12. BytesAt(NameBegin(in), NameEnd(in) - NameBegin(in)) = entry.name
    <2>1. NameEnd(in) - NameBegin(in) = n
      BY <1>1, <1>5, <1>10
    <2>2. entry.name = [i \in 1 .. n |-> entry.name[i]]
      <3>1. PICK name \in Seq(Byte \ {0}) : name = entry.name
        BY EntryShape
      <3>2. name = [i \in 1 .. Len(name) |-> name[i]]
        OBVIOUS
      <3> QED
        BY <1>1, <3>1, <3>2
    <2> QED
      BY <1>5, <1>6, <2>1, <2>2 DEF BytesAt
  <1>13. BytesAt(NameEnd(in) + 1, DigestLength) = entry.hash_code
    <2>1. entry.hash_code = [i \in 1 .. d |-> entry.hash_code[i]]
      BY <1>1, EntryShape
    <2>2. BytesAt(in + h + n + 1, d) = [i \in 1 .. d |-> At(in + h + n + 1 + i - 1)]
      BY DEF BytesAt
    <2> QED
      BY <1>1, <1>8, <1>10, <2>1, <2>2
  <1>14. entry.regular_file_size =
           IF At(in) = RegularFile THEN DecodeInteger(BytesAt(in + 1, IntegerLength)) ELSE 0
    <2>1. CASE entry.type = RegularFile
      <3>1. PICK code \in [1 .. IntegerLength -> Byte] :
              code = EncodeInteger(entry.regular_file_size) /\ DecodeInteger(code) = entry.regular_file_size
        BY EntryShape, IntegersAreDecoded
      <3>2. ASSUME NEW i \in 1 .. IntegerLength PROVE At(in + 1 + i - 1) = code[i]
        <4>1. h = 1 + IntegerLength
          BY <1>1, <2>1 DEF HeaderSize
        <4>2. in + 1 + i - 1 \in 0 .. size - 1 /\ (in + 1 + i - 1) + 1 = in + 1 + i
          BY <1>types, <1>2, <4>1, Widths
        <4>3. blob[in + 1 + i] = code[i]
          BY <2>1, <3>1 DEF EncodedAt
        <4> QED
          BY <1>3, <4>2, <4>3
      <3>3. BytesAt(in + 1, IntegerLength) = code
        BY <3>2 DEF BytesAt
      <3> QED
        BY <1>4, <2>1, <3>1, <3>3
    <2>2. CASE entry.type = Directory
      BY <1>4, <2>2, EntryShape, Tags
    <2> QED
      BY <1>4, <2>1, <2>2
  <1>15. Decode(in) = entry
    <2>1. entry = [type |-> entry.type, name |-> entry.name, hash_code |-> entry.hash_code,
                   regular_file_size |-> entry.regular_file_size]
      BY DEF EncodableEntry
    <2> QED
      BY <1>4, <1>12, <1>13, <1>14, <2>1, Zenon DEF Decode
  <1>16. Behind(in) = in + EntrySize(entry)
    <2>1. in + h + n + 1 + d = in + (h + n + 1 + d)
      BY <1>types
    <2> QED
      BY <1>1, <1>2, <1>10, <2>1, Zenon DEF Behind
  <1> QED
    BY <1>11, <1>15, <1>16

\* decode_entry on any bytes: what it accepts is an encoding of what it returns.
LEMMA DecodedEntryWasEncoded ==
  ASSUME blob \in Seq(Byte), NEW in \in 0 .. Len(blob) - 1, CanDecode(in)
  PROVE  /\ Decode(in) \in EncodableEntry
         /\ EncodedAt(blob, in, Decode(in))
         /\ Behind(in) = in + EntrySize(Decode(in))
  <1>1. PICK size \in Nat, d \in Nat : size = Len(blob) /\ d = DigestLength /\ in \in 0 .. size - 1
    BY Widths
  <1>2. \A i \in 0 .. size - 1 : At(i) = blob[i + 1] /\ At(i) \in Byte
    <2>1. \A i \in 0 .. size - 1 : At(i) = blob[i + 1]
      BY <1>1 DEF At
    <2>2. \A i \in 0 .. size - 1 : blob[i + 1] \in Byte
      BY <1>1
    <2> QED
      BY <2>1, <2>2
  <1>3. PICK type \in {RegularFile, Directory}, h \in Nat \ {0} :
          /\ type = At(in) /\ h = HeaderSize(type)
          /\ NameBegin(in) = in + h /\ in + h <= size
          /\ h = 1 + (IF type = RegularFile THEN IntegerLength ELSE 0)
    <2>1. PICK type \in {RegularFile, Directory} : type = At(in) /\ NameBegin(in) - in <= size - in
      BY <1>1 DEF CanDecode, Fits
    <2>2. PICK h \in Nat \ {0} : h = HeaderSize(type) /\ h = 1 + (IF type = RegularFile THEN IntegerLength ELSE 0)
      BY Widths DEF HeaderSize
    <2>3. NameBegin(in) = in + h
      <3>1. NameBegin(in) = in + 1 + (IF type = RegularFile THEN IntegerLength ELSE 0)
        BY <2>1 DEF NameBegin
      <3> QED
        BY <1>1, <2>2, <3>1, Widths
    <2>4. in + h <= size
      BY <1>1, <2>1, <2>3
    <2> QED
      BY <2>1, <2>2, <2>3, <2>4
  <1>4. PICK end \in Nat : end = NameEnd(in) /\ end \in Zeros(in) /\ \A z \in Zeros(in) : end <= z
    <2>1. Zeros(in) # {} /\ Zeros(in) \subseteq Nat
      BY <1>1, <1>3 DEF CanDecode, Zeros
    <2>2. \E z \in Zeros(in) : \A other \in Zeros(in) : z <= other
      BY <2>1, OneIsALength, Lemmas!LeastNumber, Zenon
    <2>3. NameEnd(in) = CHOOSE z \in Zeros(in) : \A other \in Zeros(in) : z <= other
      BY DEF NameEnd
    <2>4. NameEnd(in) \in Zeros(in) /\ \A z \in Zeros(in) : NameEnd(in) <= z
      BY <2>2, <2>3, Zenon
    <2> QED
      BY <2>1, <2>4
  <1>5. end \in in + h .. size - 1 /\ At(end) = 0 /\ end + 1 + d <= size
    <2>1. end \in in + h .. size - 1 /\ At(end) = 0
      BY <1>1, <1>3, <1>4 DEF Zeros
    <2>2. d <= size - (end + 1)
      BY <1>1, <1>4 DEF CanDecode, Fits
    <2> QED
      BY <1>1, <2>1, <2>2
  <1>6. PICK n \in Nat : n = end - (in + h) /\ end = in + h + n
    <2>1. end - (in + h) \in Nat /\ end = in + h + (end - (in + h))
      <3>1. in \in Nat /\ h \in Nat /\ end \in Nat /\ in + h <= end
        BY <1>1, <1>3, <1>4, <1>5
      <3> QED
        BY <3>1
    <2> QED
      BY <2>1
  <1>types. in \in Nat /\ h \in Nat /\ 1 <= h /\ n \in Nat /\ d \in Nat /\ size \in Nat /\ end \in Nat
    BY <1>1, <1>3, <1>4, <1>6
  <1>sums. end = in + h + n /\ in + h + n + 1 + d <= size
    BY <1>5, <1>6
  <1>7. PICK name : name = [i \in 1 .. n |-> At(in + h + i - 1)]
    OBVIOUS
  <1>8. name \in Seq(Byte \ {0}) /\ Len(name) = n
    <2>1. ASSUME NEW i \in 1 .. n PROVE name[i] \in Byte \ {0}
      <3>1. in + h + i - 1 \in in + h .. size - 1 /\ in + h + i - 1 < end /\ in + h + i - 1 \in 0 .. size - 1
        BY <1>types, <1>sums
      <3>2. At(in + h + i - 1) # 0
        <4>1. ASSUME At(in + h + i - 1) = 0 PROVE FALSE
          <5>1. in + h + i - 1 \in Zeros(in)
            BY <1>1, <1>3, <3>1, <4>1 DEF Zeros
          <5>2. end <= in + h + i - 1
            BY <1>4, <5>1
          <5> QED
            BY <1>1, <1>3, <3>1, <5>2
        <4> QED
          BY <4>1
      <3> QED
        BY <1>2, <1>7, <3>1, <3>2
    <2>2. name \in [1 .. n -> Byte \ {0}]
      BY <1>7, <2>1
    <2> QED
      BY <2>2
  <1>9. PICK hash : hash = [i \in 1 .. d |-> At(end + 1 + i - 1)]
    OBVIOUS
  <1>10. hash \in [1 .. d -> Byte]
    <2>1. ASSUME NEW i \in 1 .. d PROVE At(end + 1 + i - 1) \in Byte
      <3>1. end + 1 + i - 1 \in 0 .. size - 1
        BY <1>1, <1>5
      <3> QED
        BY <1>2, <3>1
    <2> QED
      BY <1>9, <2>1
  <1>11. PICK code : code = [i \in 1 .. IntegerLength |-> At(in + 1 + i - 1)]
    OBVIOUS
  <1>12. PICK value :
           /\ value = IF type = RegularFile THEN DecodeInteger(code) ELSE 0
           /\ value \in 0 .. Power[IntegerLength] - 1
           /\ type = RegularFile => EncodeInteger(value) = code
    <2>1. CASE type = RegularFile
      <3>1. ASSUME NEW i \in 1 .. IntegerLength PROVE At(in + 1 + i - 1) \in Byte
        <4>1. in + 1 + i - 1 \in 0 .. size - 1
          BY <1>1, <1>3, <2>1, Widths
        <4> QED
          BY <1>2, <4>1
      <3>2. code \in [1 .. IntegerLength -> Byte]
        BY <1>11, <3>1
      <3>3. Len(code) = IntegerLength
        BY <3>2, Widths
      <3> QED
        BY <2>1, <3>2, <3>3, IntegersAreEncodedAgain
    <2>2. CASE type # RegularFile
      <3>1. 0 \in 0 .. Power[IntegerLength] - 1
        <4>1. IntegerLength \in 0 .. IntegerLength
          BY Widths
        <4>2. PICK p \in Nat \ {0} : p = Power[IntegerLength]
          BY <4>1, PowerFacts
        <4> QED
          BY <4>2
      <3> QED
        BY <2>2, <3>1
    <2> QED
      BY <2>1, <2>2
  <1>13. PICK entry : entry = [type |-> type, name |-> name, hash_code |-> hash, regular_file_size |-> value]
    OBVIOUS
  <1>14. Decode(in) = entry
    <2>1. BytesAt(NameBegin(in), NameEnd(in) - NameBegin(in)) = name
      BY <1>3, <1>4, <1>6, <1>7, Zenon DEF BytesAt
    <2>2. BytesAt(NameEnd(in) + 1, DigestLength) = hash
      BY <1>1, <1>4, <1>9, Zenon DEF BytesAt
    <2>3. BytesAt(in + 1, IntegerLength) = code
      BY <1>11, Zenon DEF BytesAt
    <2> QED
      BY <1>3, <1>12, <1>13, <2>1, <2>2, <2>3, Zenon DEF Decode
  <1>15. entry \in EncodableEntry
    <2>1. type = Directory => value = 0
      BY <1>12, Tags
    <2> QED
      BY <1>1, <1>3, <1>8, <1>10, <1>12, <1>13, <2>1 DEF EncodableEntry
  <1>16. entry.type = type /\ entry.name = name /\ entry.hash_code = hash /\ entry.regular_file_size = value
    BY <1>13
  <1>17. EntrySize(entry) = h + n + 1 + d
    BY <1>1, <1>3, <1>8, <1>16 DEF EntrySize
  <1>18. Behind(in) = in + EntrySize(entry) /\ in + EntrySize(entry) <= size
    <2>1. in + h + n + 1 + d = in + (h + n + 1 + d)
      BY <1>types
    <2> QED
      BY <1>1, <1>4, <1>sums, <1>17, <2>1, Zenon DEF Behind
  <1>19. EncodedAt(blob, in, entry)
    <2>1. blob[in + 1] = type
      BY <1>1, <1>2, <1>3
    <2>2. ASSUME type = RegularFile, NEW i \in 1 .. IntegerLength
          PROVE  blob[in + 1 + i] = EncodeInteger(value)[i]
      <3>1. in + 1 + i - 1 \in 0 .. size - 1 /\ (in + 1 + i - 1) + 1 = in + 1 + i
        <4>1. PICK l \in Nat : l = IntegerLength /\ in + 1 + l <= size
          BY <1>1, <1>3, <2>2, Widths
        <4> QED
          BY <1>types, <4>1
      <3> QED
        BY <1>2, <1>11, <1>12, <2>2, <3>1
    <2>3. ASSUME NEW i \in 1 .. n PROVE blob[in + h + i] = name[i]
      <3>1. in + h + i - 1 \in 0 .. size - 1 /\ (in + h + i - 1) + 1 = in + h + i
        BY <1>types, <1>sums
      <3> QED
        BY <1>2, <1>7, <3>1
    <2>4. blob[in + h + n + 1] = 0
      <3>1. end \in 0 .. size - 1 /\ end + 1 = in + h + n + 1
        BY <1>types, <1>sums
      <3> QED
        BY <1>2, <1>5, <3>1
    <2>5. ASSUME NEW i \in 1 .. d PROVE blob[in + h + n + 1 + i] = hash[i]
      <3>1. end + 1 + i - 1 \in 0 .. size - 1 /\ (end + 1 + i - 1) + 1 = in + h + n + 1 + i
        BY <1>types, <1>sums
      <3> QED
        BY <1>2, <1>9, <3>1
    <2>6. in + EntrySize(entry) <= Len(blob)
      BY <1>1, <1>18
    <2> QED
      <3>1. HeaderSize(entry.type) = h /\ Len(entry.name) = n /\ DigestLength = d
        BY <1>1, <1>3, <1>8, <1>16
      <3>2. \A i \in 1 .. Len(entry.name) : blob[in + HeaderSize(entry.type) + i] = entry.name[i]
        BY <1>16, <2>3, <3>1, Zenon
      <3>3. blob[in + HeaderSize(entry.type) + Len(entry.name) + 1] = 0
        BY <2>4, <3>1, Zenon
      <3>4. \A i \in 1 .. DigestLength :
              blob[in + HeaderSize(entry.type) + Len(entry.name) + 1 + i] = entry.hash_code[i]
        BY <1>16, <2>5, <3>1, Zenon
      <3>5. entry.type = RegularFile =>
              \A i \in 1 .. IntegerLength : blob[in + 1 + i] = EncodeInteger(entry.regular_file_size)[i]
        BY <1>16, <2>2, Zenon
      <3>6. blob[in + 1] = entry.type
        BY <1>16, <2>1, Zenon
      <3> QED
        BY <2>6, <3>2, <3>3, <3>4, <3>5, <3>6, Zenon DEF EncodedAt
  <1> QED
    BY <1>14, <1>15, <1>18, <1>19

-----------------------------------------------------------------------------
(***************************************************************************)
(* Directories: one encoding behind the other.                             *)
(***************************************************************************)

\* joined[i] is the encoding of the first i entries.
IsJoined(joined, entries) ==
  /\ joined \in [0 .. Len(entries) -> Seq(Byte)]
  /\ joined[0] = <<>>
  /\ \A i \in 1 .. Len(entries) : joined[i] = joined[i - 1] \o EncodeEntry(entries[i])

LEMMA EmptyDirectory == EncodeDirectory(<<>>) = <<>>
  <1>1. [i \in DOMAIN <<>> |-> EncodeEntry(<<>>[i])] = <<>>
    OBVIOUS
  <1>2. Len(<<>>) = 0
    OBVIOUS
  <1> QED
    BY <1>1, <1>2, Zenon DEF EncodeDirectory, FlattenSeq

LEMMA EncodedDirectory ==
  ASSUME NEW entries \in Seq(EncodableEntry)
  PROVE  \E joined : IsJoined(joined, entries) /\ EncodeDirectory(entries) = joined[Len(entries)]
  <1>1. PICK n \in Nat : n = Len(entries) /\ DOMAIN entries = 1 .. n
    BY SequenceShape
  <1>2. \A i \in 1 .. n : EncodeEntry(entries[i]) \in Seq(Byte)
    <2>1. \A i \in 1 .. n : entries[i] \in EncodableEntry
      BY <1>1
    <2> QED
      BY <2>1, EntryIsEncoded
  <1> DEFINE U == Seq(Byte)
             step == [x \in Nat \X U |-> IF x[1] \in 1 .. n THEN x[2] \o EncodeEntry(entries[x[1]]) ELSE <<>>]
  <1>3. <<>> \in U /\ step \in [Nat \X U -> U]
    <2>1. <<>> \in U
      OBVIOUS
    <2>2. ASSUME NEW i \in 1 .. n, NEW s \in U PROVE s \o EncodeEntry(entries[i]) \in U
      BY <1>2
    <2> HIDE DEF U
    <2> QED
      BY <2>1, <2>2
  <1>4. PICK f \in [0 .. n -> U] : Lemmas!IsRecursive(f, <<>>, step, n)
    <2> HIDE DEF U, step
    <2> QED
      BY <1>3, OneIsALength, Lemmas!RecursionExists
  <1>5. \A i \in 0 .. n : f[i] = IF i = 0 THEN <<>> ELSE step[<<i, f[i - 1]>>]
    BY <1>4 DEF Lemmas!IsRecursive
  <1>6. ASSUME NEW i \in 1 .. n PROVE f[i] = f[i - 1] \o EncodeEntry(entries[i])
    <2>1. i \in Nat /\ i \in 0 .. n /\ i # 0 /\ i - 1 \in 0 .. n
      BY <1>1
    <2>2. f[i - 1] \in U
      BY <1>4, <2>1
    <2> HIDE DEF U
    <2> QED
      BY <1>5, <2>1, <2>2
  <1> HIDE DEF step
  <1>7. f[0] = <<>>
    <2>1. 0 \in 0 .. n
      BY <1>1
    <2> QED
      BY <1>5, <2>1, Zenon
  <1>8. IsJoined(f, entries)
    BY <1>1, <1>4, <1>6, <1>7, Zenon DEF IsJoined
  <1>9. EncodeDirectory(entries) = f[n]
    <2> DEFINE seqs == [i \in DOMAIN entries |-> EncodeEntry(entries[i])]
    <2>1. seqs \in [1 .. n -> U] /\ Len(seqs) = n
      <3>1. seqs \in [1 .. n -> U]
        BY <1>1, <1>2
      <3> HIDE DEF seqs
      <3> QED
        BY <1>1, <3>1
    <2>2. CASE n = 0
      <3>1. seqs = <<>>
        BY <1>1, <2>2
      <3>2. EncodeDirectory(entries) = seqs
        BY <2>1, <2>2, Zenon DEF EncodeDirectory, FlattenSeq
      <3> QED
        BY <1>7, <2>2, <3>1, <3>2
    <2>3. CASE n # 0
      <3> DEFINE IsFlat(g) == g = [i \in 1 .. Len(seqs) |-> IF i = 1 THEN seqs[i] ELSE g[i - 1] \o seqs[i]]
                 flat == CHOOSE g : IsFlat(g)
                 h == [i \in 1 .. n |-> f[i]]
      <3>1. EncodeDirectory(entries) = flat[n]
        BY <2>1, <2>3, Zenon DEF EncodeDirectory, FlattenSeq
      <3>2. \A i \in 1 .. n : seqs[i] = EncodeEntry(entries[i]) /\ seqs[i] \in Seq(Byte)
        BY <1>1, <2>1
      <3> HIDE DEF seqs
      <3>3. IsFlat(h)
        <4>1. ASSUME NEW i \in 1 .. n PROVE h[i] = IF i = 1 THEN seqs[i] ELSE h[i - 1] \o seqs[i]
          <5>1. CASE i = 1
            <6>1. i - 1 = 0 /\ f[i] = f[i - 1] \o EncodeEntry(entries[i])
              <7>1. i - 1 = 0
                BY <5>1
              <7> QED
                BY <1>6, <7>1
            <6>2. f[0] \o seqs[1] = seqs[1]
              BY <1>7, <3>2, <5>1
            <6>3. h[i] = f[i]
              OBVIOUS
            <6> QED
              BY <3>2, <5>1, <6>1, <6>2, <6>3, Zenon
          <5>2. CASE i # 1
            <6>1. i - 1 \in 1 .. n
              BY <1>1, <5>2
            <6> QED
              BY <1>6, <3>2, <5>2, <6>1
          <5> QED
            BY <5>1, <5>2
        <4> QED
          BY <2>1, <4>1
      <3>4. IsFlat(flat)
        <4> HIDE DEF h
        <4> QED
          BY <3>3, Zenon
      <3> HIDE DEF flat
      <3>5. \A i \in 1 .. n : flat[i] = IF i = 1 THEN seqs[i] ELSE flat[i - 1] \o seqs[i]
        BY <2>1, <3>4, Zenon
      <3>6. \A i \in 1 .. n : h[i] = IF i = 1 THEN seqs[i] ELSE h[i - 1] \o seqs[i]
        <4> HIDE DEF h
        <4> QED
          BY <2>1, <3>3, Zenon
      <3> DEFINE Bad == {i \in 1 .. n : flat[i] # h[i]}
      <3>7. Bad = {}
        <4> SUFFICES ASSUME Bad # {} PROVE FALSE
          OBVIOUS
        <4>1. Bad \subseteq Nat
          BY <1>1
        <4>2. PICK m \in Bad : \A k \in Bad : m <= k
          <5> HIDE DEF Bad
          <5> QED
            BY <4>1, OneIsALength, Lemmas!LeastNumber, Zenon
        <4>3. m \in 1 .. n /\ flat[m] # h[m]
          OBVIOUS
        <4> HIDE DEF h
        <4>4. m # 1
          BY <3>5, <3>6, <4>3, Zenon
        <4>5. m - 1 \in 1 .. n /\ ~ (m <= m - 1)
          BY <1>1, <4>3, <4>4
        <4>6. flat[m - 1] = h[m - 1]
          BY <4>2, <4>5
        <4> QED
          BY <3>5, <3>6, <4>3, <4>4, <4>6, Zenon
      <3>8. n \in 1 .. n
        BY <1>1, <2>3
      <3> QED
        BY <3>1, <3>7, <3>8
    <2> QED
      BY <2>2, <2>3
  <1> QED
    BY <1>1, <1>8, <1>9, Zenon

\* The encoding of some entries begins with that of the first ones.
LEMMA JoinedAlike ==
  ASSUME NEW entries \in Seq(EncodableEntry), NEW others \in Seq(EncodableEntry),
         NEW f, IsJoined(f, entries), NEW g, IsJoined(g, others),
         NEW n \in Nat, n <= Len(entries), n <= Len(others),
         \A i \in 1 .. n : entries[i] = others[i]
  PROVE  f[n] = g[n]
  <1> DEFINE Bad == {i \in 0 .. n : f[i] # g[i]}
  <1>1. Bad = {}
    <2> SUFFICES ASSUME Bad # {} PROVE FALSE
      OBVIOUS
    <2>1. Bad \subseteq Nat
      OBVIOUS
    <2>2. PICK m \in Bad : \A k \in Bad : m <= k
      <3> HIDE DEF Bad
      <3> QED
        BY <2>1, OneIsALength, Lemmas!LeastNumber, Zenon
    <2>3. m \in 0 .. n /\ f[m] # g[m]
      OBVIOUS
    <2>4. m # 0
      BY <2>3 DEF IsJoined
    <2>5. m - 1 \in 0 .. n /\ ~ (m <= m - 1) /\ m \in 1 .. n
      BY <2>3, <2>4
    <2>6. f[m - 1] = g[m - 1]
      BY <2>2, <2>5
    <2>7. m \in 1 .. Len(entries) /\ m \in 1 .. Len(others)
      <3>1. Len(entries) \in Nat /\ Len(others) \in Nat
        BY SequenceShape
      <3> QED
        BY <2>5, <3>1
    <2>8. f[m] = f[m - 1] \o EncodeEntry(entries[m]) /\ g[m] = g[m - 1] \o EncodeEntry(others[m])
      BY <2>7, Zenon DEF IsJoined
    <2> QED
      BY <2>3, <2>5, <2>6, <2>8, Zenon
  <1>2. n \in 0 .. n
    OBVIOUS
  <1> QED
    BY <1>1, <1>2

LEMMA JoinedGrows ==
  ASSUME NEW entries \in Seq(EncodableEntry), NEW f, IsJoined(f, entries),
         NEW n \in Nat, n = Len(entries), NEW i \in 0 .. n
  PROVE  /\ Len(f[i]) \in Nat /\ Len(f[n]) \in Nat
         /\ Len(f[i]) <= Len(f[n])
         /\ \A k \in 1 .. Len(f[i]) : f[n][k] = f[i][k]
  <1>1. \A j \in 0 .. n : f[j] \in Seq(Byte) /\ Len(f[j]) \in Nat
    <2>1. \A j \in 0 .. n : f[j] \in Seq(Byte)
      BY Zenon DEF IsJoined
    <2> QED
      BY <2>1, SequenceShape
  <1> DEFINE Extends(j) == Len(f[i]) <= Len(f[j]) /\ \A k \in 1 .. Len(f[i]) : f[j][k] = f[i][k]
             Bad == {j \in 0 .. n : i <= j /\ ~ Extends(j)}
  <1>2. Bad = {}
    <2> SUFFICES ASSUME Bad # {} PROVE FALSE
      OBVIOUS
    <2>1. Bad \subseteq Nat
      OBVIOUS
    <2>2. PICK m \in Bad : \A k \in Bad : m <= k
      <3> HIDE DEF Bad
      <3> QED
        BY <2>1, OneIsALength, Lemmas!LeastNumber, Zenon
    <2>3. m \in 0 .. n /\ i <= m /\ ~ Extends(m)
      OBVIOUS
    <2>4. m # i
      BY <1>1, <2>3
    <2>5. m - 1 \in 0 .. n /\ ~ (m <= m - 1) /\ m \in 1 .. n /\ i <= m - 1
      BY <2>3, <2>4
    <2>6. Extends(m - 1)
      BY <2>2, <2>5
    <2>7. f[m] = f[m - 1] \o EncodeEntry(entries[m]) /\ EncodeEntry(entries[m]) \in Seq(Byte)
      <3>1. entries[m] \in EncodableEntry
        BY <2>5
      <3> QED
        BY <2>5, <3>1, EntryIsEncoded, Zenon DEF IsJoined
    <2>8. PICK s \in Seq(Byte), t \in Seq(Byte) :
            s = f[m - 1] /\ t = EncodeEntry(entries[m]) /\ f[m] = s \o t
      BY <1>1, <2>5, <2>7
    <2>9. /\ Len(s) \in Nat /\ Len(t) \in Nat
          /\ Len(s \o t) = Len(s) + Len(t) /\ \A k \in 1 .. Len(s) : (s \o t)[k] = s[k]
      BY Concatenated, SequenceShape
    <2>10. Len(f[i]) \in Nat /\ Len(f[i]) <= Len(s) /\ \A k \in 1 .. Len(f[i]) : s[k] = f[i][k]
      BY <1>1, <2>6, <2>8
    <2>11. Len(f[i]) <= Len(s \o t) /\ \A k \in 1 .. Len(f[i]) : (s \o t)[k] = f[i][k]
      BY <2>9, <2>10
    <2> QED
      BY <2>3, <2>8, <2>11, Zenon
  <1>3. n \in 0 .. n /\ i <= n
    OBVIOUS
  <1> QED
    BY <1>1, <1>2, <1>3

LEMMA Appended ==
  ASSUME NEW S, NEW s \in Seq(S), NEW x \in S
  PROVE  /\ Append(s, x) \in Seq(S) /\ Len(s) \in Nat /\ Len(Append(s, x)) = Len(s) + 1
         /\ Append(s, x)[Len(s) + 1] = x /\ \A i \in 1 .. Len(s) : Append(s, x)[i] = s[i]
  OBVIOUS

LEMMA OneMoreEntry ==
  ASSUME NEW entries \in Seq(EncodableEntry), NEW entry \in EncodableEntry
  PROVE  EncodeDirectory(Append(entries, entry)) = EncodeDirectory(entries) \o EncodeEntry(entry)
  <1>1. PICK more \in Seq(EncodableEntry), n \in Nat :
          /\ more = Append(entries, entry) /\ n = Len(entries) /\ Len(more) = n + 1
          /\ more[n + 1] = entry /\ \A i \in 1 .. n : entries[i] = more[i]
    <2>1. /\ Append(entries, entry) \in Seq(EncodableEntry) /\ Len(entries) \in Nat
          /\ Len(Append(entries, entry)) = Len(entries) + 1
          /\ Append(entries, entry)[Len(entries) + 1] = entry
          /\ \A i \in 1 .. Len(entries) : Append(entries, entry)[i] = entries[i]
      BY Appended
    <2> QED
      BY <2>1
  <1>2. PICK f : IsJoined(f, entries) /\ EncodeDirectory(entries) = f[n]
    BY <1>1, EncodedDirectory
  <1>3. PICK g : IsJoined(g, more) /\ EncodeDirectory(more) = g[n + 1]
    <2>1. PICK g : IsJoined(g, more) /\ EncodeDirectory(more) = g[Len(more)]
      BY EncodedDirectory
    <2> QED
      BY <1>1, <2>1
  <1>4. f[n] = g[n]
    <2>1. n \in Nat /\ n <= Len(entries) /\ n <= Len(more) /\ \A i \in 1 .. n : entries[i] = more[i]
      BY <1>1
    <2>2. IsJoined(f, entries) /\ IsJoined(g, more)
      BY <1>2, <1>3
    <2> QED
      BY <2>1, <2>2, JoinedAlike
  <1>5. g[n + 1] = g[n] \o EncodeEntry(entry)
    <2>1. n + 1 \in 1 .. n + 1 /\ (n + 1) - 1 = n
      OBVIOUS
    <2>2. g[n + 1] = g[(n + 1) - 1] \o EncodeEntry(more[n + 1])
      BY <1>1, <1>3, <2>1, Zenon DEF IsJoined
    <2> QED
      BY <1>1, <2>1, <2>2
  <1> QED
    BY <1>1, <1>2, <1>3, <1>4, <1>5, Zenon

LEMMA DirectoryIsEncoded ==
  ASSUME NEW entries \in Seq(EncodableEntry)
  PROVE  EncodeDirectory(entries) \in Seq(Byte)
  <1>1. PICK n \in Nat : n = Len(entries) /\ n \in 0 .. n
    BY SequenceShape
  <1>2. PICK f : IsJoined(f, entries) /\ EncodeDirectory(entries) = f[n]
    BY <1>1, EncodedDirectory
  <1> QED
    BY <1>1, <1>2, Zenon DEF IsJoined

\* The next entry of a directory is encoded behind the first ones.
LEMMA EntryInDirectory ==
  ASSUME NEW entries \in Seq(EncodableEntry), NEW first \in Seq(EncodableEntry),
         NEW n \in Nat, n = Len(first), n < Len(entries), \A i \in 1 .. n : first[i] = entries[i]
  PROVE  EncodedAt(EncodeDirectory(entries), Len(EncodeDirectory(first)), entries[n + 1])
  <1>1. PICK count \in Nat : count = Len(entries)
    BY SequenceShape
  <1>2. PICK f : IsJoined(f, entries) /\ EncodeDirectory(entries) = f[count]
    BY <1>1, EncodedDirectory
  <1>3. PICK g : IsJoined(g, first) /\ EncodeDirectory(first) = g[n]
    BY EncodedDirectory
  <1>4. f[n] = g[n]
    <2>1. n <= Len(entries) /\ n <= Len(first)
      BY <1>1
    <2>2. \A i \in 1 .. n : entries[i] = first[i]
      OBVIOUS
    <2> QED
      BY <1>2, <1>3, <2>1, <2>2, JoinedAlike
  <1>5. n \in 0 .. count /\ n + 1 \in 0 .. count /\ n + 1 \in 1 .. count /\ (n + 1) - 1 = n
    BY <1>1
  <1>6. PICK entry \in EncodableEntry : entry = entries[n + 1]
    BY <1>1, <1>5
  <1>7. PICK t \in Seq(Byte) :
          t = EncodeEntry(entry) /\ Len(t) = EntrySize(entry) /\ EncodedAt(t, 0, entry)
    BY EntryIsEncoded
  <1>8. PICK s \in Seq(Byte) : s = f[n]
    BY <1>1, <1>2, <1>5, Zenon DEF IsJoined
  <1>9. f[n + 1] = s \o t
    <2>1. f[n + 1] = f[(n + 1) - 1] \o EncodeEntry(entries[n + 1])
      BY <1>1, <1>2, <1>5, Zenon DEF IsJoined
    <2> QED
      BY <1>5, <1>6, <1>7, <1>8, <2>1, Zenon
  <1>10. /\ Len(s \o t) = Len(s) + Len(t) /\ Len(s) \in Nat /\ Len(t) \in Nat
         /\ \A i \in 1 .. Len(t) : (s \o t)[Len(s) + i] = t[i]
    BY Concatenated, SequenceShape
  <1>11. /\ Len(s \o t) <= Len(f[count]) /\ Len(f[count]) \in Nat
         /\ \A k \in 1 .. Len(s \o t) : f[count][k] = (s \o t)[k]
    <2>1. PICK m \in 0 .. count : m = n + 1 /\ f[m] = s \o t
      BY <1>5, <1>9
    <2>2. /\ Len(f[m]) <= Len(f[count]) /\ Len(f[count]) \in Nat
          /\ \A k \in 1 .. Len(f[m]) : f[count][k] = f[m][k]
      BY <1>1, <1>2, JoinedGrows
    <2> QED
      BY <2>1, <2>2, Zenon
  <1>12. \A k \in 1 .. EntrySize(entry) : f[count][Len(s) + k] = t[0 + k]
    <2>1. \A k \in 1 .. Len(t) : Len(s) + k \in 1 .. Len(s \o t) /\ 0 + k = k
      BY <1>10
    <2> QED
      BY <1>7, <1>10, <1>11, <2>1, Zenon
  <1>13. Len(s) + EntrySize(entry) <= Len(f[count])
    BY <1>7, <1>10, <1>11
  <1>14. EncodedAt(f[count], Len(s), entry)
    <2>1. 0 \in Nat
      OBVIOUS
    <2> QED
      BY <1>7, <1>10, <1>12, <1>13, <2>1, EncodedElsewhere
  <1> QED
    BY <1>2, <1>3, <1>4, <1>6, <1>8, <1>14, Zenon

LEMMA SameSequence ==
  ASSUME NEW S, NEW s \in Seq(S), NEW t \in Seq(S), Len(s) = Len(t),
         \A i \in 1 .. Len(s) : s[i] = t[i]
  PROVE  s = t
  <1>1. s = [i \in 1 .. Len(s) |-> s[i]] /\ t = [i \in 1 .. Len(s) |-> t[i]]
    OBVIOUS
  <1> QED
    BY <1>1

LEMMA PrefixOf ==
  ASSUME NEW S, NEW s \in Seq(S), NEW c \in 0 .. Len(s)
  PROVE  /\ SubSeq(s, 1, c) \in Seq(S) /\ Len(SubSeq(s, 1, c)) = c
         /\ \A i \in 1 .. c : SubSeq(s, 1, c)[i] = s[i]
  OBVIOUS

LEMMA PrefixGrows ==
  ASSUME NEW S, NEW s \in Seq(S), NEW t \in Seq(S), NEW c \in 0 .. Len(s), c + Len(t) <= Len(s),
         \A k \in 1 .. Len(t) : t[k] = s[c + k]
  PROVE  SubSeq(s, 1, c) \o t = SubSeq(s, 1, c + Len(t))
  <1>1. PICK n \in Nat, d \in Nat : n = Len(s) /\ d = Len(t) /\ c \in Nat /\ c + d <= n
    BY SequenceShape
  <1>2. PICK first \in Seq(S) :
          first = SubSeq(s, 1, c) /\ Len(first) = c /\ \A i \in 1 .. c : first[i] = s[i]
    <2>1. /\ SubSeq(s, 1, c) \in Seq(S) /\ Len(SubSeq(s, 1, c)) = c
          /\ \A i \in 1 .. c : SubSeq(s, 1, c)[i] = s[i]
      BY PrefixOf
    <2> QED
      BY <2>1, Zenon
  <1>3. PICK all \in Seq(S) :
          all = SubSeq(s, 1, c + d) /\ Len(all) = c + d /\ \A i \in 1 .. c + d : all[i] = s[i]
    <2>1. PICK m \in 0 .. Len(s) : m = c + d
      BY <1>1
    <2>2. /\ SubSeq(s, 1, m) \in Seq(S) /\ Len(SubSeq(s, 1, m)) = m
          /\ \A i \in 1 .. m : SubSeq(s, 1, m)[i] = s[i]
      BY PrefixOf
    <2> QED
      BY <2>1, <2>2, Zenon
  <1>4. PICK both \in Seq(S) :
          /\ both = first \o t /\ Len(both) = c + d
          /\ \A i \in 1 .. c : both[i] = first[i]
          /\ \A i \in 1 .. d : both[c + i] = t[i]
    <2>1. /\ first \o t \in Seq(S) /\ Len(first \o t) = Len(first) + Len(t)
          /\ \A i \in 1 .. Len(first) : (first \o t)[i] = first[i]
          /\ \A i \in 1 .. Len(t) : (first \o t)[Len(first) + i] = t[i]
      BY Concatenated
    <2>2. PICK both \in Seq(S) :
            /\ both = first \o t /\ Len(both) = Len(first) + Len(t)
            /\ \A i \in 1 .. Len(first) : both[i] = first[i]
            /\ \A i \in 1 .. Len(t) : both[Len(first) + i] = t[i]
      BY <2>1, Zenon
    <2>3. Len(first) = c /\ Len(t) = d
      BY <1>1, <1>2
    <2>4. Len(both) = c + d /\ (\A i \in 1 .. c : both[i] = first[i]) /\ \A i \in 1 .. d : both[c + i] = t[i]
      BY <2>2, <2>3, Zenon
    <2> QED
      BY <2>2, <2>4, Zenon
  <1>5. ASSUME NEW i \in 1 .. c + d PROVE both[i] = all[i]
    <2>1. CASE i \in 1 .. c
      BY <1>2, <1>3, <1>4, <2>1
    <2>2. CASE i \notin 1 .. c
      <3>1. i - c \in 1 .. d /\ c + (i - c) = i
        BY <1>1, <2>2
      <3>2. both[c + (i - c)] = t[i - c] /\ t[i - c] = s[c + (i - c)]
        BY <1>1, <1>4, <3>1
      <3> QED
        BY <1>3, <3>1, <3>2, Zenon
    <2> QED
      BY <2>1, <2>2
  <1>6. both = all
    BY <1>3, <1>4, <1>5, SameSequence
  <1> QED
    BY <1>1, <1>2, <1>3, <1>4, <1>6, Zenon

-----------------------------------------------------------------------------
(***************************************************************************)
(* The loop over a blob.                                                   *)
(***************************************************************************)

\* What has been read so far is what the bytes in front of the cursor encode.
ReadInv ==
  /\ blob \in Seq(Byte)
  /\ cursor \in 0 .. Len(blob)
  /\ decoded \in Seq(EncodableEntry)
  /\ EncodeDirectory(decoded) = SubSeq(blob, 1, cursor)

\* A directory that was encoded is read from its first entry on.
SourceInv ==
  \A entries \in source :
    /\ entries \in Seq(EncodableEntry)
    /\ blob = EncodeDirectory(entries)
    /\ Len(decoded) <= Len(entries)
    /\ \A i \in 1 .. Len(decoded) : decoded[i] = entries[i]
    /\ outcome # "throw"
    /\ outcome = "end" => cursor = Len(blob)

LEMMA Initially == ASSUME Init PROVE ReadInv /\ SourceInv
  <1>1. \A entries \in source : entries \in Seq(EncodableEntry) /\ blob = EncodeDirectory(entries)
    BY DirectoriesAssumption DEF Init
  <1>2. blob \in Seq(Byte)
    BY <1>1, BlobsAssumption, DirectoryIsEncoded DEF Init
  <1>3. cursor = 0 /\ decoded = <<>> /\ outcome = "decoding"
    BY DEF Init
  <1>4. ReadInv
    <2>1. Len(blob) \in Nat
      BY <1>2, SequenceShape
    <2>2. SubSeq(blob, 1, 0) = <<>>
      BY <1>2
    <2>3. 0 \in 0 .. Len(blob) /\ <<>> \in Seq(EncodableEntry)
      BY <2>1
    <2> QED
      BY <1>2, <1>3, <2>2, <2>3, EmptyDirectory, Zenon DEF ReadInv
  <1>5. SourceInv
    <2>1. ASSUME NEW entries \in source PROVE Len(decoded) <= Len(entries) /\ 1 .. Len(decoded) = {}
      <3>1. Len(entries) \in Nat
        BY <1>1, SequenceShape
      <3> QED
        BY <1>3, <3>1
    <2> QED
      BY <1>1, <1>3, <2>1 DEF SourceInv
  <1> QED
    BY <1>4, <1>5

LEMMA ReadNext == ASSUME ReadInv, [Next]_vars PROVE ReadInv'
  <1>1. CASE UNCHANGED vars
    BY <1>1 DEF ReadInv, vars
  <1>2. CASE LeaveLoop
    BY <1>2 DEF ReadInv, LeaveLoop
  <1>3. CASE NextEntry /\ ~ CanDecode(cursor)
    BY <1>3 DEF ReadInv, NextEntry
  <1>4. CASE NextEntry /\ CanDecode(cursor)
    <2>1. PICK size \in Nat, at \in Nat : size = Len(blob) /\ at = cursor /\ at \in 0 .. size - 1
      <3>1. Len(blob) \in Nat
        BY SequenceShape DEF ReadInv
      <3> QED
        BY <1>4, <3>1 DEF ReadInv, NextEntry
    <2>2. PICK entry \in EncodableEntry :
            entry = Decode(at) /\ EncodedAt(blob, at, entry) /\ Behind(at) = at + EntrySize(entry)
      BY <1>4, <2>1, DecodedEntryWasEncoded DEF ReadInv
    <2>3. PICK t \in Seq(Byte) :
            t = EncodeEntry(entry) /\ Len(t) = EntrySize(entry) /\ EncodedAt(t, 0, entry)
      BY EntryIsEncoded
    <2>4. \A k \in 1 .. Len(t) : t[k] = blob[at + k]
      <3>1. \A k \in 1 .. EntrySize(entry) : t[0 + k] = blob[at + k]
        <4>1. 0 \in Nat
          OBVIOUS
        <4> QED
          BY <2>2, <2>3, <4>1, EncodedAlike
      <3>2. Len(t) \in Nat
        BY SequenceShape
      <3>3. \A k \in 1 .. Len(t) : 0 + k = k
        BY <3>2
      <3> QED
        BY <2>3, <3>1, <3>3
    <2>5. at + Len(t) <= Len(blob) /\ at + Len(t) \in Nat /\ blob \in Seq(Byte)
      BY <2>1, <2>2, <2>3, EntryShape DEF EncodedAt, ReadInv
    <2>6. SubSeq(blob, 1, at) \o t = SubSeq(blob, 1, at + Len(t))
      <3>1. at \in 0 .. Len(blob)
        BY <2>1 DEF ReadInv
      <3> QED
        BY <2>4, <2>5, <3>1, PrefixGrows
    <2>7. decoded' = Append(decoded, entry) /\ cursor' = at + Len(t) /\ blob' = blob
      BY <1>4, <2>1, <2>2, <2>3 DEF NextEntry
    <2>8. EncodeDirectory(Append(decoded, entry)) = EncodeDirectory(decoded) \o t
      BY <2>3, OneMoreEntry DEF ReadInv
    <2>9. EncodeDirectory(Append(decoded, entry)) = SubSeq(blob, 1, at + Len(t))
      BY <2>1, <2>6, <2>8, Zenon DEF ReadInv
    <2>10. Append(decoded, entry) \in Seq(EncodableEntry)
      BY DEF ReadInv
    <2>11. at + Len(t) \in 0 .. Len(blob)
      BY <2>1, <2>5
    <2> QED
      BY <2>5, <2>7, <2>9, <2>10, <2>11, Zenon DEF ReadInv
  <1> QED
    BY <1>1, <1>2, <1>3, <1>4 DEF Next

\* The cursor is at an entry that was encoded until there is none left.
LEMMA AtNextEntry ==
  ASSUME ReadInv, SourceInv, NEW entries \in source, NEW n \in Nat, n = Len(decoded)
  PROVE  /\ n < Len(entries) => EncodedAt(blob, cursor, entries[n + 1]) /\ cursor # Len(blob)
         /\ n = Len(entries) => decoded = entries /\ cursor = Len(blob)
  <1>1. PICK size \in Nat, count \in Nat : size = Len(blob) /\ count = Len(entries)
    BY SequenceShape DEF ReadInv, SourceInv
  <1>2. Len(EncodeDirectory(decoded)) = cursor /\ cursor \in 0 .. size
    <2>1. Len(SubSeq(blob, 1, cursor)) = cursor
      BY <1>1 DEF ReadInv
    <2> QED
      BY <1>1, <2>1 DEF ReadInv
  <1>3. /\ entries \in Seq(EncodableEntry) /\ decoded \in Seq(EncodableEntry)
        /\ blob = EncodeDirectory(entries) /\ \A i \in 1 .. n : decoded[i] = entries[i]
    BY DEF ReadInv, SourceInv
  <1>4. CASE n < Len(entries)
    <2>1. EncodedAt(blob, cursor, entries[n + 1])
      BY <1>2, <1>3, <1>4, EntryInDirectory
    <2>2. entries[n + 1] \in EncodableEntry
      BY <1>1, <1>3, <1>4
    <2>3. PICK k \in Nat \ {0} : k = EntrySize(entries[n + 1]) /\ cursor + k <= size
      BY <1>1, <2>1, <2>2, EntryShape DEF EncodedAt
    <2>4. cursor # size
      BY <1>2, <2>3
    <2> QED
      BY <1>1, <1>4, <2>1, <2>4
  <1>5. CASE n = Len(entries)
    <2>1. decoded = entries
      BY <1>3, <1>5, SameSequence
    <2> QED
      BY <1>1, <1>2, <1>3, <1>5, <2>1
  <1> QED
    BY <1>1, <1>4, <1>5

LEMMA SourceNext == ASSUME ReadInv, SourceInv, [Next]_vars PROVE SourceInv'
  <1>1. CASE UNCHANGED vars
    BY <1>1 DEF SourceInv, vars
  <1>2. CASE LeaveLoop
    BY <1>2 DEF SourceInv, LeaveLoop
  <1>3. CASE NextEntry
    <2> SUFFICES ASSUME NEW entries \in source
        PROVE  /\ CanDecode(cursor) /\ outcome' # "end" /\ outcome' # "throw"
               /\ Len(decoded') <= Len(entries)
               /\ \A i \in 1 .. Len(decoded') : decoded'[i] = entries[i]
      BY <1>3 DEF SourceInv, NextEntry
    <2>1. PICK n \in Nat, count \in Nat : n = Len(decoded) /\ count = Len(entries) /\ n <= count
      BY SequenceShape DEF ReadInv, SourceInv
    <2>2. n < count
      <3>1. cursor # Len(blob)
        BY <1>3 DEF NextEntry
      <3>2. n # count
        BY <2>1, <3>1, AtNextEntry
      <3> QED
        BY <2>1, <3>2
    <2>3. EncodedAt(blob, cursor, entries[n + 1])
      BY <2>1, <2>2, AtNextEntry
    <2>4. entries[n + 1] \in EncodableEntry
      BY <2>1, <2>2 DEF SourceInv
    <2>5. CanDecode(cursor) /\ Decode(cursor) = entries[n + 1]
      <3>1. cursor \in Nat /\ blob \in Seq(Byte)
        BY DEF ReadInv
      <3> QED
        BY <2>3, <2>4, <3>1, EncodedEntryIsDecoded
    <2>6. decoded' = Append(decoded, entries[n + 1]) /\ outcome' = "decoding"
      BY <1>3, <2>5 DEF NextEntry
    <2>7. PICK more \in Seq(EncodableEntry) :
            /\ more = Append(decoded, entries[n + 1]) /\ Len(more) = n + 1
            /\ more[n + 1] = entries[n + 1] /\ \A i \in 1 .. n : more[i] = decoded[i]
      <3>1. PICK d \in Seq(EncodableEntry), x \in EncodableEntry : d = decoded /\ x = entries[n + 1]
        BY <2>4 DEF ReadInv
      <3>2. /\ Append(d, x) \in Seq(EncodableEntry) /\ Len(Append(d, x)) = Len(d) + 1
            /\ Append(d, x)[Len(d) + 1] = x /\ \A i \in 1 .. Len(d) : Append(d, x)[i] = d[i]
        BY Appended
      <3> QED
        BY <2>1, <3>1, <3>2, Zenon
    <2>8. \A i \in 1 .. n + 1 : more[i] = entries[i]
      <3>1. \A i \in 1 .. n + 1 : i = n + 1 \/ i \in 1 .. n
        OBVIOUS
      <3>2. \A i \in 1 .. n : decoded[i] = entries[i]
        BY <2>1 DEF SourceInv
      <3> QED
        BY <2>7, <3>1, <3>2
    <2> QED
      BY <2>1, <2>2, <2>5, <2>6, <2>7, <2>8
  <1> QED
    BY <1>1, <1>2, <1>3 DEF Next

\* The loops of find_entry and adaptor_readdir (operations.cpp) never leave a
\* blob, whatever its bytes are.
THEOREM CursorStaysInBlob == Spec => []CursorInBlob
  <1>1. ReadInv => CursorInBlob
    BY DEF ReadInv, CursorInBlob
  <1> QED
    BY <1>1, Initially, ReadNext, PTL DEF Spec

\* Whatever decode_entry (directory.cpp) accepts is an encoding of what it
\* returns: a blob has one reading.
THEOREM OnlyEncodingsAreAccepted == Spec => []AcceptsOnlyEncodings
  <1>1. ReadInv => AcceptsOnlyEncodings
    BY DEF ReadInv, AcceptsOnlyEncodings
  <1> QED
    BY <1>1, Initially, ReadNext, PTL DEF Spec

\* Every directory that encode_entry (directory.h) can write is read as it was:
\* with names and digests of any bytes, and sizes up to the largest.
THEOREM DirectoriesAreDecoded == Spec => []DecodesWhatWasEncoded
  <1>1. ASSUME ReadInv, SourceInv PROVE DecodesWhatWasEncoded
    <2> SUFFICES ASSUME NEW entries \in source PROVE outcome # "throw" /\ (outcome = "end" => decoded = entries)
      BY DEF DecodesWhatWasEncoded
    <2>1. PICK n \in Nat, count \in Nat : n = Len(decoded) /\ count = Len(entries) /\ n <= count
      BY <1>1, SequenceShape DEF ReadInv, SourceInv
    <2>2. n < count \/ n = count
      BY <2>1
    <2> QED
      BY <1>1, <2>1, <2>2, AtNextEntry DEF SourceInv
  <1> QED
    BY <1>1, Initially, ReadNext, SourceNext, PTL DEF Spec
=============================================================================

---------------------------- MODULE DogboxLemmas ----------------------------
(***************************************************************************)
(* Lemmas about the operators that the models are built from: numbers, the *)
(* blob table, the layout of files, and the search for a path.             *)
(***************************************************************************)
EXTENDS Directory, SequenceTheorems, WellFoundedInduction, TLAPS

-----------------------------------------------------------------------------
(***************************************************************************)
(* Numbers.  An induction is led by the least number a claim fails for.    *)
(***************************************************************************)

LEMMA LessIsARelation ==
  ASSUME NEW m \in Nat, NEW n \in Nat
  PROVE  <<m, n>> \in OpToRel(<, Nat) <=> m < n
  BY DEF OpToRel

LEMMA LeastNumber ==
  ASSUME NEW T, T \subseteq Nat, T # {}
  PROVE  \E m \in T : \A n \in T : m <= n
  <1>1. \E m \in T : \A n \in T : ~ (<<n, m>> \in OpToRel(<, Nat))
    BY NatLessThanWellFounded, WFMin
  <1>2. PICK m \in T : \A n \in T : ~ (<<n, m>> \in OpToRel(<, Nat))
    BY <1>1
  <1>3. ASSUME NEW n \in T PROVE m <= n
    <2>1. m \in Nat /\ n \in Nat
      OBVIOUS
    <2>2. ~ (n < m)
      BY <1>2, <2>1, LessIsARelation
    <2> QED
      BY <2>1, <2>2
  <1> QED
    BY <1>3

LEMMA Division ==
  ASSUME NEW n \in Nat \ {0}, NEW i \in Nat
  PROVE  /\ i \div n \in Nat
         /\ i % n \in 0 .. n - 1
         /\ i = n * (i \div n) + (i % n)
  OBVIOUS

LEMMA RemainderOfSmall ==
  ASSUME NEW n \in Nat \ {0}, NEW t \in 0 .. n - 1
  PROVE  t % n = t
  OBVIOUS

LEMMA RemainderAtMost ==
  ASSUME NEW n \in Nat \ {0}, NEW i \in Nat
  PROVE  i % n <= i
  <1>1. PICK q \in Nat, r \in 0 .. n - 1 : r = i % n /\ i = n * q + r
    BY Division
  <1>2. n * q \in Nat
    OBVIOUS
  <1> QED
    BY <1>1, <1>2

LEMMA NextMultiple ==
  ASSUME NEW n \in Nat \ {0}, NEW p \in Nat, NEW q \in Nat, p < q
  PROVE  n * p + n <= n * q
  <1> DEFINE d == q - p - 1
  <1>1. d \in Nat /\ q = p + 1 + d
    OBVIOUS
  <1>2. n * d \in Nat
    BY <1>1
  <1> HIDE DEF d
  <1>3. n * (p + 1 + d) = n * p + n + n * d
    BY <1>1
  <1> QED
    BY <1>1, <1>2, <1>3

\* Quotient and remainder are unique.
LEMMA UniqueDivision ==
  ASSUME NEW n \in Nat \ {0}, NEW p \in Nat, NEW q \in Nat,
         NEW r \in 0 .. n - 1, NEW s \in 0 .. n - 1,
         n * p + r = n * q + s
  PROVE  p = q /\ r = s
  <1>1. n * p \in Nat /\ n * q \in Nat
    OBVIOUS
  <1>2. ~ (p < q)
    BY <1>1, NextMultiple
  <1>3. ~ (q < p)
    BY <1>1, NextMultiple
  <1>4. p = q
    BY <1>2, <1>3
  <1> QED
    BY <1>4

\* One round of the loop leaves the remainder alone.
LEMMA RemainderAfterStride ==
  ASSUME NEW n \in Nat \ {0}, NEW k \in Nat
  PROVE  (k + n) % n = k % n
  <1>1. PICK p \in Nat, r \in 0 .. n - 1 : r = k % n /\ k = n * p + r
    BY Division
  <1>2. PICK q \in Nat, s \in 0 .. n - 1 : s = (k + n) % n /\ k + n = n * q + s
    <2>1. k + n \in Nat
      OBVIOUS
    <2> QED
      BY <2>1, Division
  <1>3. n * (p + 1) + r = n * q + s /\ p + 1 \in Nat
    BY <1>1, <1>2
  <1>4. r = s
    BY <1>3, UniqueDivision
  <1> QED
    BY <1>1, <1>2, <1>4

\* Between two rounds of a thread there is no other number of its own.
LEMMA NothingBetweenStrides ==
  ASSUME NEW n \in Nat \ {0}, NEW k \in Nat, NEW i \in Nat,
         i % n = k % n, k <= i, i < k + n
  PROVE  i = k
  <1>1. PICK p \in Nat, r \in 0 .. n - 1 : r = k % n /\ k = n * p + r
    BY Division
  <1>2. PICK q \in Nat : i = n * q + r
    <2>1. PICK q \in Nat, s \in 0 .. n - 1 : s = i % n /\ i = n * q + s
      BY Division
    <2>2. r = s
      BY <1>1, <2>1
    <2> QED
      BY <2>1, <2>2
  <1>3. n * p \in Nat /\ n * q \in Nat
    OBVIOUS
  <1>4. ~ (p < q)
    BY <1>1, <1>2, <1>3, NextMultiple
  <1>5. ~ (q < p)
    BY <1>1, <1>2, <1>3, NextMultiple
  <1>6. p = q
    BY <1>4, <1>5
  <1> QED
    BY <1>1, <1>2, <1>6

-----------------------------------------------------------------------------
(***************************************************************************)
(* Recursive functions f[i \in 0 .. n], where f[i] is made from f[i - 1]:  *)
(* there is one.                                                           *)
(***************************************************************************)

IsRecursive(f, base, step, n) ==
  f = [i \in 0 .. n |-> IF i = 0 THEN base ELSE step[<<i, f[i - 1]>>]]

\* One more value.
LEMMA RecursionGoesOn ==
  ASSUME NEW U, NEW base \in U, NEW step \in [Nat \X U -> U], NEW m \in Nat \ {0},
         NEW f \in [0 .. m - 1 -> U], IsRecursive(f, base, step, m - 1)
  PROVE  \E g \in [0 .. m -> U] : IsRecursive(g, base, step, m)
  <1> DEFINE g == [i \in 0 .. m |-> IF i = m THEN step[<<m, f[m - 1]>>] ELSE f[i]]
  <1>1. \A i \in 0 .. m - 1 : f[i] = IF i = 0 THEN base ELSE step[<<i, f[i - 1]>>]
    BY DEF IsRecursive
  <1>2. m - 1 \in 0 .. m - 1 /\ <<m, f[m - 1]>> \in Nat \X U
    OBVIOUS
  <1>3. step[<<m, f[m - 1]>>] \in U
    BY <1>2
  <1>4. \A i \in 0 .. m : i = m \/ i \in 0 .. m - 1
    OBVIOUS
  <1>5. g \in [0 .. m -> U]
    BY <1>3, <1>4
  <1>6. \A i \in 0 .. m - 1 : g[i] = f[i]
    OBVIOUS
  <1>7. g[m] = step[<<m, f[m - 1]>>] /\ g = [i \in 0 .. m |-> g[i]]
    OBVIOUS
  <1> HIDE DEF g
  <1>8. ASSUME NEW i \in 0 .. m
        PROVE  g[i] = IF i = 0 THEN base ELSE step[<<i, g[i - 1]>>]
    <2>1. CASE i = m
      BY <1>2, <1>6, <1>7, <2>1
    <2>2. CASE i = 0
      <3>1. 0 \in 0 .. m - 1
        OBVIOUS
      <3> QED
        BY <1>1, <1>6, <2>2, <3>1
    <2>3. CASE i \in 1 .. m - 1
      <3>1. i \in 0 .. m - 1 /\ i # 0 /\ i - 1 \in 0 .. m - 1
        BY <2>3
      <3>2. g[i] = f[i] /\ g[i - 1] = f[i - 1]
        BY <1>6, <3>1
      <3> QED
        BY <1>1, <3>1, <3>2
    <2> QED
      BY <2>1, <2>2, <2>3
  <1>9. IsRecursive(g, base, step, m)
    BY <1>7, <1>8 DEF IsRecursive
  <1> QED
    BY <1>5, <1>9

LEMMA RecursionExists ==
  ASSUME NEW U, NEW base \in U, NEW step \in [Nat \X U -> U], NEW n \in Nat
  PROVE  \E f \in [0 .. n -> U] : IsRecursive(f, base, step, n)
  <1> DEFINE Bad == {m \in Nat : ~ \E f \in [0 .. m -> U] : IsRecursive(f, base, step, m)}
  <1>1. Bad = {}
    <2> SUFFICES ASSUME Bad # {} PROVE FALSE
      OBVIOUS
    <2>1. Bad \subseteq Nat
      OBVIOUS
    <2>2. PICK m \in Bad : \A k \in Bad : m <= k
      <3> HIDE DEF Bad
      <3> QED
        BY <2>1, LeastNumber
    <2>3. m \in Nat /\ ~ \E f \in [0 .. m -> U] : IsRecursive(f, base, step, m)
      OBVIOUS
    <2>4. m # 0
      <3> DEFINE f == [i \in 0 .. 0 |-> base]
      <3>1. f \in [0 .. 0 -> U]
        OBVIOUS
      <3>2. f = [i \in 0 .. 0 |-> IF i = 0 THEN base ELSE step[<<i, f[i - 1]>>]]
        OBVIOUS
      <3> HIDE DEF f
      <3>3. IsRecursive(f, base, step, 0)
        BY <3>2 DEF IsRecursive
      <3> QED
        BY <2>3, <3>1, <3>3
    <2>5. m - 1 \in Nat /\ m - 1 \notin Bad
      <3>1. m - 1 \in Nat /\ ~ (m <= m - 1)
        BY <2>3, <2>4
      <3> HIDE DEF Bad
      <3> QED
        BY <2>2, <3>1
    <2>6. PICK f \in [0 .. m - 1 -> U] : IsRecursive(f, base, step, m - 1)
      BY <2>5
    <2> QED
      BY <2>3, <2>4, <2>6, RecursionGoesOn
  <1> QED
    BY <1>1

-----------------------------------------------------------------------------
(* The blob table (blob_storage.cpp:56 to 101). *)

\* Nothing that is stored is ever lost or changed.
LEMMA RowsStay ==
  ASSUME NEW rows, NEW content, NEW hash_code, Stored(rows, hash_code)
  PROVE  /\ Stored(InsertRow(rows, content), hash_code)
         /\ Stored(StoreBlob(rows, content), hash_code)
  BY DEF Stored, InsertRow, StoreBlob

LEMMA InsertedIsStored ==
  ASSUME NEW rows, NEW content
  PROVE  Stored(InsertRow(rows, content), Sha256(content))
  BY DEF Stored, InsertRow

LEMMA StoredBlob ==
  ASSUME NEW rows, NEW content
  PROVE  /\ DOMAIN StoreBlob(rows, content) = DOMAIN rows \cup {Sha256(content)}
         /\ \A h \in DOMAIN rows : StoreBlob(rows, content)[h] = rows[h]
  BY DEF Stored, InsertRow, StoreBlob

LEMMA StoredKeepsAddresses ==
  ASSUME NEW rows, NEW content, ContentAddressed(rows)
  PROVE  ContentAddressed(StoreBlob(rows, content))
  BY DEF Stored, InsertRow, StoreBlob, ContentAddressed

\* One table has all rows of another.
Grows(rows, more) == DOMAIN rows \subseteq DOMAIN more /\ \A h \in DOMAIN rows : more[h] = rows[h]

LEMMA GrowsItself ==
  ASSUME NEW rows
  PROVE  Grows(rows, rows)
  BY DEF Grows

\* A digest determines the content.
LEMMA DigestsDiffer ==
  ASSUME NEW c, NEW d, Sha256(c) = Sha256(d)
  PROVE  c = d
  BY DEF Sha256

-----------------------------------------------------------------------------
(* What blobs mention. *)

Mentioned(symbol) == IF symbol.kind = "entry" THEN symbol.hash_code ELSE symbol

LEMMA MentionedSymbols ==
  ASSUME NEW content, NEW T, \A i \in DOMAIN content : content[i] \in Byte \/ Mentioned(content[i]) \in T
  PROVE  References(content) \subseteq T
  BY DEF References, Mentioned

LEMMA DigestIsMentioned ==
  ASSUME NEW content
  PROVE  Mentioned(Sha256(content)) = Sha256(content)
  BY DEF Mentioned, Sha256

\* Bytes mention nothing.
LEMMA BytesMentionNothing ==
  ASSUME NEW content \in Seq(Byte)
  PROVE  References(content) = {}
  BY DEF References

\* A directory mentions what its entries stand for.
LEMMA EntriesMention ==
  ASSUME NEW content, NEW T,
         \A i \in DOMAIN content : content[i].kind = "entry" /\ content[i].hash_code \in T
  PROVE  References(content) \subseteq T
  BY DEF References

-----------------------------------------------------------------------------
(* The layout of a file (import.cpp:117 to 147, regular_file.h). *)

\* The pieces of a size, and what is left over.
LEMMA PiecesOfSize ==
  ASSUME NEW n \in Nat
  PROVE  /\ NumberOfPieces(n) \in Nat
         /\ NumberOfPieces(n) * PieceLength <= n
         /\ RemainingSize(n) \in 0 .. PieceLength - 1
  BY PieceLengthAssumption DEF NumberOfPieces, RemainingSize

\* Every piece is inside of the file.
LEMMA PieceInFile ==
  ASSUME NEW n \in Nat, NEW i \in 0 .. NumberOfPieces(n) - 1
  PROVE  i * PieceLength \in Nat /\ i * PieceLength + PieceLength <= n
  <1>1. i \in Nat /\ NumberOfPieces(n) \in Nat /\ i < NumberOfPieces(n)
    BY PiecesOfSize
  <1>2. PieceLength * i + PieceLength <= PieceLength * NumberOfPieces(n)
    BY <1>1, NextMultiple, PieceLengthAssumption
  <1>3. PICK p \in Nat : p = PieceLength * i
    BY <1>1, PieceLengthAssumption
  <1>4. PICK q \in Nat : q = PieceLength * NumberOfPieces(n)
    BY <1>1, PieceLengthAssumption
  <1>5. i * PieceLength = p /\ NumberOfPieces(n) * PieceLength = q
    BY <1>1, <1>3, <1>4, PieceLengthAssumption
  <1> QED
    BY <1>2, <1>3, <1>4, <1>5, PiecesOfSize, PieceLengthAssumption

\* What is read is what is there.
LEMMA ReadAtContent ==
  ASSUME NEW S, NEW content \in Seq(S), NEW offset \in Nat, NEW count \in Nat,
         CanReadAt(content, offset, count)
  PROVE  /\ ReadAt(content, offset, count) \in Seq(S)
         /\ Len(ReadAt(content, offset, count)) = count
         /\ \A i \in 1 .. count : ReadAt(content, offset, count)[i] = content[offset + i]
  <1>1. \A i \in offset + 1 .. offset + count : content[i] \in S
    BY DEF CanReadAt
  <1>2. /\ SubSeq(content, offset + 1, offset + count) \in Seq(S)
        /\ Len(SubSeq(content, offset + 1, offset + count)) =
             IF offset + 1 <= offset + count THEN (offset + count) - (offset + 1) + 1 ELSE 0
        /\ \A i \in 1 .. (offset + count) - (offset + 1) + 1 :
             SubSeq(content, offset + 1, offset + count)[i] = content[offset + 1 + i - 1]
    <2>1. PICK m, n : m = offset + 1 /\ n = offset + count
      OBVIOUS
    <2>2. m \in Int /\ n \in Int /\ \A i \in m .. n : content[i] \in S
      BY <1>1, <2>1
    <2>3. /\ SubSeq(content, m, n) \in Seq(S)
          /\ Len(SubSeq(content, m, n)) = IF m <= n THEN n - m + 1 ELSE 0
          /\ \A i \in 1 .. n - m + 1 : SubSeq(content, m, n)[i] = content[m + i - 1]
      BY <2>2, SubSeqProperties
    <2> QED
      BY <2>1, <2>3, Zenon
  <1> QED
    BY <1>2 DEF ReadAt

\* An index: the digests first, then the bytes that are left over.
LEMMA IndexShape ==
  ASSUME NEW hash_codes, NEW n \in Nat, NEW tail \in Seq(Byte)
  PROVE  /\ Len(EncodeFile(hash_codes, n, tail)) = n + Len(tail)
         /\ DOMAIN EncodeFile(hash_codes, n, tail) = 1 .. n + Len(tail)
         /\ \E S : EncodeFile(hash_codes, n, tail) \in Seq(S)
         /\ \A i \in 1 .. n + Len(tail) :
              EncodeFile(hash_codes, n, tail)[i] = IF i <= n THEN hash_codes[i - 1] ELSE tail[i - n]
  <1> DEFINE S == {hash_codes[i] : i \in 0 .. n - 1} \cup Byte
             digests == [i \in 1 .. n |-> hash_codes[i - 1]]
  <1>1. digests \in [1 .. n -> S]
    OBVIOUS
  <1>2. digests \in Seq(S) /\ Len(digests) = n
    BY <1>1
  <1>3. tail \in Seq(S) /\ Len(tail) \in Nat
    OBVIOUS
  <1>4. \A i \in 1 .. n : digests[i] = hash_codes[i - 1]
    OBVIOUS
  <1> HIDE DEF S, digests
  <1>5. /\ digests \o tail \in Seq(S)
        /\ Len(digests \o tail) = n + Len(tail)
        /\ \A i \in 1 .. n + Len(tail) :
             (digests \o tail)[i] = IF i <= n THEN digests[i] ELSE tail[i - n]
    BY <1>2, <1>3, ConcatProperties
  <1>6. DOMAIN (digests \o tail) = 1 .. n + Len(tail)
    BY <1>5
  <1>7. \A i \in 1 .. n + Len(tail) :
          (digests \o tail)[i] = IF i <= n THEN hash_codes[i - 1] ELSE tail[i - n]
    BY <1>3, <1>4, <1>5
  <1>8. EncodeFile(hash_codes, n, tail) = digests \o tail
    BY DEF EncodeFile, digests
  <1> QED
    BY <1>5, <1>6, <1>7, <1>8

\* An index mentions its pieces.
LEMMA IndexMentions ==
  ASSUME NEW hash_codes, NEW n \in Nat, NEW tail \in Seq(Byte), NEW T,
         \A i \in 0 .. n - 1 : Mentioned(hash_codes[i]) \in T
  PROVE  References(EncodeFile(hash_codes, n, tail)) \subseteq T
  <1> DEFINE index == EncodeFile(hash_codes, n, tail)
  <1>1. /\ DOMAIN index = 1 .. n + Len(tail)
        /\ \A j \in 1 .. n + Len(tail) :
             index[j] = IF j <= n THEN hash_codes[j - 1] ELSE tail[j - n]
    BY IndexShape
  <1> HIDE DEF index
  <1>2. ASSUME NEW j \in DOMAIN index PROVE index[j] \in Byte \/ Mentioned(index[j]) \in T
    <2>1. CASE j \in 1 .. n
      BY <1>1, <2>1
    <2>2. CASE j \notin 1 .. n
      <3>1. j - n \in 1 .. Len(tail) /\ index[j] = tail[j - n]
        BY <1>1, <2>2
      <3> QED
        BY <3>1
    <2> QED
      BY <2>1, <2>2
  <1>3. References(index) \subseteq T
    BY <1>2, MentionedSymbols
  <1> QED
    BY <1>3 DEF index

\* The bytes of a full piece.
LEMMA ByteOfPiece ==
  ASSUME NEW content \in Seq(Byte), NEW i \in Nat,
         CanReadAt(content, (i \div PieceLength) * PieceLength, PieceLength)
  PROVE  /\ i < Len(content)
         /\ ReadAt(content, (i \div PieceLength) * PieceLength, PieceLength)[(i % PieceLength) + 1]
              = content[i + 1]
  <1>1. PICK p \in Nat, r \in 0 .. PieceLength - 1 :
          p = i \div PieceLength /\ r = i % PieceLength /\ i = PieceLength * p + r
    BY Division, PieceLengthAssumption
  <1>2. PICK offset \in Nat : offset = p * PieceLength /\ i = offset + r
    BY <1>1, PieceLengthAssumption
  <1>3. CanReadAt(content, offset, PieceLength) /\ offset + PieceLength <= Len(content)
    BY <1>1, <1>2, PieceLengthAssumption DEF CanReadAt
  <1>4. i < Len(content)
    BY <1>1, <1>2, <1>3, PieceLengthAssumption
  <1>5. \A j \in 1 .. PieceLength : ReadAt(content, offset, PieceLength)[j] = content[offset + j]
    BY <1>3, ReadAtContent, PieceLengthAssumption
  <1>6. r + 1 \in 1 .. PieceLength /\ offset + (r + 1) = i + 1
    BY <1>1, <1>2, PieceLengthAssumption
  <1>7. ReadAt(content, offset, PieceLength)[r + 1] = content[i + 1]
    BY <1>5, <1>6
  <1>8. (i \div PieceLength) * PieceLength = offset
    BY <1>1, <1>2
  <1> QED
    BY <1>1, <1>4, <1>7, <1>8

\* The bytes behind the last full piece.
LEMMA ByteOfTail ==
  ASSUME NEW size \in Nat, NEW i \in 0 .. size - 1, ~ (i \div PieceLength < NumberOfPieces(size))
  PROVE  /\ i \div PieceLength = NumberOfPieces(size)
         /\ i % PieceLength < RemainingSize(size)
         /\ i = NumberOfPieces(size) * PieceLength + (i % PieceLength)
  <1>1. PICK p \in Nat, r \in 0 .. PieceLength - 1 :
          p = i \div PieceLength /\ r = i % PieceLength /\ i = PieceLength * p + r
    <2>1. i \in Nat
      OBVIOUS
    <2> QED
      BY <2>1, Division, PieceLengthAssumption
  <1>2. PICK n \in Nat, s \in 0 .. PieceLength - 1 :
          n = NumberOfPieces(size) /\ s = size % PieceLength /\ size = PieceLength * n + s
    BY Division, PieceLengthAssumption DEF NumberOfPieces
  <1>3. PieceLength * p \in Nat /\ PieceLength * n \in Nat
    BY <1>1, <1>2, PieceLengthAssumption
  <1>4. ~ (n < p)
    <2>1. n < p => PieceLength * n + PieceLength <= PieceLength * p
      BY <1>1, <1>2, NextMultiple, PieceLengthAssumption
    <2> QED
      BY <1>1, <1>2, <1>3, <2>1, PieceLengthAssumption
  <1>5. p = n
    BY <1>1, <1>2, <1>4
  <1>6. PICK m \in Nat : m = PieceLength * n
    BY <1>3
  <1>7. m = n * PieceLength /\ RemainingSize(size) = size - m
    <2>1. PieceLength * n = n * PieceLength
      BY <1>2, PieceLengthAssumption
    <2> QED
      BY <1>2, <1>6, <2>1 DEF RemainingSize
  <1>8. RemainingSize(size) = s /\ size = m + s /\ i = m + r
    <2>1. size = m + s /\ i = m + r
      BY <1>1, <1>2, <1>5, <1>6
    <2>2. s \in Nat /\ (m + s) - m = s
      BY <1>2, <1>6, PieceLengthAssumption
    <2> QED
      BY <1>7, <2>1, <2>2
  <1>9. r < s
    BY <1>8
  <1>10. i \div PieceLength = NumberOfPieces(size) /\ i % PieceLength < RemainingSize(size)
    BY <1>1, <1>2, <1>5, <1>8, <1>9
  <1>11. i = NumberOfPieces(size) * PieceLength + (i % PieceLength)
    BY <1>1, <1>2, <1>7, <1>8
  <1> QED
    BY <1>10, <1>11

\* An index with these digests and these bytes at its end.
IsIndexOf(index, hash_codes, size, tail) ==
  /\ Len(index.pieces) = NumberOfPieces(size)
  /\ DOMAIN index.pieces = 1 .. NumberOfPieces(size)
  /\ \A i \in 1 .. NumberOfPieces(size) : index.pieces[i] = hash_codes[i - 1]
  /\ index.tail = tail

\* What was encoded is loaded (regular_file_index.cpp:8 to 46).
LEMMA LoadedIndex ==
  ASSUME NEW rows, NEW h, h \in DOMAIN rows, NEW hash_codes, NEW size \in Nat,
         NEW tail \in Seq(Byte), Len(tail) = RemainingSize(size),
         rows[h] = EncodeFile(hash_codes, NumberOfPieces(size), tail)
  PROVE  /\ CanLoadIndex(rows, size, h)
         /\ IsIndexOf(LoadIndex(rows, size, h), hash_codes, size, tail)
  <1> DEFINE n == NumberOfPieces(size)
             m == RemainingSize(size)
             blob == rows[h]
             index == LoadIndex(rows, size, h)
  <1>1. n \in Nat /\ m \in 0 .. PieceLength - 1 /\ m \in Nat
    BY PiecesOfSize, PieceLengthAssumption
  <1>2. size = 0 => n = 0 /\ m = 0
    BY PieceLengthAssumption DEF NumberOfPieces, RemainingSize
  <1>3. Stored(rows, h)
    BY DEF Stored
  <1>4. blob = EncodeFile(hash_codes, n, tail) /\ Len(tail) = m
    OBVIOUS
  <1>5. /\ CanLoadIndex(rows, size, h) <=> size = 0 \/ n + m <= Len(blob)
        /\ index = IF size = 0 THEN [pieces |-> <<>>, tail |-> <<>>]
                   ELSE [pieces |-> ReadAt(blob, 0, n), tail |-> ReadAt(blob, n, m)]
    BY <1>3 DEF CanLoadIndex, LoadIndex
  <1> HIDE DEF n, m, blob, index
  <1>6. /\ Len(blob) = n + m /\ DOMAIN blob = 1 .. n + m
        /\ \E S : blob \in Seq(S)
        /\ \A i \in 1 .. n + m : blob[i] = IF i <= n THEN hash_codes[i - 1] ELSE tail[i - n]
    <2> DEFINE encoded == EncodeFile(hash_codes, n, tail)
    <2>1. /\ Len(encoded) = n + Len(tail) /\ DOMAIN encoded = 1 .. n + Len(tail)
          /\ \E S : encoded \in Seq(S)
          /\ \A i \in 1 .. n + Len(tail) :
               encoded[i] = IF i <= n THEN hash_codes[i - 1] ELSE tail[i - n]
      BY <1>1, IndexShape, ZenonT(40)
    <2> HIDE DEF encoded
    <2>2. blob = encoded /\ Len(tail) = m
      BY <1>4 DEF encoded
    <2> QED
      BY <2>1, <2>2
  <1>7. PICK S : blob \in Seq(S)
    BY <1>6
  <1>8. /\ ReadAt(blob, 0, n) \in Seq(S) /\ Len(ReadAt(blob, 0, n)) = n
        /\ \A i \in 1 .. n : ReadAt(blob, 0, n)[i] = blob[0 + i]
    <2>1. CanReadAt(blob, 0, n) /\ 0 \in Nat
      BY <1>1, <1>6 DEF CanReadAt
    <2> QED
      BY <1>1, <1>7, <2>1, ReadAtContent
  <1>9. /\ ReadAt(blob, n, m) \in Seq(S) /\ Len(ReadAt(blob, n, m)) = m
        /\ \A i \in 1 .. m : ReadAt(blob, n, m)[i] = blob[n + i]
    <2>1. CanReadAt(blob, n, m)
      BY <1>1, <1>6 DEF CanReadAt
    <2> QED
      BY <1>1, <1>7, <2>1, ReadAtContent
  <1>10. CanLoadIndex(rows, size, h)
    BY <1>1, <1>5, <1>6
  <1>11. PICK p, t :
           /\ index = [pieces |-> p, tail |-> t]
           /\ p = IF size = 0 THEN <<>> ELSE ReadAt(blob, 0, n)
           /\ t = IF size = 0 THEN <<>> ELSE ReadAt(blob, n, m)
    BY <1>5
  <1>12. /\ Len(p) = n /\ DOMAIN p = 1 .. n
         /\ \A i \in 1 .. n : p[i] = hash_codes[i - 1]
    <2>1. CASE size = 0
      BY <1>2, <1>11, <2>1 DEF n
    <2>2. CASE size # 0
      <3>1. p = ReadAt(blob, 0, n)
        BY <1>11, <2>2
      <3> QED
        BY <1>1, <1>6, <1>8, <3>1
    <2> QED
      BY <2>1, <2>2
  <1>13. /\ Len(t) = m /\ DOMAIN t = 1 .. m
         /\ \A i \in 1 .. m : t[i] = tail[i]
    <2>1. CASE size = 0
      BY <1>2, <1>11, <2>1 DEF m
    <2>2. CASE size # 0
      <3>1. t = ReadAt(blob, n, m)
        BY <1>11, <2>2
      <3>2. DOMAIN t = 1 .. m /\ Len(t) = m
        BY <1>1, <1>9, <3>1
      <3>3. ASSUME NEW i \in 1 .. m PROVE t[i] = tail[i]
        <4>1. n + i \in 1 .. n + m /\ ~ (n + i <= n) /\ (n + i) - n = i
          BY <1>1
        <4> QED
          BY <1>6, <1>9, <3>1, <4>1
      <3> QED
        BY <3>2, <3>3
    <2> QED
      BY <2>1, <2>2
  <1>14. t = tail
    <2>1. \E T : t \in Seq(T)
      BY <1>9, <1>11
    <2>2. PICK T : t \in Seq(T)
      BY <2>1
    <2>3. t \in Seq(T \cup Byte) /\ tail \in Seq(T \cup Byte)
      BY <2>2
    <2>4. Len(t) = Len(tail) /\ \A i \in 1 .. Len(t) : t[i] = tail[i]
      BY <1>4, <1>13
    <2> QED
      BY <2>3, <2>4, SeqEqual
  <1> QED
    BY <1>10, <1>11, <1>12, <1>14 DEF n, m, index, IsIndexOf

\* A byte of a file is found at the same place in the piece or in the tail.
LaidOutByte(rows, hash_codes, size, tail, i) ==
  IF i \div PieceLength < NumberOfPieces(size)
  THEN rows[hash_codes[i \div PieceLength]][(i % PieceLength) + 1]
  ELSE tail[(i % PieceLength) + 1]

LEMMA ByteOfIndex ==
  ASSUME NEW rows, NEW h, h \in DOMAIN rows, NEW hash_codes, NEW size \in Nat,
         NEW tail \in Seq(Byte), Len(tail) = RemainingSize(size),
         rows[h] = EncodeFile(hash_codes, NumberOfPieces(size), tail),
         NEW i \in 0 .. size - 1
  PROVE  IndexedByte(rows, LoadIndex(rows, size, h), i) = LaidOutByte(rows, hash_codes, size, tail, i)
  <1> DEFINE n == NumberOfPieces(size)
             m == RemainingSize(size)
             index == LoadIndex(rows, size, h)
  <1>1. n \in Nat /\ m \in Nat
    BY PiecesOfSize, PieceLengthAssumption
  <1>2. IsIndexOf(index, hash_codes, size, tail)
    BY LoadedIndex
  <1>3. /\ Len(index.pieces) = n
        /\ \A j \in 1 .. n : index.pieces[j] = hash_codes[j - 1]
        /\ index.tail = tail
    BY <1>2 DEF IsIndexOf
  <1>4. PICK p \in Nat, r \in 0 .. PieceLength - 1 : p = i \div PieceLength /\ r = i % PieceLength
    <2>1. i \in Nat
      OBVIOUS
    <2> QED
      BY <2>1, Division, PieceLengthAssumption
  <1>5. ~ (p < n) => r < m
    BY <1>4, ByteOfTail
  <1>6. IndexedByte(rows, index, i) =
          IF p < n THEN rows[index.pieces[p + 1]][r + 1] ELSE index.tail[r + 1]
    BY <1>3, <1>4 DEF IndexedByte
  <1> HIDE DEF n, m, index
  <1>7. p < n => p + 1 \in 1 .. n /\ (p + 1) - 1 = p
    BY <1>1
  <1>8. ~ (p < n) => r + 1 \in 1 .. m
    BY <1>1, <1>4, <1>5, PieceLengthAssumption
  <1>9. IndexedByte(rows, index, i) =
          IF p < n THEN rows[hash_codes[p]][r + 1] ELSE tail[r + 1]
    BY <1>3, <1>6, <1>7, <1>8
  <1> QED
    BY <1>4, <1>9 DEF n, index, LaidOutByte

-----------------------------------------------------------------------------
(* A file that is stored. *)

\* A piece is made of bytes; so is what is left over (import.cpp:112 to 118).
LEMMA FileParts ==
  ASSUME NEW content \in Seq(Byte)
  PROVE  LET n == NumberOfPieces(Len(content))
         IN  /\ n \in Nat
             /\ \A i \in PiecesOf(content) :
                  /\ CanReadAt(content, i * PieceLength, PieceLength)
                  /\ i * PieceLength \in Nat
                  /\ PieceOf(content, i) \in Seq(Byte)
             /\ CanReadAt(content, n * PieceLength, RemainingSize(Len(content)))
             /\ n * PieceLength \in Nat /\ RemainingSize(Len(content)) \in Nat
             /\ ReadAt(content, n * PieceLength, RemainingSize(Len(content))) \in Seq(Byte)
  <1> DEFINE size == Len(content)
             n == NumberOfPieces(size)
  <1>1. size \in Nat /\ PieceLength \in Nat \ {0}
    BY PieceLengthAssumption
  <1> HIDE DEF size
  <1>2. n \in Nat /\ n * PieceLength <= size /\ RemainingSize(size) \in 0 .. PieceLength - 1
    BY <1>1, PiecesOfSize
  <1>3. RemainingSize(size) = size - n * PieceLength
    BY DEF RemainingSize
  <1> HIDE DEF n
  <1>4. /\ n * PieceLength \in Nat /\ n * PieceLength + RemainingSize(size) = size
        /\ RemainingSize(size) \in Nat
    BY <1>1, <1>2, <1>3
  <1>5. CanReadAt(content, n * PieceLength, RemainingSize(size))
    BY <1>1, <1>4 DEF CanReadAt, size
  <1>6. ReadAt(content, n * PieceLength, RemainingSize(size)) \in Seq(Byte)
    BY <1>2, <1>4, <1>5, ReadAtContent
  <1>7. ASSUME NEW i \in 0 .. n - 1
        PROVE  /\ CanReadAt(content, i * PieceLength, PieceLength)
               /\ i * PieceLength \in Nat
               /\ PieceOf(content, i) \in Seq(Byte)
    <2>1. i * PieceLength \in Nat /\ i * PieceLength + PieceLength <= size
      BY <1>1, PieceInFile DEF n
    <2>2. CanReadAt(content, i * PieceLength, PieceLength)
      BY <2>1 DEF CanReadAt, size
    <2> QED
      BY <1>1, <2>1, <2>2, ReadAtContent DEF PieceOf
  <1> QED
    BY <1>2, <1>4, <1>5, <1>6, <1>7 DEF PiecesOf, size, n

LEMMA PieceMentionsNothing ==
  ASSUME NEW content \in Seq(Byte), NEW i \in PiecesOf(content)
  PROVE  References(PieceOf(content, i)) = {}
  BY FileParts, BytesMentionNothing

\* Once all pieces are stored the index may be.
LEMMA IndexMentionsPieces ==
  ASSUME NEW content \in Seq(Byte), NEW T,
         \A i \in PiecesOf(content) : Sha256(PieceOf(content, i)) \in T
  PROVE  References(FileIndex(content)) \subseteq T
  <1> DEFINE n == NumberOfPieces(Len(content))
             hash_codes == [i \in 0 .. n - 1 |-> Sha256(PieceOf(content, i))]
             tail == ReadAt(content, n * PieceLength, RemainingSize(Len(content)))
  <1>1. n \in Nat /\ tail \in Seq(Byte)
    BY FileParts
  <1>2. \A i \in 0 .. n - 1 : Mentioned(hash_codes[i]) \in T
    BY DigestIsMentioned DEF PiecesOf
  <1>3. FileIndex(content) = EncodeFile(hash_codes, n, tail)
    BY DEF FileIndex
  <1> HIDE DEF n, hash_codes, tail
  <1> QED
    BY <1>1, <1>2, <1>3, IndexMentions

\* What a reader loads of a file that is stored.
LEMMA LoadedFile ==
  ASSUME NEW rows, ContentAddressed(rows), NEW content \in Seq(Byte), FileStored(rows, content),
         NEW hash_codes, hash_codes = [i \in PiecesOf(content) |-> Sha256(PieceOf(content, i))]
  PROVE  LET size == Len(content)
             h == Sha256(FileIndex(content))
             tail == ReadAt(content, NumberOfPieces(size) * PieceLength, RemainingSize(size))
         IN  /\ h \in DOMAIN rows
             /\ rows[h] = EncodeFile(hash_codes, NumberOfPieces(size), tail)
             /\ CanLoadIndex(rows, size, h)
             /\ IsIndexOf(LoadIndex(rows, size, h), hash_codes, size, tail)
             /\ \A i \in PiecesOf(content) : Stored(rows, hash_codes[i]) /\ rows[hash_codes[i]] = PieceOf(content, i)
  <1>1. PICK size \in Nat, h \in {Sha256(FileIndex(content))} : size = Len(content)
    OBVIOUS
  <1>2. PICK n, tail :
          n = NumberOfPieces(size) /\ tail = ReadAt(content, n * PieceLength, RemainingSize(size))
    OBVIOUS
  <1>3. n \in Nat /\ n * PieceLength \in Nat /\ RemainingSize(size) \in Nat
        /\ CanReadAt(content, n * PieceLength, RemainingSize(size))
    BY <1>1, <1>2, FileParts
  <1>4. tail \in Seq(Byte) /\ Len(tail) = RemainingSize(size)
    BY <1>2, <1>3, ReadAtContent
  <1>5. h \in DOMAIN rows /\ rows[h] = EncodeFile(hash_codes, NumberOfPieces(size), tail)
    <2>1. h \in DOMAIN rows
      BY <1>1 DEF FileStored, Stored
    <2>2. rows[h] = FileIndex(content)
      BY <1>1, <2>1, DigestsDiffer DEF ContentAddressed
    <2> QED
      BY <1>1, <1>2, <2>1, <2>2 DEF FileIndex, PiecesOf
  <1>6. CanLoadIndex(rows, size, h) /\ IsIndexOf(LoadIndex(rows, size, h), hash_codes, size, tail)
    BY <1>4, <1>5, LoadedIndex
  <1>7. ASSUME NEW i \in PiecesOf(content)
        PROVE  Stored(rows, hash_codes[i]) /\ rows[hash_codes[i]] = PieceOf(content, i)
    <2>1. hash_codes[i] = Sha256(PieceOf(content, i)) /\ hash_codes[i] \in DOMAIN rows
      BY DEF FileStored, Stored
    <2> QED
      BY <2>1, DigestsDiffer DEF ContentAddressed, Stored
  <1> QED
    BY <1>1, <1>2, <1>5, <1>6, <1>7

-----------------------------------------------------------------------------
(***************************************************************************)
(* The search for a path (operations.cpp:52 to 97).  What is found after i *)
(* names is a recursive function of i; first it is shown to exist.         *)
(***************************************************************************)

\* What one more name leads to.
FoundBelow(rows, found, name) == UNION {Below(rows, above, name) : above \in found}

IsSearch(found, rows, root, path, n) ==
  found = [i \in 0 .. n |-> IF i = 0 THEN {RootEntry(root)}
                            ELSE FoundBelow(rows, found[i - 1], path[i])]

\* What is found after each of the first n names.
Follows(found, rows, root, path, n) ==
  /\ found[0] = {RootEntry(root)}
  /\ \A i \in 1 .. n : found[i] = FoundBelow(rows, found[i - 1], path[i])

LEMMA SearchSteps ==
  ASSUME NEW rows, NEW root, NEW path, NEW n \in Nat, NEW found
  PROVE  IsSearch(found, rows, root, path, n) => Follows(found, rows, root, path, n)
  <1> SUFFICES ASSUME IsSearch(found, rows, root, path, n)
               PROVE  /\ found[0] = {RootEntry(root)}
                      /\ \A i \in 1 .. n : found[i] = FoundBelow(rows, found[i - 1], path[i])
    BY DEF Follows
  <1>1. 0 \in 0 .. n /\ \A i \in 1 .. n : i \in 0 .. n /\ i # 0
    OBVIOUS
  <1>2. \A i \in 0 .. n : found[i] = IF i = 0 THEN {RootEntry(root)}
                                     ELSE FoundBelow(rows, found[i - 1], path[i])
    BY DEF IsSearch
  <1> QED
    BY <1>1, <1>2

LEMMA SearchExists ==
  ASSUME NEW rows, NEW root, NEW path, NEW n \in Nat
  PROVE  \E found : IsSearch(found, rows, root, path, n)
  <1> DEFINE U == SUBSET ({RootEntry(root), Unreadable} \cup
                          UNION {{FoundEntry(rows[h][i]) : i \in DOMAIN rows[h]} : h \in DOMAIN rows})
             base == {RootEntry(root)}
             step == [x \in Nat \X U |-> FoundBelow(rows, x[2], path[x[1]])]
  <1>1. ASSUME NEW above, NEW name PROVE Below(rows, above, name) \in U
    <2>1. \A content : FindEntry(content, name) \subseteq {content[i] : i \in DOMAIN content}
      BY DEF FindEntry
    <2>2. ASSUME NEW h \in DOMAIN rows
          PROVE  {FoundEntry(entry) : entry \in FindEntry(rows[h], name)}
                   \subseteq {FoundEntry(rows[h][i]) : i \in DOMAIN rows[h]}
      BY <2>1
    <2>3. ASSUME NEW h \in DOMAIN rows
          PROVE  {FoundEntry(entry) : entry \in FindEntry(rows[h], name)} \in U
      BY <2>2
    <2> QED
      BY <2>3 DEF Below, Stored
  <1>2. ASSUME NEW found, NEW name PROVE FoundBelow(rows, found, name) \in U
    BY <1>1 DEF FoundBelow
  <1>3. base \in U
    OBVIOUS
  <1> HIDE DEF U
  <1>4. step \in [Nat \X U -> U]
    BY <1>2
  <1>5. \A i \in Nat, x \in U : step[<<i, x>>] = FoundBelow(rows, x, path[i])
    OBVIOUS
  <1> HIDE DEF base, step
  <1>6. PICK f \in [0 .. n -> U] : IsRecursive(f, base, step, n)
    BY <1>3, <1>4, RecursionExists
  <1>7. \A i \in 0 .. n : i # 0 => step[<<i, f[i - 1]>>] = FoundBelow(rows, f[i - 1], path[i])
    <2> SUFFICES ASSUME NEW i \in 0 .. n, i # 0
                 PROVE  step[<<i, f[i - 1]>>] = FoundBelow(rows, f[i - 1], path[i])
      OBVIOUS
    <2>1. i \in Nat /\ i - 1 \in 0 .. n
      OBVIOUS
    <2> QED
      BY <1>5, <2>1
  <1>8. IsSearch(f, rows, root, path, n)
    BY <1>6, <1>7 DEF IsRecursive, IsSearch, base
  <1> QED
    BY <1>8

LEMMA ResolvedPath ==
  ASSUME NEW rows, NEW root, NEW path, Len(path) \in Nat
  PROVE  \E found : /\ Follows(found, rows, root, path, Len(path))
                    /\ ResolvePath(rows, root, path) = found[Len(path)]
  <1> DEFINE search == CHOOSE found : IsSearch(found, rows, root, path, Len(path))
  <1>1. IsSearch(search, rows, root, path, Len(path))
    BY SearchExists
  <1>2. ResolvePath(rows, root, path) = search[Len(path)]
    BY DEF ResolvePath, FoundBelow, IsSearch
  <1> HIDE DEF search
  <1>3. Follows(search, rows, root, path, Len(path))
    BY <1>1, SearchSteps
  <1> QED
    BY <1>2, <1>3

\* A search does not look ahead.
LEMMA ResolvedOneMore ==
  ASSUME NEW rows, NEW root, NEW S, NEW path \in Seq(S), NEW name
  PROVE  ResolvePath(rows, root, Append(path, name)) =
           FoundBelow(rows, ResolvePath(rows, root, path), name)
  <1>1. PICK n \in Nat : n = Len(path)
    OBVIOUS
  <1>2. PICK longer : longer = Append(path, name)
    OBVIOUS
  <1>3. Len(longer) = n + 1 /\ longer[n + 1] = name /\ \A i \in 1 .. n : longer[i] = path[i]
    BY <1>1, <1>2
  <1>4. PICK found : /\ found[0] = {RootEntry(root)}
                     /\ \A i \in 1 .. n : found[i] = FoundBelow(rows, found[i - 1], path[i])
                     /\ ResolvePath(rows, root, path) = found[n]
    <2>1. PICK found : /\ Follows(found, rows, root, path, Len(path))
                       /\ ResolvePath(rows, root, path) = found[Len(path)]
      BY <1>1, ResolvedPath
    <2> QED
      BY <1>1, <2>1 DEF Follows
  <1>5. PICK more : /\ more[0] = {RootEntry(root)}
                    /\ \A i \in 1 .. n + 1 : more[i] = FoundBelow(rows, more[i - 1], longer[i])
                    /\ ResolvePath(rows, root, longer) = more[n + 1]
    <2>1. Len(longer) \in Nat
      BY <1>3
    <2>2. PICK more : /\ Follows(more, rows, root, longer, Len(longer))
                      /\ ResolvePath(rows, root, longer) = more[Len(longer)]
      BY <2>1, ResolvedPath
    <2> QED
      BY <1>3, <2>2 DEF Follows
  <1> DEFINE Bad == {i \in 0 .. n : more[i] # found[i]}
  <1>6. Bad = {}
    <2> SUFFICES ASSUME Bad # {} PROVE FALSE
      OBVIOUS
    <2>1. Bad \subseteq Nat
      OBVIOUS
    <2>2. PICK i \in Bad : \A j \in Bad : i <= j
      <3> HIDE DEF Bad
      <3> QED
        BY <2>1, LeastNumber
    <2>3. i \in 0 .. n /\ more[i] # found[i] /\ i # 0
      BY <1>4, <1>5
    <2>4. i \in 1 .. n /\ i \in 1 .. n + 1 /\ i - 1 \in 0 .. n /\ ~ (i <= i - 1)
      BY <1>1, <2>3
    <2>5. more[i - 1] = found[i - 1]
      BY <2>2, <2>4
    <2>6. /\ more[i] = FoundBelow(rows, more[i - 1], longer[i])
          /\ found[i] = FoundBelow(rows, found[i - 1], path[i])
          /\ longer[i] = path[i]
      BY <1>3, <1>4, <1>5, <2>4
    <2> QED
      BY <2>3, <2>5, <2>6
  <1>7. n \in 0 .. n /\ n + 1 \in 1 .. n + 1 /\ (n + 1) - 1 = n
    BY <1>1
  <1>8. more[n] = found[n] /\ more[n + 1] = FoundBelow(rows, more[n], name)
    BY <1>3, <1>5, <1>6, <1>7
  <1> QED
    BY <1>2, <1>4, <1>5, <1>8

-----------------------------------------------------------------------------
(***************************************************************************)
(* A tree as its blobs have it: what each of its paths leads to on the     *)
(* disk and in the blobs.  Every entry of a directory blob leads to        *)
(* another path, and every path but the first is led to by one.            *)
(***************************************************************************)

EntryLaid(entry, e, found) ==
  /\ e.type = "regular_file" =>
       entry = DirectoryEntry("regular_file", entry.name, Sha256(FileIndex(e.content)), Len(e.content))
  /\ e.type = "directory" => entry = DirectoryEntry("directory", entry.name, found.hash_code, 0)

DirectoryLaid(paths, path, content, disk, blobs) ==
  /\ \E S : content \in Seq(S)
  /\ \A i, j \in DOMAIN content : content[i].name = content[j].name => i = j
  /\ \A i \in DOMAIN content :
       /\ Append(path, content[i].name) \in paths
       /\ EntryLaid(content[i], disk[Append(path, content[i].name)], blobs[Append(path, content[i].name)])

PathLaid(rows, paths, path, disk, blobs) ==
  /\ disk[path].type \in {"regular_file", "directory"}
  /\ disk[path].type = "regular_file" =>
       disk[path].content \in Seq(Byte) /\ FileStored(rows, disk[path].content)
  /\ disk[path].type = "directory" =>
       /\ blobs[path].hash_code \in DOMAIN rows
       /\ DirectoryLaid(paths, path, rows[blobs[path].hash_code], disk, blobs)
  /\ path # <<>> =>
       \E up \in paths :
         /\ disk[up].type = "directory"
         /\ \E i \in DOMAIN rows[blobs[up].hash_code] :
              path = Append(up, rows[blobs[up].hash_code][i].name)

Laid(rows, root, paths, disk, blobs) ==
  /\ <<>> \in paths /\ disk[<<>>].type = "directory" /\ blobs[<<>>].hash_code = root
  /\ \A path \in paths :
       (\E S : path \in Seq(S)) /\ PathLaid(rows, paths, path, disk, blobs)

\* What the file system is expected to have at a path.
NodeLaid(rows, e, found) ==
  IF e.type = "regular_file"
  THEN [type |-> "regular_file", content |-> e.content]
  ELSE [type |-> "directory",
        names |-> [i \in DOMAIN rows[found.hash_code] |-> rows[found.hash_code][i].name]]

NodesLaid(rows, paths, disk, blobs) ==
  [path \in paths |-> NodeLaid(rows, disk[path], blobs[path])]
=============================================================================

---------------------------- MODULE RegularFile ----------------------------
(***************************************************************************)
(* How a regular file is laid out in blobs (trees/regular_file.h,          *)
(* trees/import.cpp): one blob per full piece, and an index blob made of   *)
(* the digests of those pieces followed by the bytes that are left over.   *)
(* Pieces and offsets count from 0, as in the code.                        *)
(***************************************************************************)
EXTENDS Blobs

CONSTANT PieceLength    \* regular_file::piece_length, 1 MiB in the code

ASSUME PieceLengthAssumption == PieceLength \in Nat \ {0}

NumberOfPieces(size) == size \div PieceLength

RemainingSize(size) == size - NumberOfPieces(size) * PieceLength

\* read_at throws when pread64 returns fewer bytes than asked for, which it
\* does when the file ends first.  Reading nothing succeeds anywhere.
CanReadAt(file, offset, count) == count = 0 \/ offset + count <= Len(file)

ReadAt(file, offset, count) == SubSeq(file, offset + 1, offset + count)

\* The defect of the two parts in the wrong order.
EncodeTailFirst(hash_codes, n, tail) == tail \o [i \in 1 .. n |-> hash_codes[i - 1]]

\* encode_piece for each of the n elements of the vector, then finish_encoding.
EncodeFile(hash_codes, n, tail) == [i \in 1 .. n |-> hash_codes[i - 1]] \o tail

\* A piece of a file; and the defect that pieces are not counted in bytes.
PieceAtIndex(content, i) == ReadAt(content, i, PieceLength)
PieceOf(content, i) == ReadAt(content, i * PieceLength, PieceLength)

\* The full pieces of a file.
PiecesOf(content) == 0 .. NumberOfPieces(Len(content)) - 1

\* The index blob of a file that does not change while it is imported.
FileIndex(content) ==
  LET n == NumberOfPieces(Len(content))
  IN  EncodeFile([i \in 0 .. n - 1 |-> Sha256(PieceOf(content, i))], n,
                 ReadAt(content, n * PieceLength, RemainingSize(Len(content))))

\* All the blobs of a file are in the table.
FileStored(table, content) ==
  /\ Stored(table, Sha256(FileIndex(content)))
  /\ \A i \in PiecesOf(content) : Stored(table, Sha256(PieceOf(content, i)))

(***************************************************************************)
(* load_regular_file_index.  It throws when the index blob is not stored,  *)
(* or too short for what the recorded size says; bytes beyond that are     *)
(* ignored.  An empty file is not looked up at all.  The defect is to ask  *)
(* for one symbol too many.                                                *)
(***************************************************************************)
CanLoadLongerIndex(table, content_size, hash_code) ==
  \/ content_size = 0
  \/ /\ Stored(table, hash_code)
     /\ NumberOfPieces(content_size) + RemainingSize(content_size)
          < Len(table[hash_code])

CanLoadIndex(table, content_size, hash_code) ==
  \/ content_size = 0
  \/ /\ Stored(table, hash_code)
     /\ NumberOfPieces(content_size) + RemainingSize(content_size)
          <= Len(table[hash_code])

LoadIndex(table, content_size, hash_code) ==
  IF content_size = 0
  THEN [pieces |-> <<>>, tail |-> <<>>]
  ELSE LET n == NumberOfPieces(content_size)
       IN  [pieces |-> ReadAt(table[hash_code], 0, n),
            tail   |-> ReadAt(table[hash_code], n, RemainingSize(content_size))]

\* What the index says the content is: byte i of the file, for i below size.
\* Every piece it mentions has to be stored.
IndexedByte(table, index, i) ==
  LET piece == i \div PieceLength
  IN  IF piece < Len(index.pieces)
      THEN table[index.pieces[piece + 1]][(i % PieceLength) + 1]
      ELSE index.tail[(i % PieceLength) + 1]
=============================================================================

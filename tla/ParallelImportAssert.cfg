SPECIFICATION Spec

CONSTANTS
  a = a
  b = b
  Byte <- MCByte
  PieceLength = 2
  Contents <- MCContents
  Concurrencies = {0}
  MaxWrites = 0

INVARIANT
  AssertionHolds

SPECIFICATION FairSpec

CONSTANTS
  a = a
  b = b
  Byte <- MCByte
  PieceLength = 2
  Contents <- MCContents
  Concurrencies = {0, 2, 3}
  MaxWrites = 1

INVARIANTS
  TypeOK
  PieceOwnership
  NoConstraintViolation
  NoWorkerOutlivesLoop
  EncodeOnlyWhenComplete
  ImportFaithful

PROPERTIES
  StoreSpec
  Termination

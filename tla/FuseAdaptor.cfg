SPECIFICATION FairSpec

CONSTANTS
  a = a
  b = b
  Byte <- MCByte
  PieceLength = 2
  Path <- MCPath
  Handle = {h1, h2}
  ReadSizes = {1, 4}
  Imported <- MCImported

INVARIANTS
  TypeOK
  SlotsMatchHandles
  CacheCoherent
  NeverThrows

PROPERTIES
  ServesSource
  ReadsReturn


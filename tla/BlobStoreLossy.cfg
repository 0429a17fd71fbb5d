SPECIFICATION Spec

CONSTANTS
  Byte <- MCByte
  Client = {c1}
  Content <- MCLossy
  LZ4MaxInput = 2
  IntMax = 4

INVARIANTS
  LoadedAsStored

SPECIFICATION Spec

CONSTANTS
  Byte <- MCByte
  Client = {c1, c2, c3}
  Content <- MCContent
  LZ4MaxInput = 2
  IntMax = 4

INVARIANTS
  RowsDecodable

PROPERTIES
  ImplementsStore

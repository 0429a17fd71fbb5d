SPECIFICATION Spec

CONSTANTS
  Byte <- MCByte
  PieceLength = 2
  Trees <- MCTrees
  RootDir = "root"
  MaxLinks = 0
  MaxImports = 3
  Path <- MCPath
  Handle = {h1}
  ReadSizes = {2}

INVARIANTS
  OnlyDatabaseThrows

PROPERTIES
  ServesImported

CHECK_DEADLOCK FALSE

SPECIFICATION Spec

CONSTANTS
  Byte <- MCByte
  PieceLength = 2
  Trees <- MCTrees
  RootDir = "root"
  MaxLinks = 2
  MaxImports = 2

INVARIANT
  SameTreeSameRoot

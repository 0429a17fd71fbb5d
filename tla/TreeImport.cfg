SPECIFICATION FairSpec

CONSTANTS
  Byte <- MCByte
  PieceLength = 2
  Trees <- MCTrees
  RootDir = "root"
  MaxLinks = 2
  MaxImports = 2

INVARIANTS
  TypeOK
  RootsFaithful
  NoOrphans

PROPERTIES
  StoreSpec
  ImportEnds

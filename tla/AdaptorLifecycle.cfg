SPECIFICATION LifeFairSpec

CONSTANTS
  MaxRuns = 3

INVARIANTS
  TypeOK
  UnmountedBeforeDestroyed
  NothingLeftMounted

PROPERTIES
  DestructionEnds

CHECK_DEADLOCK FALSE

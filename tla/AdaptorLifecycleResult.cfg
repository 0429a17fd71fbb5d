SPECIFICATION LifeSpec

CONSTANTS
  MaxRuns = 1

INVARIANTS
  LoopReturnsZero

CHECK_DEADLOCK FALSE

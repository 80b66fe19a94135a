SPECIFICATION SendFairSpec
CONSTANTS
  Writers = {w1, w2, w3}
  Lengths = {1, 2}
  MaxCells = 4
INVARIANTS DrainedWhenIdle ExclusiveExact NothingLost
PROPERTY EventuallyDrained
CHECK_DEADLOCK FALSE

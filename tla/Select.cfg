SPECIFICATION Spec
CONSTANTS
  BlockSet <- MCBlocks
  Sizes = {1, 3}
  StoreSize = 2
INVARIANTS
  TypeOK
  SegmentsHoldBest
  ScheduleFree
  NoRegression
PROPERTIES
  Terminates
\* The selection stops.
CHECK_DEADLOCK FALSE

SPECIFICATION Spec
CONSTANTS
  w1 = w1
  w2 = w2
  w3 = w3
  Factor <- MCFactor
  MaxBlocks = 3
  BlockSet <- MCBlocks
  Workers <- MCWorkers3
  Budget = 6
  MaxUsize = 7
  Faults = {"write"}
INVARIANTS
  TypeOK
  OutputInOrder
  OnlySoundWritten
  FirstErrorWins
  BudgetKept
  Joined
PROPERTIES
  DecodesSequentially
  Terminates
\* The decoder stops.
CHECK_DEADLOCK FALSE

SPECIFICATION Spec
CONSTANTS
  Blocks = {1, 2, 3, 4, 5, 6, 7, 8, 9}
  Readers = {1}
  Setups <- MCSetups
INVARIANTS FreedOnce BlocksAreReferenced CleanIsWritten OverflowReadsAreCurrent
CHECK_DEADLOCK FALSE

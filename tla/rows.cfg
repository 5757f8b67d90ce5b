CONSTANTS
  UINT_MAX = 15
  TXN_WRAP_BUFFER = 2
  s1 = s1
  s2 = s2
  Sessions = {s1, s2}
  Keys = {k1}
  Setups <- Starts
  Start0 = 14
  MaxTxns = 2
  MaxReads = 1
  MaxEvicts = 1
  MaxUpdates = 2
SPECIFICATION Spec
INVARIANTS NeededKept FirstUpdaterWins
CHECK_DEADLOCK FALSE

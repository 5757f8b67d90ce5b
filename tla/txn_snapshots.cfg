CONSTANTS
  UINT_MAX = 15
  TXN_WRAP_BUFFER = 2
  NSessions = 2
  Uses <- MCUses
SPECIFICATION Spec
INVARIANTS GetSnapshotBoundedBelowMax BeginSnapshotBounded ReadersArePinned EvictOldestSafe
CHECK_DEADLOCK FALSE

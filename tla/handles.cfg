SPECIFICATION Spec
CONSTANTS
  Sessions = {s1, s2}
  s1 = s1
  s2 = s2
  None = None
  Names <- MCNames
  Leading = {}
  Drops <- MCDrops
  MaxOrder = 5
  MaxData = 2
  MaxCalls = 4
  Setups <- MCSetups
  MaxFaults = 1
INVARIANTS FakesComeFirst HeldIsOpen RefcntCoversCaches OpenCheckpointIsCurrent ChangesAreSaved BackupIsKept
PROPERTIES CallsReturn
CHECK_DEADLOCK FALSE

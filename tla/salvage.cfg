CONSTANTS
  MaxKey = 3
  MaxOvflKey = 3
  NoTrack = NoTrack
  Files <- MCFiles
SPECIFICATION Spec
INVARIANTS NewestWins BlocksSettled RerunFindsAll
CHECK_DEADLOCK FALSE

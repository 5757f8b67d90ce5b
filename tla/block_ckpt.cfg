CONSTANTS
  MaxBlocks = 6
  MaxCkpts = 2
  Uses <- MCUses
SPECIFICATION Spec
INVARIANTS LivePagesKept DurableIntact NoBlockLost IInv
CHECK_DEADLOCK FALSE

SPECIFICATION Spec
CONSTANTS
    Sessions = {s1, s2}
    Keys = {k1, k2}
    Values = {v1}
    NULL = NULL
    Tomb = Tomb
    NoRec = NoRec
    MaxId = 5
    MergeMax = 2
    Setups <- MCSetups
INVARIANTS SearchIsCurrent OnDiskIsComplete
PROPERTY IsMap
SYMMETRY Symmetry
CHECK_DEADLOCK FALSE

SPECIFICATION Spec
CONSTANTS
    s1 = s1
    s2 = s2
    t1 = t1
    t2 = t2
    p1 = p1
    p2 = p2
    p3 = p3
    Sessions = {s1, s2}
    Trees = {t1, t2}
    Pages = {p1, p2, p3}
    TreeOf <- MCTreeOf
    NULL = NULL
    CacheSize = 1
    Trigger = 1
    Target = 1
    WalkBase = 2
    WalkIncr = 2
    Group = 2
    MaxLoop = 1
    Setups <- MCSetups
INVARIANTS
    RequestFound
    FlushIsAlone
    FlushComplete
PROPERTY
    FlushReturns

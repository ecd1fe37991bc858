SPECIFICATION FairSpec
CONSTANTS
    c1 = c1
    c2 = c2
    c3 = c3
    c4 = c4
    c5 = c5
    k1 = k1
    k2 = k2
    NULL = NULL
    Calls = {c1, c2, c3, c4, c5}
    Keys = {k1, k2}
    KeyOf <- Race
    PoolSize = 2
CHECK_DEADLOCK FALSE
INVARIANTS TypeOK SameJobForSameKey NoOrphanJob
PROPERTIES EveryCallEnds ImplementsKeyedCreation

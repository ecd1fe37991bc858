SPECIFICATION FairSpec
CONSTANTS
    NULL = NULL
    Workers = {w1, w2}
    Schedulers = {s1}
    Jobs = {j1}
    MaxAttempts = 2
    MaxTries = 2
    StallsBeforeFetch = FALSE
    AttemptBound = 3
INVARIANTS TypeOK Truthful AuditTrail EveryOutcomeAnnounced
PROPERTY EveryCallEnds
CHECK_DEADLOCK FALSE

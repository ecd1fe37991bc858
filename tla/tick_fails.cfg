SPECIFICATION Spec
CONSTANTS
    NULL = NULL
    Workers = {w1}
    Jobs = {j1}
    Schedulers = {s1}
    MaxAttempts = 1
    Tiers = 1
    TierOf <- OneTier
    BatchSize = 1
    StallPoints <- StallsAfterFetch
    Budget <- StallAndFailedTick
SYMMETRY Interchangeable
INVARIANTS AttemptCap

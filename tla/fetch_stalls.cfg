SPECIFICATION Spec
CONSTANTS
    NULL = NULL
    Workers = {w1, w2}
    Jobs = {j1}
    Schedulers = {s1}
    MaxAttempts = 2
    Tiers = 1
    TierOf <- OneTier
    BatchSize = 1
    StallPoints <- ProcessingPcs
    Budget <- OneStall
SYMMETRY Interchangeable
PROPERTIES ClaimsOfOthersKept

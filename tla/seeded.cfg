SPECIFICATION SeederSpec
CONSTANTS
    j1 = j1
    NULL = NULL
    Workers = {w1, ghost}
    Seeded = {j1}
    Ghosts = {ghost}
    Jobs = {j1, j2}
    Schedulers = {s1}
    MaxAttempts = 2
    Tiers = 2
    TierOf <- TierPerJob
    BatchSize = 1
    StallPoints = {}
    Budget <- SeededBudget
INVARIANTS AttemptCap
PROPERTIES EveryJobResolved

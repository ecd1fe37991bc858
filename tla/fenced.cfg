SPECIFICATION Spec
CONSTANTS
    NULL = NULL
    Workers = {w1, w2}
    Jobs = {j1}
    Schedulers = {s1}
    MaxAttempts = 2
    Tiers = 1
    TierOf <- OneTier
    BatchSize = 1
    StallPoints <- StallsAfterFetch
    Budget <- FencedBudget
SYMMETRY Interchangeable
INVARIANTS TypeOK OwnerMatchesStatus FencesWithOwnId DeliveryBound DeliveriesWithinAttempts
PROPERTIES FencedOutcome BuriesOwnReset AttemptsNeverForgotten ImplementsContract ImplementsLifecycle

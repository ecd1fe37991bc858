SPECIFICATION Spec
CONSTANTS
    Deliveries = {d1, d2, d3, d4}
    Limit = 2
    Window = 4
    Lookahead = 2
    MaxStall = 2
    Horizon = 9
    MaxLosses = 1
CHECK_DEADLOCK FALSE
SYMMETRY Interchangeable
INVARIANTS TypeOK WindowBudget DeferredToNextWindow CounterHasTtl
PROPERTY DeniedOnlyWhenSpent

SPECIFICATION Spec
CONSTANTS
    Deliveries = {d1, d2, d3}
    Limit = 1
    Window = 4
    Lookahead = 2
    MaxStall = 2
    Horizon = 11
    MaxLosses = 1
CHECK_DEADLOCK FALSE
SYMMETRY Interchangeable
INVARIANT EveryCounterExpires

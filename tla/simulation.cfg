SPECIFICATION SimulationSpec
CONSTANTS
    Jobs = {d1, p1, f1}
    Spread = {d1}
    Pair = {p1}
    Burst = {}
    MaxAttempts = 2
    ListLimit = 2
    LetterBound = 2
    Replayable = {d1}
INVARIANTS TypeOK AlarmOnlyWhenTorn
PROPERTIES SoundVerdict EveryRunEnds
CHECK_DEADLOCK FALSE

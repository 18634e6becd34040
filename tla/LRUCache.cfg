SPECIFICATION Spec
CONSTANTS
    Procs = {p1, p2}
    k1 = k1
    k2 = k2
    k3 = k3
    k4 = k4
    Keys <- MCKeys
    Size <- MCSize
    NoKey = NoKey
    Free = Free
    MaxSizes <- MCMaxSizes
    Crashes = 1
    MaxTime = 4
SYMMETRY Symmetry
CHECK_DEADLOCK FALSE
INVARIANTS
    EvictionMakesRoom
    GetReturnsWholeValue
    PutFailsOnlyAfterCrash
PROPERTY
    EvictsLeastRecentlyUsed

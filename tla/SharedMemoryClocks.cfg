SPECIFICATION Spec
CONSTANTS
    ClockSize = 3
    NumDevices = 1
    NumCoresPerDevice = 2
    Sems = {s1}
    NoSem = NoSem
    Dmas = {d1}
    Increments = {1}
    DataSize = 1
    MaxTicks = 3
SYMMETRY Symmetry
INVARIANTS
    WaitHasClock
    TypeOK
    HappensBeforeIsOrdered
    OrderedHappensBefore
CHECK_DEADLOCK FALSE

SPECIFICATION FairSpec
CONSTANTS
    Cores = {c1, c2}
    Sems = {s1, s2}
    NoSem = NoSem
    Dmas = {d1, d2}
    NoDma = NoDma
    Free = Free
    DataSize = 1
    MaxWaits = 2
CHECK_DEADLOCK FALSE
INVARIANT
    CopiesAreExact
PROPERTIES
    ImplementsAsyncCopy
    WaitReturns

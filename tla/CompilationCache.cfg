SPECIFICATION ShareSpec
CONSTANTS
    Threads = {t1, t2}
    NoThread = NoThread
    Enabled = TRUE
    HasDir = TRUE
    Supported = TRUE
    MaxFailures = 1
    MaxResets = 1
    Keys = {k1}
    Peers = {p1}
    MaxCalls = 3
    MaxFaults = 1
CHECK_DEADLOCK FALSE
INVARIANTS
    ReportedOncePerReset
    CreatedOncePerReset
    CacheIsThereForAll
    AllRunTheSameExecutable
PROPERTIES
    CallsEnd
    PeersAreServed

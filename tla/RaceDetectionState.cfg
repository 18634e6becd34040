SPECIFICATION DetectorSpec
CONSTANTS
    ClockSize = 2
    Threads = {t1, t2}
    BufferKeys = {k1}
    Clocks <- MCClocks
    Ranges <- MCRanges
    MaxLog = 2
INVARIANTS
    DetectorTypeOK
    QuiescentVerdict
CHECK_DEADLOCK FALSE

SPECIFICATION FairSpec
CONSTANTS
    Devices = {d1, d2, d3}
    NumBuffers = 2
    MaxKernels = 3
    MaxFailures = 3
CHECK_DEADLOCK FALSE
INVARIANT
    KernelMeetsItsOwnState
PROPERTY
    AllKernelsEnd

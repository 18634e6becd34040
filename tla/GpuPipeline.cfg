SPECIFICATION FairGpuSpec
CONSTANTS
    Inputs = {1, 2}
    MaxWgs = 2
    Kernels <- MCKernels
CHECK_DEADLOCK FALSE
INVARIANTS
    BarriersNeverRaise
    SmemIsSafe
    ClocksTellTheTruth
PROPERTY
    PipelinesEnd

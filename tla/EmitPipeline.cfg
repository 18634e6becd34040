SPECIFICATION FairSpec
CONSTANTS
    InBlocks = {a1, a2, a3}
    OutBlocks = {b1, b2}
    NoBlock = NoBlock
    Calls <- MCCalls
    InputModes <- MCInputModes
    OutputCounts = {2}
CHECK_DEADLOCK FALSE
INVARIANTS
    PartitionIsExact
    StepsHaveTheirSlots
    EndsCompleteAndDrained
PROPERTY
    PipelineEnds

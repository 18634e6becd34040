SPECIFICATION FairSpec
CONSTANTS
    Shards <- MCShards
    Bytes <- MCBytes
    host_memory_bytes_limit = 2
    ProcessCounts = {1, 2}
    MaxSaves = 2
    MaxRetries = 1
    MaxFailures = 2
CHECK_DEADLOCK FALSE
INVARIANTS
    RestoreIsBounded
    CallbackAfterAllWrote
    ReturnMeansDurable
PROPERTIES
    ErrorsAreReported
    AllProcessesEnd
    AllSavedIfNoFailure

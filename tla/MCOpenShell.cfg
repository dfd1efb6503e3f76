SPECIFICATION FairSpec
CONSTANTS
    StdoutBytes = 1
    StderrBytes = 2
    CombinedBytes = 2
    ChunkBytes = 2
    MaxChunk = 3
    MaxIds = 2
INVARIANTS
    TypeOK
    CompletedWithinLimits
    RunsUnderLoadedPolicy
PROPERTIES
    ImplementsContract
    OperationsReturn
CHECK_DEADLOCK FALSE

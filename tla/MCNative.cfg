SPECIFICATION FairSpec
CONSTANTS
    StreamBytes = 2
    CombinedBytes = 2
    ChunkBytes = 1
    Bubblewrap = TRUE
    StaleLoads = FALSE
    c1 = c1
    c2 = c2
    Conns <- MCConns
    Allowed <- MCAllowed
    MaxConcurrent = 1
    MaxRetained = 1
    MaxBytes = 2
INVARIANTS
    TypeOK
    OutputIsSound
    
PROPERTIES
    ImplementsContract
    OperationsReturn
CHECK_DEADLOCK FALSE

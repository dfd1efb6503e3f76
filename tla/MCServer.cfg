CHECK_DEADLOCK FALSE
CONSTANTS
    Conn = {c1, c2}
    OperationId = {x1, x2}
    MaxConnections = 2
    NoConn = NoConn
    Orphan = Orphan
    NoOperation = NoOperation
SPECIFICATION FairSpec
INVARIANTS
    TypeOK
    DrainReachesWork
    PermitsAreKept
PROPERTIES
    ShutdownEndsOrLocks

CONSTANTS
    Id = {i1}
    Foreign = {}
    Caller = {c1}
    Op = {o1, o2}
    NoId = NoId
    NoCaller = NoCaller
    MaxCreates = 1
    MaxCrashes = 1
SPECIFICATION FairSpec
INVARIANTS
    DurableCoverage
    Custody
    FencedOnce
PROPERTIES
    HandlersFinish
    RecoveryCompletes

CONSTANTS
    Id = {i1, i2}
    Foreign = {i2}
    Caller = {c1}
    Op = {o1, o2}
    NoId = NoId
    NoCaller = NoCaller
    MaxCreates = 1
    MaxCrashes = 0
SPECIFICATION Spec
SYMMETRY Symmetry
INVARIANTS
    TypeOK
    DurableCoverage
    Custody
    FencedOnce
    NoLostWakeup
    ForeignNeverExecuted

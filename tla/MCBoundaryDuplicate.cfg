CONSTANTS
    Id = {i1}
    Foreign = {}
    Caller = {c1}
    Op = {o1, o2}
    NoId = NoId
    NoCaller = NoCaller
    MaxCreates = 2
    MaxCrashes = 0
SPECIFICATION Spec
SYMMETRY Symmetry
INVARIANT DurableCoverage

SPECIFICATION Spec
CONSTANTS
    Dispatch = {d1, d2}
    d1 = d1
    d2 = d2
    Proc = {p1}
    p1 = p1
    NoDispatch = NoDispatch
    NoProc = NoProc
    MaxCrashes = 1
SYMMETRY Symmetry
INVARIANTS
    TypeOK
    EffectsAreGoverned
    AnswersAreTrue
    CacheIsFresh
PROPERTIES
    RecordIsFinal

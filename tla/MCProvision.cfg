CONSTANTS
    Override = {"native", "openshell"}
    MaxPid = 3
    MaxRuns = 2
    MaxFaults = 1
SPECIFICATION Spec
INVARIANTS
    TypeOK
    UninstallIsClean
    HostIsAccounted
    SuccessIsSound
    FailedRunStopsItsOwn
PROPERTIES
    StateOutlivesItsUsers
CHECK_DEADLOCK FALSE

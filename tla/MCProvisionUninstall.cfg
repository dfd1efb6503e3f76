CONSTANTS
    Override = {}
    MaxPid = 3
    MaxRuns = 3
    MaxFaults = 0
SPECIFICATION Spec
INVARIANT UninstallStopsTheGateway
CHECK_DEADLOCK FALSE

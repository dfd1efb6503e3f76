CONSTANTS
    MaxBuild = 2
    MaxFaults = 2
    MaxCommands = 2
SPECIFICATION Spec
INVARIANT NativeUsesVerified
CHECK_DEADLOCK FALSE

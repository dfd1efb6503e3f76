CONSTANTS
    MaxBuild = 3
    MaxFaults = 2
    MaxCommands = 2
SPECIFICATION Spec
INVARIANTS
    TypeOK
    PublishIsSound
    CommandsUseOneRelease
PROPERTIES
    ReplacedOnlyByUpload
CHECK_DEADLOCK FALSE

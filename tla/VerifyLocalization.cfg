SPECIFICATION DriverSpec
CONSTANTS
    Maps <- MCMaps
    World <- MCWorld
    ConvergeTimeout = 3
    DetectTimeout = 1
    RecoverTimeout = 2
    StallTimeout = 1
    QueueDepth = 2
    MaxCount = 2
    None = None
INVARIANTS
    KidnapPassIsRecovery
PROPERTIES
    VerdictIsReached

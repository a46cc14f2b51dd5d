SPECIFICATION LSpec
CONSTANTS
    Spreads <- MCSpreads
    Poses <- MCPoses
    UsableSpread = 1
    ConvergingSpread = 2
    LostSpread = 3
    UsableXY = 1
    LostXY = 2
    UsableYaw = 1
    StaleTimeout = 1
    StationaryTimeout = 2
    LostDuration = 2
    Cooldown = 2
    GracePeriod = 1
    TranslateDuration = 1
    AttemptDuration = 1
    ObserveDuration = 1
    MaxAttempts = 2
    None = None
    NoTime = NoTime
INVARIANTS
    LTypeOK
    SearchIsBounded
PROPERTIES
    UsableIsFresh
    ProbeContractHolds
    LossIsRecovered
    SearchIsMadeAndEnds

SPECIFICATION Spec
CONSTANTS
    HalfTurn = 12
    FrontArc = 2
    MinValidRange = 1
    StopDistance = 3
    NaN = NaN
    NoRange = NoRange
    Linear <- MCLinear
    Angular <- MCStraight
    Sides = {left, right}
    Scans <- MCScans
    ManualTimeout = 3
    BumperTimeout = 2
    PublishPeriod = 2
    Never = Never
INVARIANTS
    TypeOK
    ManualMotionExpires
PROPERTIES
    NoStaleReplay
    AuthorityIsRecency
    SilenceReleasesManual
    NoForwardIntoObstacle
    OnlyForwardIsStopped

SPECIFICATION WSpec
CONSTANTS
    HalfTurn = 12
    FrontArc = 2
    MinValidRange = 1
    StopDistance = 3
    NaN = NaN
    NoRange = NoRange
    Linear <- MCLinear
    Angular <- MCAngular
    Sides = {}
    Scans <- MCScans
    ManualTimeout = 1
    BumperTimeout = 0
    PublishPeriod = 1
    Never = Never
    ForwardSpeed = 1
    TurnSpeed = 1
    TurnThreshold = 5
    WanderFloor = 2
    WanderArc = 3
    SideArc = 4
    Duration = 2
    UnderWay = 1
INVARIANTS
    EndOfRunIsRest
PROPERTIES
    SteersBeforeStop

SPECIFICATION Spec
CONSTANTS
    Sensors <- MCSensors
    Topics = {t}
    InFlight = 2
    Puts = 2
INVARIANTS
    WantedAgrees
    NewestFrameKept
    SeenIsProbed
PROPERTIES
    StreamsFollowViewers

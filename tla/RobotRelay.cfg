SPECIFICATION Spec
CONSTANTS
    Robots = {r1, r2}
    Conns = {c1, c2}
    Viewers = {v1, v2}
    Nobody = Nobody
    NoAlarm = NoAlarm
    LeaseTtl = 3
INVARIANTS
    TypeOK
    AlarmTracksLease
    HolderIsListed
    ToldLeaseIsTrue
    SubscriptionsAgree
    StatusUntilLateClose
PROPERTIES
    LeaseIsExclusive
    SilentHolderIsReleased

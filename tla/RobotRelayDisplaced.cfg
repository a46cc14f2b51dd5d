SPECIFICATION Spec
CONSTANTS
    Robots = {r1, r2}
    Conns = {c1, c2}
    Viewers = {v1}
    Nobody = Nobody
    NoAlarm = NoAlarm
    LeaseTtl = 1
SYMMETRY MCSymmetry
INVARIANTS
    StatusIsTrue

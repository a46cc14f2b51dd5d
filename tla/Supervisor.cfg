SPECIFICATION Spec
CONSTANTS
    Goals = {g1, g2}
    Statuses <- MCStatuses
    None = None
    Stop = Stop
    Spin = Spin
INVARIANTS
    TypeOK
PROPERTIES
    NothingIsReplayed
    UncrossedGoalIsDriven
    NeverWedged
    ManualStopsLoneGoal

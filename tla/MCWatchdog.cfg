SPECIFICATION FairSpec
CONSTANTS
    Instances = {i1, i2, i3}
    None = None
    Budget = 1
    Window = 2
    Failures = 1
    Grace = 1
    Interval = 1
    ResetAfter = 1
    Floor = 1
    Cap = 1
    MaxStep = 0
    MaxHolds = 2
    MaxReloads = 1
INVARIANTS
    TypeOK
    BudgetRespected
    NoLostWakeup
PROPERTIES
    StaleVerdictHarmless
    DeadIsTriedAgain

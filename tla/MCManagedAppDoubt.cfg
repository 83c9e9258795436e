SPECIFICATION Spec
CONSTANTS
    None = None
    Versions = {v1, v2}
    Nonces = {n1, n2, n3, n4, n5}
    Keep = 1
    PreStart = TRUE
    MaxDeploys = 2
    Faults = {"manager", "state", "record", "marker"}
SYMMETRY Symmetric
INVARIANTS
    TypeOK
    ReleaseUnderEveryUnit
    AtMostTwoInstances
    LiveInstanceIsRouted
PROPERTIES
    NothingLaunchedBesideMigration
    MigrationsRunToTheirEnd
    ServingInstanceSpared

SPECIFICATION Spec
CONSTANTS
    None = None
    Versions = {v1, v2}
    Nonces = {n1, n2, n3, n4, n5}
    Keep = 1
    PreStart = TRUE
    MaxDeploys = 2
    Faults = {"manager", "launch", "refuse", "record", "marker", "remove"}
SYMMETRY Symmetric
INVARIANTS
    RelaunchableIsGated

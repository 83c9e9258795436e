SPECIFICATION FairSpec
CONSTANTS
    None = None
    Versions = {v1, v2}
    Nonces = {n1, n2, n3, n4}
    Keep = 1
    PreStart = TRUE
    MaxDeploys = 2
    Faults = {}
PROPERTIES
    ServedAgain
    MarkerSettled

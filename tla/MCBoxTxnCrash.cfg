SPECIFICATION Spec
CONSTANTS
    Apps = {1, 2}
    x = x
    y = y
    e = e
    Bytes = {x, y, e}
    None = None
    Pushes = {1, 2}
    Head <- CommitsHead
    Uses <- CommitsUses
    Plain = e
    Faults = {"lost", "unsynced", "read"}
    MaxPosts = 2
    MaxFaults = 1
    MaxStops = 2
    MaxConsole = 0
INVARIANTS
    WholeCommit
    EnvFilesThere
    RollbackResumes
PROPERTIES
    RecordBeforeBytes
    OneTerminalResult
    ResultIsTrue
    AppliedIsLoaded

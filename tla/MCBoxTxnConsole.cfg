SPECIFICATION Spec
CONSTANTS
    Apps = {1, 2}
    x = x
    y = y
    e = e
    Bytes = {x, y, e}
    None = None
    Pushes = {1, 2, 3}
    Head <- CommitsHead
    Uses <- CommitsUses
    Plain = e
    Faults = {"lost", "unsynced", "read"}
    MaxPosts = 1
    MaxFaults = 1
    MaxStops = 1
    MaxConsole = 1
INVARIANTS
    TypeOK
PROPERTIES
    ConsoleEditsKept

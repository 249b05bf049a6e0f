SPECIFICATION PreviewSpec
CONSTANTS
    NoRoot = NoRoot
    Roots = {r1}
    IdSpace = 6
    MaxSpawned = 4
    MaxCommands = 2
    MaxFaults = 1
CHECK_DEADLOCK FALSE
INVARIANTS
    ManagerInvariant
    NoHelperLeaks
PROPERTIES
    EverythingEnds

SPECIFICATION Spec
CONSTANTS
    c1 = c1
    c2 = c2
    Callers <- MCCallers
    Calls <- MCCalls
    Sidecars <- MCSidecars
    Homes = {"cpu", "gpu"}
    MetalAvailable = TRUE
    DefaultTile <- MCDefaultTile
    Tiles = 2
    MaxCalls = 2
INVARIANTS
    RunsWherePromised
    ReportsAreHonest
    DefaultDeviceComesBack
    EventsPairUp
CHECK_DEADLOCK FALSE

SPECIFICATION Spec
CONSTANTS
    flaky = flaky
    steady = steady
    late_comer = late_comer
    Clients <- MCClients
    Pinned <- MCPinned
    Casts <- MCCasts
    Slots <- MCSlots
    Calls = {t1, t2}
    MaxRetries = 1
    MaxFaults = 1
INVARIANTS
    PinnedOnly
    OneWorkerSuffices
PROPERTIES
    ImplementsTileCall
CHECK_DEADLOCK FALSE

SPECIFICATION Spec
CONSTANTS
    Handlers = {h1, h2, h3}
    Nobody = Nobody
    Slots = 2
    MaxRequests = 4
INVARIANTS
    TypeOK
    SlotsConserved
    ActiveWithinSlots
PROPERTIES
    AllSlotsReturn
    HealthStaysResponsive
CHECK_DEADLOCK FALSE

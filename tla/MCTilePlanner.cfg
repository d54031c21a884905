SPECIFICATION PlannerSpec
CONSTANTS
    None = None
    Requests <- MCRequests
INVARIANTS
    BisectionKeepsAnswer
    EveryPairOnce
    TilesWithinLimits
PROPERTIES
    PlanningEnds
CHECK_DEADLOCK FALSE

SPECIFICATION Spec
CONSTANTS
    Scale = 1
    InFlightTiles = 2
    Jobs <- MCJobs
INVARIANTS
    TypeOK
    BestIsFirst
    SumIsComplete
    SummaryIsBinned
    NearestAreNearest
    ShapeIsAffordable
CHECK_DEADLOCK FALSE

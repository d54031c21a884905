SPECIFICATION Spec
CONSTANTS
    IntMax = 7
    Scale = 1
    PoolSize = 2
    MaxInFlight = 0
    MaxRetries = 1
    NoAnswer = NoAnswer
    Jobs <- MCJobs
    Sim <- MCSim
    Answers <- MCAnswers
INVARIANTS
    TypeOK
    MergedIsBest
    NoTileLostOrTwice
    InFlightBounded
    EndedJobIsQuiet
PROPERTIES
    ImplementsProfileJob
    JobEnds
CHECK_DEADLOCK FALSE

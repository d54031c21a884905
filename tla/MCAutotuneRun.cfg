SPECIFICATION TunerSpec
CONSTANTS
    Plans <- MCPlans
    Estimates <- MCEstimates
    Elapsed = {0, 1, 2, 5}
    Halvings = 4
    MaxDuration = 4
    MaxTrials = 3
INVARIANTS
    OnlyRightOnesCompete
PROPERTY SavedIsOfUse
CHECK_DEADLOCK FALSE

SPECIFICATION Spec
CONSTANTS
    Outputs <- MCOutputs
    Existing <- MCExisting
    MaxForeign = 3
    MaxFaults = 1
INVARIANTS
    NothingOfOthersLost
    AllOrNothing
    StrandedIsReported
PROPERTY CommandEnds

SPECIFICATION Spec
CONSTANTS
    Outputs <- MCOutputs
    Existing <- MCExisting
    MaxForeign = 1
    MaxFaults = 0
INVARIANTS
    NoWriteLost

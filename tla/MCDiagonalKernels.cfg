SPECIFICATION Spec
CONSTANTS
    NoCell = NoCell
    Invalid = NoCell
    Nothing = Nothing
    Jobs <- MCJobs
    Width = 4
    Minus2 = 11
    BatchSize = 2
INVARIANTS
    NearestByKernel
    PooledByKernel
CHECK_DEADLOCK FALSE

SPECIFICATION FairSpec
CONSTANTS
    t1 = t1
    t2 = t2
    t3 = t3
    Nobody = Nobody
    Threads <- MCThreads
    ProcessOf <- MCProcessOf
    EnvironmentOf <- MCEnvironmentOf
    InitialFiles <- MCInitialFiles
    Keys = {1}
    Clock = {2}
    MaxRecords = 2
    MaxEnvironments = 2
    MaxCalls = 1
    MaxCrashes = 1
INVARIANT ReadsOwnWrites
PROPERTIES
    ImplementsTuningStore
    CallsEnd
CHECK_DEADLOCK FALSE

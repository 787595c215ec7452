SPECIFICATION FairDeviceSpec
CONSTANTS
    r1 = r1
    r2 = r2
    r3 = r3
    Resources <- MCResources
    Chunks <- MCChunks
    MaxSubmissions = 2
INVARIANTS
    TypeOK
    NoLostPush
    NothingLeaked
    PartsOutliveUsers
PROPERTIES
    DrainIsComplete
    ImplementsDeferredDestruction
CHECK_DEADLOCK FALSE

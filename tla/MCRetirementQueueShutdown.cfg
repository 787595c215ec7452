SPECIFICATION FairDeviceSpec
CONSTANTS
    r1 = r1
    r2 = r2
    r3 = r3
    Resources <- MCResources
    Chunks <- MCChunks
    MaxSubmissions = 1
PROPERTIES
    ShutdownReturns
CHECK_DEADLOCK FALSE

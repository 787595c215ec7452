SPECIFICATION SafetySpec
CONSTANTS
    b1 = b1
    h1 = h1
    p1 = p1
    f1 = f1
    f2 = f2
    Buffers <- OneOfEach
    HostVisible <- MappedBuffers
    Pipelines <- NoPipelines
    Futures <- OneFuture
    MaxSubmissions = 2
    AssignOverPending = TRUE
    SelfMoves = FALSE
INVARIANTS
    NoDownloadLost
CHECK_DEADLOCK FALSE

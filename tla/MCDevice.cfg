SPECIFICATION Spec
CONSTANTS
    b1 = b1
    h1 = h1
    p1 = p1
    f1 = f1
    f2 = f2
    Buffers <- OneOfEach
    HostVisible <- MappedBuffers
    Pipelines <- OnePipeline
    Futures <- TwoFutures
    MaxSubmissions = 2
    AssignOverPending = FALSE
    SelfMoves = FALSE
INVARIANTS
    TypeOK
    NoOverlap
    HostAccessExclusive
    NoUseAfterFree
    FutureOwnsStaging
    NoDownloadLost
    DownloadsCurrent
PROPERTIES
    CallsReturn
    FreedInTheEnd
CHECK_DEADLOCK FALSE

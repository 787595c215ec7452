SPECIFICATION Spec
CONSTANTS
    l1 = l1
    l2 = l2
    x = x
    y = y
    pA = pA
    pB = pB
    None = None
    Lists <- TwoLists
    Buffers <- OneBuffer
    Pipelines <- OnePipeline
    PushOffset <- OneOffsets
    PushConstants <- NoConstants
    Accesses <- ReadWrite
    ChunkSlots = 1
    MaxDispatches = 2
    MaxChunks = 3
    MaxSubmissions = 2
    AliasedBindings = TRUE
    Interleaved = TRUE
INVARIANTS
    TypeOK
    ResolvedCurrent
    ChunkHasOneOwner
PROPERTIES
    BackInThePool
CHECK_DEADLOCK FALSE

SPECIFICATION SafetySpec
CONSTANTS
    l1 = l1
    l2 = l2
    x = x
    y = y
    pA = pA
    pB = pB
    None = None
    Lists <- TwoLists
    Buffers <- TwoBuffers
    Pipelines <- OnePipeline
    PushOffset <- OneOffsets
    PushConstants <- NoConstants
    Accesses <- ReadOrWrite
    ChunkSlots = 4
    MaxDispatches = 2
    MaxChunks = 2
    MaxSubmissions = 1
    AliasedBindings = FALSE
    Interleaved = TRUE
SYMMETRY Symmetric
PROPERTIES
    BarrierAfterWrite
CHECK_DEADLOCK FALSE

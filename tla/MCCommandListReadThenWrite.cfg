SPECIFICATION SafetySpec
CONSTANTS
    l1 = l1
    l2 = l2
    x = x
    y = y
    pA = pA
    pB = pB
    None = None
    Lists <- OneList
    Buffers <- TwoBuffers
    Pipelines <- OnePipeline
    PushOffset <- OneOffsets
    PushConstants <- NoConstants
    Accesses <- ReadOrWrite
    ChunkSlots = 4
    MaxDispatches = 2
    MaxChunks = 1
    MaxSubmissions = 1
    AliasedBindings = FALSE
    Interleaved = FALSE
SYMMETRY SymmetricBuffers
PROPERTIES
    BarrierBeforeWrite
CHECK_DEADLOCK FALSE

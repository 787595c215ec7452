SPECIFICATION SafetySpec
CONSTANTS
    l1 = l1
    l2 = l2
    x = x
    y = y
    pA = pA
    pB = pB
    None = None
    Lists <- OneList
    Buffers <- TwoBuffers
    Pipelines <- OnePipeline
    PushOffset <- OneOffsets
    PushConstants <- NoConstants
    Accesses <- ReadWrite
    ChunkSlots = 2
    MaxDispatches = 2
    MaxChunks = 2
    MaxSubmissions = 1
    AliasedBindings = TRUE
    Interleaved = FALSE
SYMMETRY SymmetricBuffers
INVARIANTS
    DescriptorsCurrent
CHECK_DEADLOCK FALSE

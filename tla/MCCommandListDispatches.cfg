SPECIFICATION SafetySpec
CONSTANTS
    l1 = l1
    l2 = l2
    x = x
    y = y
    pA = pA
    pB = pB
    None = None
    Lists <- OneList
    Buffers <- TwoBuffers
    Pipelines <- TwoPipelines
    PushOffset <- TwoOffsets
    PushConstants <- SomeConstants
    Accesses <- ReadOrWrite
    ChunkSlots = 6
    MaxDispatches = 3
    MaxChunks = 2
    MaxSubmissions = 1
    AliasedBindings = FALSE
    Interleaved = FALSE
SYMMETRY SymmetricBuffers
INVARIANTS
    DescriptorsCurrent
PROPERTIES
    BarrierAfterWrite
CHECK_DEADLOCK FALSE

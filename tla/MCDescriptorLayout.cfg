SPECIFICATION Spec
CONSTANTS
    x = x
    u = u
    both = both
    None = None
    Shaders <- SomeShaders
    Limits <- SomeLimits
    Buffers <- AllBuffers
    Usage <- AllUsages
    ChunkSlots = 4
    MaxDispatches = 3
INVARIANTS
    TypeOK
    ShaderFindsDescriptors
    ConstantsKept
    LayoutApart
    WithinLimits
CHECK_DEADLOCK FALSE

SPECIFICATION Spec
CONSTANTS
    b1 = b1
    b2 = b2
    p1 = p1
    p2 = p2
    l1 = l1
    None = None
    BufferVars <- TwoBuffers
    PipelineVars <- TwoPipelines
    Lists <- OneList
    MaxObjects = 2
    MaxSubmissions = 3
    MovedWhileBound = FALSE
SYMMETRY Symmetric
INVARIANTS
    TypeOK
    OneOwner
    NoUseAfterFree
    NoOverlap
    StampsCover
CHECK_DEADLOCK FALSE

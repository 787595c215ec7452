SPECIFICATION Spec
CONSTANTS
    t1 = t1
    t2 = t2
    c1 = c1
    c2 = c2
    c3 = c3
    NoBuffer = NoBuffer
    Threads <- MCThreads
    CommandBuffers <- MCCommandBuffers
    MaxSubmissions = 3
INVARIANTS
    TypeOK
    OneOwner
    RecordingKept
    PoolReusable
    WaitsAsAsked
    GpuCanGoOn
PROPERTIES
    ResetOnlyFinished
    CallsReturn
    ImplementsTimeline

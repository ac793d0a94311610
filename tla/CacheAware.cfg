SPECIFICATION OrderFairSpec
CONSTANTS
    Request <- MCRequest
    GpuCount = 2
    Tokens <- MCTokens
    PrefillTime <- MCPrefillTime
    DecodeStepTime <- MCDecodeStepTime
    None = None
    Session <- MCSession
    Traces <- MCTraces
    MaxRuns = 1
    Builds <- MCBuilds
    TargetNode = 1
    Node <- MCNode
    Missing = Missing
    GpuThreshold = 1
    BytesPerToken = 1
    MaxInt = 127
    Bandwidth <- MCBandwidth
    BaseLatency <- MCBaseLatency
    NsPerUnit = 1
    Queued = TRUE
    Calibrated <- MCNoTable
    Fails = Fails
INVARIANTS
    TypeOK
    OneWhere
    HitsAddUp
    CacheSound
    ReuseIsCausal
    NicIsSerial
    StagesInOrder
    WorkConserving
PROPERTIES
    QueuesAreFifo
    RequestsServed
    ImplementsLifecycle
CHECK_DEADLOCK FALSE

SPECIFICATION ExpFairSpec
CONSTANTS
    Request <- MCRequest
    GpuCount = 2
    Tokens <- MCTokens
    PrefillTime <- MCPrefillTime
    DecodeStepTime <- MCDecodeStepTime
    None = None
    Session <- MCSession
    Traces <- MCTraces
    MaxRuns = 2
    Builds <- MCBuilds
    TargetNode = 0
    Node <- MCNode
    Missing = Missing
    GpuThreshold = 4
    BytesPerToken = 2
    MaxInt = 1000000
    Bandwidth <- MCBandwidth
    BaseLatency <- MCBaseLatency
    NsPerUnit = 4
    Queued = FALSE
    Calibrated <- MCCalibrated
    Fails = Fails
    MaxTokens = 4
    LinearComputeModel <- MCLinearComputeModel
    ModelProfile <- MCModelProfile
    DecodeBatchSize = 1
    ContextBlock = 2
    Plans <- MCPlans
INVARIANTS
    ReuseIsComplete
    BytesConserved
    SavedWithinPotential
    SummaryHonest
    DecisionIsSound
PROPERTIES
    WarmEvictsLruFromGpu
    RequestsServed
CHECK_DEADLOCK FALSE

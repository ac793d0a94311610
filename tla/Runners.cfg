SPECIFICATION BothFairSpec
CONSTANTS
    Request <- MCRequest
    GpuCount = 3
    Tokens <- MCTokens
    PrefillTime <- MCPrefillTime
    DecodeStepTime <- MCDecodeStepTime
    None = None
    Clusters <- MCClusters
    Traces <- MCTraces
    MaxRuns = 1
INVARIANTS
    TypeOK
    OneWhere
    TimelineHonest
    WorkConserving
    WithinWorkers
    PrefillsInOrder
    PrefillPrompt
    SameTimesWithoutTies
PROPERTIES
    QueuesAreFifo
    RequestsServed
    ImplementsLifecycle
CHECK_DEADLOCK FALSE

SPECIFICATION BothSpec
CONSTANTS
    Request <- MCTwoRequests
    GpuCount = 3
    Tokens <- MCTokens
    PrefillTime <- MCPrefillTime
    DecodeStepTime <- MCDecodeStepTime
    None = None
    Clusters <- MCTwoPrefill
    Traces <- MCFewTraces
    MaxRuns = 1
INVARIANTS
    SameTimes
CHECK_DEADLOCK FALSE

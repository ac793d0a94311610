SPECIFICATION Spec
CONSTANTS
    Request <- MCRequest
    GpuCount = 2
    Tokens <- MCTokens
    PrefillTime <- MCPrefillTime
    DecodeStepTime <- MCDecodeStepTime
    None = None
    Clusters <- MCSplit
    Traces <- MCFewTraces
    MaxRuns = 2
INVARIANTS
    AllServed
CHECK_DEADLOCK FALSE

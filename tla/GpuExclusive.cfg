SPECIFICATION Spec
CONSTANTS
    Request <- MCRequest
    GpuCount = 2
    Tokens <- MCTokens
    PrefillTime <- MCPrefillTime
    DecodeStepTime <- MCDecodeStepTime
    None = None
    Clusters <- MCSplit
    Traces <- MCFewTraces
    MaxRuns = 1
INVARIANTS
    GpuExclusive
CHECK_DEADLOCK FALSE

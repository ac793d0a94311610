SPECIFICATION PlaceSpec
CONSTANTS
    Session = {s1, s2}
    Prefix <- MCPrefix
    Cell <- MCCell
    Missing = Missing
    ByteSize <- MCPrefix
    Time <- MCTime
    MaxKvId = 3
    Bandwidth <- MCNoSsdBandwidth
    BaseLatency <- MCBaseLatency
    NsPerUnit = 1
    Queued = FALSE
    Calibrated <- MCNoTable
    Fails = Fails
    TargetNode = 1
    Policies <- MCNetworkAware
    GpuThreshold = 1
    PrefillTime <- MCFastPrefill
    BytesPerToken = 1
    MaxInt = 127
    Capacities <- MCCapacities
    None = None
INVARIANTS
    PlacesOnBestTier
CHECK_DEADLOCK FALSE

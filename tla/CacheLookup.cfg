SPECIFICATION Spec
CONSTANTS
    Session = {s1}
    Prefix <- MCPrefix
    Cell = {gpu, cpu}
    Missing = Missing
    ByteSize <- MCByteSize
    Time <- MCTime
    MaxKvId = 3
INVARIANT
    LookupFindsTracked

CONSTANTS
    None = None
    RecordSize = 2
    BlobThreshold = 1
    MaxSize = 5
    Bytes = {1, 2}
    ReadSizes = {2, 5}
    AttrNames <- MCNames
    NameLen <- MCNameLen
    AttrHash <- MCHash
    AttrValues <- MCValues
    Rids <- MCRids
    MaxCalls = 3
    Atime = FALSE
SPECIFICATION Spec
INVARIANTS ReadsExact BlobsExact XattrProtocol
PROPERTY IsByteFile
CHECK_DEADLOCK FALSE

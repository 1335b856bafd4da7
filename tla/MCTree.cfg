CONSTANTS
    MinInt = 2
    MaxInt = 5
    MinLeaf = 1
    MaxLeaf = 3
    Sequential = FALSE
    MaxKey = 24
    Values = {v1}
    Written = {1, 3, 8}
    Batches <- AllBatches
    Zones <- MCZones
    MaxAddr = 40
    Ranges <- MCRanges
    MaxOps = 3
    MaxTxg = 3
    None = None
SPECIFICATION Spec
CHECK_DEADLOCK FALSE
INVARIANTS  QueryComplete 
PROPERTIES IsMap

CONSTANTS
    Callers = {t1, t2}
    NClusters = 2
    NZones = 1
    ZoneSize = 2
    OptDepth = 2
    Lens = {1, 2}
    DirectLens = {1}
    Full = {0, 1}
    MaxPuts = 2
    MaxCalls = 4
    MaxOpens = 1
SPECIFICATION Spec
INVARIANTS CacheTrue 
PROPERTIES  ListComplete Answered
CHECK_DEADLOCK FALSE

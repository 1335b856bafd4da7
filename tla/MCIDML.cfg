CONSTANTS
    t1 = t1
    t2 = t2
    Tasks = {t1, t2}
    Envs <- MCEnvs
    Zones = 3
    ZoneSize = 2
    MinFreed = 1
    MaxRid = 4
    MaxTxg = 1
    None = None
SYMMETRY TaskSymmetry
SPECIFICATION Spec
CHECK_DEADLOCK FALSE
INVARIANTS NoFailure RecordsSound 

CONSTANTS
    k1 = k1
    k2 = k2
    k3 = k3
    k4 = k4
    k5 = k5
    Keys = {k1, k2, k3, k4, k5}
    BufLen <- MCBufLen
    Capacity = 6
    None = None
SPECIFICATION Spec
CHECK_DEADLOCK FALSE
INVARIANTS CacheSound
PROPERTIES IsLru

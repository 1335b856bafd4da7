CONSTANTS
    c1 = c1
    c2 = c2
    d1 = d1
    d2 = d2
    v1 = v1
    t1 = t1
    t2 = t2
    Callers = {t1, t2}
    Names = {atime}
    Values = {v1}
    MaxFs = 2
    None = None
    NewFsLater = FALSE
    Children <- TwoClusters
    Leaves <- TwoDisks
    MaxCalls = 3
    MaxFails = 1
    MaxCrashes = 2
    TearingCrashes = 1
SPECIFICATION Spec
INVARIANT PropsTrue
PROPERTIES ImportRestores CallsReturn
CHECK_DEADLOCK FALSE

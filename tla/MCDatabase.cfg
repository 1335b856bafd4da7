CONSTANTS
    w1 = w1
    w2 = w2
    s1 = s1
    s2 = s2
    Writers = {w1, w2}
    Syncers = {s1, s2}
    IoErrors = TRUE
    MaxCommits = 2
    MaxCrashes = 1
    MaxTears = 1
SPECIFICATION FairSpec
CHECK_DEADLOCK FALSE
INVARIANTS  Durable
PROPERTIES SyncReturns

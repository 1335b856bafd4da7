CONSTANTS
    QueueDepth = 2
    ZoneIds = {1, 2}
    ZoneStart <- MCZoneStart
    ZoneEnd <- MCZoneEnd
    MaxOps = 4
SPECIFICATION FairSpec
CHECK_DEADLOCK FALSE
INVARIANTS SchedulerSound
PROPERTIES IsBlockQueue ZoneSequential Completes

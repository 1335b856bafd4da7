CONSTANTS
    NDisks = 5
    PerStripe = 3
    Redundancy = 1
    ChunkSize = 2
    BytesPerLba = 2
    DiskSize = 22
    LbasPerZone = 11
    LabelLbas = 1
    SpacemapZonesPerLba = 2
    CanDelete = FALSE
    WriteLens = {3, 15, 24}
    ReadLens = {1, 3, 7}
    MaxErases = 1
    MaxCrashes = 1
    MaxWrites = 3
    MaxPending = 0
    MaxTorn = 1
    Layouts <- MCLayouts
    Starts <- MCStarts
    MaxSteps <- MCMaxSteps
SPECIFICATION MCSpec
CHECK_DEADLOCK FALSE
INVARIANTS ReadsBack Recoverable WritesOrderly LayoutExact

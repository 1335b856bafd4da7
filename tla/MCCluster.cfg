CONSTANTS
    TotalZones = 3
    Space <- MCSpace
    ZonesPerBlock = 2
    StripeLbas = 2
    WriteSizes = {2, 3}
    U32Max = 5
    MaxTxg = 1
SPECIFICATION Spec
CONSTRAINT TxgBound
INVARIANTS Accounted ExtentsIntact SpacemapSound
PROPERTIES ZoneLifecycle

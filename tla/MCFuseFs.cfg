CONSTANTS
    Names <- MCNames
    Hash <- MCHash
    MaxIno = 3
    MaxLookups = 2
    MaxMounts = 2
    None = None
SPECIFICATION Spec
CHECK_DEADLOCK FALSE
INVARIANTS NamesSound CachesTrue OnlyKnownPanics ReaddirOnce

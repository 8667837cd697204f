SPECIFICATION Spec
CONSTANTS
    Keys = {k1, k2}
    NoKey = NoKey
    CacheSize = 2
    LogSize = 3
    MaxLog = 5
    MaxRestarts = 2
    MaxOom = 0
SYMMETRY KeySymmetry
INVARIANT AckedWritesSurvive
INVARIANT LeafPointersLive
PROPERTY ImplementsKVMap
CHECK_DEADLOCK FALSE

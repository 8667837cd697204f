SPECIFICATION Spec
CONSTANTS
    Keys = {k1, k2}
    NoKey = NoKey
    CacheSize = 2
    LogSize = 3
    MaxLog = 4
    MaxRestarts = 0
    MaxOom = 2
INVARIANT NoNullRead
INVARIANT AckedRemovesSurvive
INVARIANT LeafPointersLive
CHECK_DEADLOCK FALSE

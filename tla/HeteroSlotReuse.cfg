SPECIFICATION Spec
CONSTANTS
    Keys = {k1, k2}
    NoKey = NoKey
    CacheSize = 1
    LogSize = 4
    MaxLog = 6
    MaxRestarts = 0
    MaxOom = 0
INVARIANT AckedRemovesSurvive
CHECK_DEADLOCK FALSE

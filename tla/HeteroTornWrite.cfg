SPECIFICATION Spec
CONSTANTS
    Keys = {k1}
    NoKey = NoKey
    CacheSize = 1
    LogSize = 3
    MaxLog = 4
    MaxRestarts = 1
    MaxOom = 0
INVARIANT WritesAreAtomic
CHECK_DEADLOCK FALSE

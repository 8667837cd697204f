SPECIFICATION FairSpec
CONSTANTS
    Keys = {k1, k2}
    NoKey = NoKey
    CacheSize = 1
    LogSize = 2
    MaxLog = 3
    MaxRestarts = 1
    MaxOom = 2
INVARIANT LogPointersLive
INVARIANT TreeHasOneWriter
PROPERTY WritesReturn
PROPERTY LogDrains
PROPERTY CloseReturns
CHECK_DEADLOCK FALSE

SPECIFICATION FairWalkSpec
CONSTANTS
    Keys = {1, 2, 3}
    NoKey = NoKey
    CacheSize = 2
    LogSize = 2
    MaxLog = 3
    MaxRestarts = 1
    MaxOom = 0
INVARIANT LruListConsistent
INVARIANT WalkIsExact
PROPERTY WalksEnd
CHECK_DEADLOCK FALSE

SPECIFICATION FairSpec
CONSTANTS
    Keys = {k1, k2, k3}
    NoKey = NoKey
    Hashes = {1, 2, 7}
    InitCapacity = 4
    MaxSwaps = 3
    MaxPuts = 5
    MaxFails = 1
    MaxCrashes = 1
INVARIANT GetFindsLastPut
PROPERTY CallsReturn

SPECIFICATION Spec
CONSTANTS
    Keys = {k1, k2}
    NoKey = NoKey
    Hashes = {3}
    InitCapacity = 8
    MaxSwaps = 150
    MaxPuts = 8
    MaxFails = 0
    MaxCrashes = 0
INVARIANT GetFindsLastPut

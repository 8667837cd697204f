SPECIFICATION Spec
CONSTANTS
    Keys = {k1, k2, k3, k4}
    NoKey = NoKey
    Hashes = {1}
    InitCapacity = 4
    MaxSwaps = 150
    MaxPuts = 4
    MaxFails = 1
    MaxCrashes = 0
INVARIANT NotFoundIsTrue

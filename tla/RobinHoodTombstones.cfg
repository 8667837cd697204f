SPECIFICATION Spec
CONSTANTS
    Keys = {k1, k2, k3}
    NoKey = NoKey
    Hashes = {1, 2, 6, 7}
    InitCapacity = 8
    MaxSwaps = 150
    MaxPuts = 6
    MaxFails = 0
    MaxCrashes = 0
SYMMETRY KeySymmetry
INVARIANT GetFindsLastPut
INVARIANT CountIsExact
INVARIANT ProbeOrder

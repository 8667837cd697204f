SPECIFICATION Spec
CONSTANTS
  Process = {p1, p2, p3}
  NoProcess = NoProcess
  Dangling = Dangling
  Engines = {"radix", "stree"}
  Compares = {"stree"}
  Names = {"radix", "stree", "other"}
  Configs <- MCConfigs
  NullConfig = NullConfig
  BinaryComparator = "__pmemkv_binary_comparator"
  MinPool = 2
  Keys = {1}
  Bounds = {1}
  Bytes = {0}
  Values <- OneValue
  MaxLen = 1
  NoKey = NoKey
  NoValue = NoValue
  End = End
  Nowhere = Nowhere
  MaxLog = 0
SYMMETRY ProcessSymmetry
INVARIANT PoolIsReleased
INVARIANT OrderIsKept
INVARIANT FittingOpenSucceeds
CHECK_DEADLOCK FALSE

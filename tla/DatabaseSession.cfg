SPECIFICATION Spec
CONSTANTS
  Process = {p1}
  NoProcess = NoProcess
  Dangling = Dangling
  Engines = {"radix", "stree"}
  Compares = {"stree"}
  Names = {"radix", "stree", "other"}
  Configs <- FewConfigs
  NullConfig = NullConfig
  BinaryComparator = "__pmemkv_binary_comparator"
  MinPool = 2
  Keys = {1, 2}
  Bounds = {0, 1, 2, 3}
  Bytes = {0, 1}
  Values <- MCValues
  MaxLen = 2
  NoKey = NoKey
  NoValue = NoValue
  End = End
  Nowhere = Nowhere
  MaxLog = 2
INVARIANT QueriesAreExact
PROPERTY EditsAreCommitted
PROPERTY ImplementsTxMap
CHECK_DEADLOCK FALSE

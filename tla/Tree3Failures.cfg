SPECIFICATION Spec
CONSTANTS
  MaxKeys = 3
  MaxLeaves = 2
  Keys <- MCKeys
  LeafIds <- MCLeafIds
  InnerIds <- MCInnerIds
  Values = {v}
  NoKey = 0
  NoValue = NoValue
  Null = Null
  LeafKeys = 2
  InnerKeys = 2
  Oom = {"split", "remove"}
  Reopens = TRUE
INVARIANT PresentIsFound
PROPERTY FailedDeleteIsSafe

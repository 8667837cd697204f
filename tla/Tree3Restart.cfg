SPECIFICATION Spec
CONSTANTS
  MaxKeys = 5
  MaxLeaves = 5
  Keys <- MCKeys
  LeafIds <- MCLeafIds
  InnerIds <- MCInnerIds
  Values = {v}
  NoKey = 0
  NoValue = NoValue
  Null = Null
  LeafKeys = 2
  InnerKeys = 2
  Oom = {"head", "split", "remove"}
  Reopens = TRUE
INVARIANT GetIsExact
INVARIANT DurableIsExact

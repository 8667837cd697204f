SPECIFICATION Spec
CONSTANTS
  MaxKey = 10
  MaxNode = 15
  Keys <- MCKeys
  NodeIds <- MCNodeIds
  Capacity = 3
  Null = Null
  MaxJumps = 3
INVARIANT SeparatorsAreFronts
INVARIANT FindIsExact
INVARIANT ChainIsContents
INVARIANT UpperBoundIsExact

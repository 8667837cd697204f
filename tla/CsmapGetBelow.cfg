SPECIFICATION Spec
CONSTANTS
  MaxKey = 3
  Threads = {t1, t2}
  Keys <- MCKeys
  End <- MCEnd
  Values = {v}
  NoValue = NoValue
  Torn = Torn
  NoThread = NoThread
  Ranges <- ClosedRanges
INVARIANT WalkStaysInMap

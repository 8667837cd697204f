SPECIFICATION Spec
CONSTANTS
  MaxKey = 2
  Threads = {t1, t2, t3}
  Keys <- MCKeys
  End <- MCEnd
  Values = {v, w}
  NoValue = NoValue
  Torn = Torn
  NoThread = NoThread
  Ranges <- OpenRanges
SYMMETRY Symmetry
INVARIANT ElementsAreStable
INVARIANT NoCircularWait
INVARIANT WalkIsExact
PROPERTY ImplementsConcurrentMap

SPECIFICATION Spec
CONSTANTS
  Threads = {t1, t2, t3}
  Keys = {k1, k2}
  Values = {v, w}
  Elements = {1, 2, 3, 4, 5}
  NoValue = NoValue
  Empty = Empty
  Torn = Torn
  NoKey = NoKey
  NoThread = NoThread
  NoElement = NoElement
SYMMETRY Symmetry
INVARIANT HeldIsStable
INVARIANT NoCircularWait
PROPERTY ImplementsConcurrentHashMap

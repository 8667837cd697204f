SPECIFICATION Spec
CONSTANTS
  reversing = reversing
  folding = folding
  object = object
  Comparators = {reversing, folding}
  Others = {object}
  Heaps = {h1, h2}
  ItemKeys = {"comparator", "allocator"}
  NoItem = NoItem
  Plain = Plain
  Bad = Bad
  NullConfig = NullConfig
  NoEngine = NoEngine
  Keys = {2, 3, 4}
  Values = {v}
  NoValue = NoValue
  End = End
  Nowhere = Nowhere
  Iterators = {i1}
  RawIterators = {i1}
  NoIterator = NoIterator
  Slots = {r1, r2}
  Rank <- MCRank
  JsonTexts <- MCJsonTexts
  Threads = {t1, t2}
  Called = {"count_above", "get_all", "get_copy", "put", "remove", "defrag", "tx_begin", "write_iterator_new", "seek", "prev", "key", "commit", "tx_put", "tx_commit"}
  Texts = {a, b}
  NoText = NoText
  None = None
  CommitsInside = TRUE
PROPERTY AbortTakesNothingBack

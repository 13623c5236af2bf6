SPECIFICATION Spec
CONSTANTS
  w1 = w1
  w2 = w2
  t1 = t1
  t2 = t2
  i1 = i1
  i2 = i2
  NoOne = NoOne
  Worker = {w1, w2}
  Thread = {t1, t2}
  Instance = {i1, i2}
  Visible = 2
  SizeOf <- Sizes
  FlushLag = TRUE
INVARIANTS SizesOwn NeverStale
SYMMETRY Symmetric
CHECK_DEADLOCK FALSE

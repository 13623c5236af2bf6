SPECIFICATION Spec
CONSTANTS
  i1 = i1
  i2 = i2
  Install = {i1, i2}
  Length = 1
  Size = 3
  MaxKeys = 3
  MaxFaults = 1
SYMMETRY Symmetry
INVARIANTS TypeOK SelfHeals OwnWriteKept SavedUnlessDropped
PROPERTIES OnlyStaleReplaced
CHECK_DEADLOCK FALSE

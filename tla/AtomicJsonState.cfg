\* Three writers that hold a lock around their saves, and may die.
SPECIFICATION Spec
CONSTANTS
  w1 = w1
  w2 = w2
  w3 = w3
  Writers = {w1, w2, w3}
  Inodes = {i1, i2, i3, i4, i5}
  Serialized = TRUE
  MaxCrashes = 3
  None = None
INVARIANTS
  PathHoldsWholeDocument
  SavesSucceed

\* Three writers without a lock.
SPECIFICATION Spec
CONSTANTS
  w1 = w1
  w2 = w2
  w3 = w3
  Writers = {w1, w2, w3}
  Inodes = {i1, i2, i3, i4, i5}
  Serialized = FALSE
  MaxCrashes = 3
  None = None
INVARIANT PathHoldsWholeDocument

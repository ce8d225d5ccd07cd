SPECIFICATION Spec
CONSTANTS
  w1 = w1
  w2 = w2
  Writers = {w1, w2}
  Pruners = {}
  Precision = 2
  MaxTime = 2
  MaxEvents = 2
INVARIANT
  StoredChainVerifies

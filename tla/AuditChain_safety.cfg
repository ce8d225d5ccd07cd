SPECIFICATION Spec
CONSTANTS
  w1 = w1
  w2 = w2
  Writers = {w1, w2}
  Pruners = {r1}
  Precision = 1
  MaxTime = 4
  MaxEvents = 5
SYMMETRY WriterSymmetry
INVARIANT
  ChainIsValid
PROPERTY
  AppendOnly
  PruneKeepsNewer

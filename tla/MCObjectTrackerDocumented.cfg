SPECIFICATION Spec
CONSTANTS
  a = a
  b = b
  k1 = k1
  w1 = w1
  w2 = w2
  Object = {a, b}
  Kind = {k1}
  KindOf <- MCKindOf
  Listings <- MCListings
  Worker = {w1, w2}
  Durations = {0, 2}
  MaxDuration = 2
  MaxChanges = 2
  MaxEvents = 2
  Faults = {"mapping", "start"}
PROPERTY RemovedAsDocumented
SYMMETRY MCSymmetry

SPECIFICATION Spec
CONSTANTS
  g = g
  k1 = k1
  k2 = k2
  w1 = w1
  w2 = w2
  Nobody = Nobody
  Group = {g}
  Kind = {k1, k2}
  Version = {1, 2}
  Worker = {w1, w2}
  MaxChanges = 2
  Faults = {"discovery"}
SYMMETRY Symmetry
INVARIANTS TypeOK AnswerIsCached AbsentIsNotCached PreferredFirst
PROPERTY CacheIsForever

SPECIFICATION Spec
CONSTANTS
  i1 = i1
  i2 = i2
  n1 = n1
  n2 = n2
  c1 = c1
  c2 = c2
  w1 = w1
  w2 = w2
  AllNs = AllNs
  Nobody = Nobody
  Id = {i1, i2}
  Ns = {n1, n2}
  NsOf <- MCNsOf
  Client = {c1, c2}
  Watcher = {w1, w2}
  Opt <- MCOpt
  Value = {1, 2}
  Kinds = {"Deployment", "ConfigMap"}
  MaxRV = 2
  Faults = {"hangup"}
SYMMETRY Symmetry
INVARIANTS TypeOK WatchIsComplete SeenIsReady
PROPERTY NeverBack
CHECK_DEADLOCK FALSE

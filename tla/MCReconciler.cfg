SPECIFICATION FairSpec
CONSTANTS
  d = d
  s = s
  Object = {d, s}
  MaxGen = 3
  ManifestOf <- MCManifestOf
  TooNew = {3}
  TypeOf <- MCTypeOf
  Faults = {"get", "preflight", "build", "retry", "hook", "map", "apply", "read", "write", "annotate", "drift", "restart"}
  MaxMishaps = 1
INVARIANTS TypeOK RestingStatusIsTrue
PROPERTIES ObservedIsMonotone NeverTooNew Settles
CHECK_DEADLOCK FALSE

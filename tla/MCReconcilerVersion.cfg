SPECIFICATION Spec
CONSTANTS
  d = d
  s = s
  Object = {d, s}
  MaxGen = 3
  ManifestOf <- MCManifestOf
  TooNew = {3}
  TypeOf <- MCTypeOf
  Faults = {}
  MaxMishaps = 0
INVARIANT VersionCheckReported
CHECK_DEADLOCK FALSE

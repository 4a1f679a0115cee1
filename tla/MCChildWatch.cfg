SPECIFICATION Spec
CONSTANTS
  s1 = s1
  s2 = s2
  c1 = c1
  c2 = c2
  d = d
  ns1 = ns1
  ns2 = ns2
  SameName = FALSE
  NoNs = NoNs
  NoWorker = NoWorker
  NoSubject = NoSubject
  Subject = {s1, s2}
  Child = {c1, d}
  Worker = {1, 2}
  OwnerOf <- MCOwnerOf
  KindOf <- MCKindOf
  NsOf <- MCNsOf
  SelectorOf <- MCSelectorOf
  ScopeToNamespace = FALSE
  Faults = {"close", "quiet", "refuse", "hang", "mapping", "apply", "delete"}
  MaxMishaps = 2
INVARIANTS TypeOK NoLostWakeup
CHECK_DEADLOCK FALSE

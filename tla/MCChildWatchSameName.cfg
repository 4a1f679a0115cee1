SPECIFICATION FairSpec
CONSTANTS
  s1 = s1
  s2 = s2
  c1 = c1
  c2 = c2
  d = d
  ns1 = ns1
  ns2 = ns2
  SameName = TRUE
  NoNs = NoNs
  NoWorker = NoWorker
  NoSubject = NoSubject
  Subject = {s1, s2}
  Child = {c1, d}
  Worker = {1, 2}
  OwnerOf <- MCOwnerOf
  KindOf <- MCKindOf
  NsOf <- MCNsOf
  SelectorOf <- MCSelectorOf
  ScopeToNamespace = FALSE
  Faults = {}
  MaxMishaps = 1
PROPERTY Repairs

SPECIFICATION CalmSpec
CONSTANTS
  a1 = a1
  a2 = a2
  b = b
  x = x
  ns1 = ns1
  ns2 = ns2
  A = A
  B = B
  NoNs = NoNs
  Object = {a1, a2, b}
  GroupKind = {A, B}
  Namespace = {ns1, ns2}
  NamespacedKind = {A}
  ParentNs = ns1
  KindOf <- MCKindOf
  NsOf <- MCNsOf
  Faults = {"update", "patch", "list", "mapping", "lost", "crash", "touch"}
INVARIANTS TypeOK NoLeak SuccessIsPruned SuccessIsApplied ParentIsLabelled
PROPERTIES PruneSafe KeepsPromise Converges

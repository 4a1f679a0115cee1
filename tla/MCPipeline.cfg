SPECIFICATION Spec
CONSTANTS
  None = None
  w1 = w1
  w2 = w2
  def = def
  nsp = nsp
  dep = dep
  app = app
  svc = svc
  app2 = app2
  f1 = f1
  f2 = f2
  Worker = {w1, w2}
  Object = {def, nsp, dep, app, svc, app2}
  File = {f1, f2}
  Version = {1, 2, 3}
  ManifestYaml = f1
  Doc <- MCDoc
  Package <- MCPackage
  Semver <- MCSemver
  KindRank <- MCKindRank
  Scoped = {"Deployment", "Application", "Service"}
  Registry = "registry"
  Patched = {dep}
  Healthy = {w2}
  SubjectNs <- MCSubjectNs
  Spare = FALSE
  MaxEntries = 2
  Faults = {"channel", "manifest", "parse", "patch", "mapping"}
INVARIANTS TypeOK BuiltOnce SameOrder SafeOrder OwnedWhereAllowed ResolvedIsLatest ApplicationMatches

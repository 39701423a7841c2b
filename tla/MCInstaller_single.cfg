SPECIFICATION Spec
CONSTANTS
  None = None
  e1 = e1
  e2 = e2
  v1 = v1
  v2 = v2
  k1 = k1
  k2 = k2
  s1 = s1
  s2 = s2
  p1 = p1
  p2 = p2
  Enrollment = {e1, e2}
  Key = {k1, k2}
  Size = {s1}
  Stage = {"packages", "docker", "postgresql", "traefik"}
  Proc = {p1}
  Version = {v1, v2}
  Release <- ReleaseTwo
  Updates = {v2}
  MayUninstall = TRUE
  MaxLate = 1
INVARIANTS
  CompletedNodeProvisioned
  ProgressTruthful
  ReportReplayable
  ReportMatchesHost
  FirstEnrollmentServed
PROPERTIES
  TokenSpentBeforeDelete
  LifecycleSpec
  LedgerSpec
  RefusedOnlyWhenExpired

SPECIFICATION LiveSpec
CONSTANTS
  None = None
  e1 = e1
  v1 = v1
  k1 = k1
  s1 = s1
  p1 = p1
  Enrollment = {e1}
  Key = {k1}
  Size = {s1}
  Stage = {"packages", "docker", "postgresql", "traefik"}
  Proc = {p1}
  Version = {v1}
  Release <- ReleaseOne
  Updates = {v1}
  MayUninstall = TRUE
  MaxLate = 1
PROPERTIES
  RepairEventuallyCompletes

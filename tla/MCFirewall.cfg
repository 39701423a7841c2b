SPECIFICATION Spec
CONSTANTS
  c1 = c1
  c2 = c2
  None = None
  CIDR = {c1, c2}
  AdminRules <- FreshOrSSH
INVARIANTS
  TypeOK
  SSHKept
  PortsStayClosed
  SuccessSurvivesReboot

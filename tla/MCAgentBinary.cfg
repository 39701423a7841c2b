SPECIFICATION Spec
CONSTANTS
  v1 = v1
  v2 = v2
  v3 = v3
  None = None
  Corrupt = Corrupt
  Version = {v1, v2, v3}
  Installer <- Installers
  Minimum <- Minima
INVARIANTS
  TypeOK
  OnlyCommitReplaces
  PreviousRetained
PROPERTIES
  SlotSpec

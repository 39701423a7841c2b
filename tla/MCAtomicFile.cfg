SPECIFICATION Spec
CONSTANTS
  w1 = w1
  w2 = w2
  v1 = v1
  v2 = v2
  v3 = v3
  None = None
  Torn = Torn
  Writer = {w1, w2}
  Value = {v1, v2, v3}
INVARIANTS
  LoadNeverFails
PROPERTIES
  CellSpec

SPECIFICATION Spec
CONSTANTS
  None = None
  q1 = q1
  q2 = q2
  Password = {q1, q2}
  MaxStops = 2
INVARIANTS
  RotationInForce

SPECIFICATION FairSpec
CONSTANTS
  None = None
  q1 = q1
  q2 = q2
  Password = {q1, q2}
  MaxStops = 3
INVARIANTS
  TypeOK
  RecordedStagesInForce
  ProbesRemoved
  OneStopKeepsRules
  UninterruptedRotation
PROPERTIES
  ContainerNeverReplaced
  OnlyNamedRefusals
  LedgerSpec
  StagesComplete

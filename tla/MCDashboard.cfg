SPECIFICATION Spec
CONSTANTS
  Clients = {c1, c2}
  None = None
  c1 = c1
  c2 = c2
  Scenarios <- MCScenarios
INVARIANTS
  TypeOK
  NothingLeaks
  StreamWhole
  IdleHonest
  RerunKept
PROPERTIES
  AcknowledgedRerun
  StopEnds
  EveryClientServed
CHECK_DEADLOCK FALSE

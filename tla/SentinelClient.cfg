SPECIFICATION Spec
CONSTANTS
  Requests = {"r1", "r2", "r3"}
  MaxSockets = 2
CHECK_DEADLOCK FALSE
INVARIANTS
  TypeOK
  OwnAnswer
  OneMissedPerCut
PROPERTY
  EventuallySettled

SPECIFICATION Spec
CONSTANTS
  Publications = {p1, p2, p3, p4}
  MaxAttempts = 3
  FailMax = 3
  ResetTimeout = 2
INVARIANTS
  TypeOK
  BusIsSpared
  LostInTroubleOnly
PROPERTY
  EveryPublicationEnds
CHECK_DEADLOCK FALSE

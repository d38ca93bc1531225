SPECIFICATION Spec
CONSTANTS
  Day = 48
  ValidActions = {"recording", "streaming"}
  Unknown = Unknown
INVARIANT
  AcceptedStopsAfterStart
CHECK_DEADLOCK FALSE

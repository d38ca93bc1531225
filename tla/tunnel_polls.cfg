SPECIFICATION Spec
CONSTANTS
  MaxRetries = 3
  MaxChecks = 2
  Faults = {}
INVARIANT
  PollsReachObs
CHECK_DEADLOCK FALSE

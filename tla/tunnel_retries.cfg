SPECIFICATION Spec
CONSTANTS
  MaxRetries = 3
  MaxChecks = 2
  Faults = {}
INVARIANT
  RetriesReachObs
CHECK_DEADLOCK FALSE

SPECIFICATION Spec
CONSTANTS
  Tests = {"win-server-1", "mac-server-1"}
  Command <- StartAll
  MaxDelivery = 3
  MaxPolls = 2
  ApiFails = FALSE
INVARIANT
  PassMeansConsumed
CHECK_DEADLOCK FALSE

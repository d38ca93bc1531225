SPECIFICATION Spec
CONSTANTS
  Tests = {"win-server-1", "mac-server-1"}
  Command <- StartAndStop
  MaxDelivery = 2
  MaxPolls = 2
  ApiFails = TRUE
INVARIANTS
  TypeOK
  ExitTells
  ReleasesTheRecording
  SmokeInv
PROPERTY
  EveryTestEnds
CHECK_DEADLOCK FALSE

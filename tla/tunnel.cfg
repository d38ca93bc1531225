SPECIFICATION FairSpec
CONSTANTS
  MaxRetries = 2
  MaxChecks = 2
  Faults = {"transport", "drop", "dies", "slow"}
INVARIANTS
  TypeOK
  NothingIsOrphaned
  VerifiedWasActive
  TunnelInv
PROPERTY
  TunnelEnds
CHECK_DEADLOCK FALSE

SPECIFICATION FairSpec
CONSTANTS
  start1 = start1
  stop1 = stop1
  start2 = start2
  stop2 = stop2
  s1 = s1
  None = None
  i1 = i1
  i2 = i2
  Jobs = {start1, stop1}
  Body <- OneStream
  Servers = {s1}
  Platform <- Windows
  Scene <- NoScene
  Invocations = {i1, i2}
  MaxDelivery = 2
  Faults = {"config", "unknown", "silent", "crash", "lock_loss"}
  Prompt = FALSE
  Horizon = 1
  MaxObsCrashes = 1
INVARIANTS
  TypeOK
  AlertOnlyWhenLost
  RemoteDeadLetterAlerts
  AnnouncedOnce
  IInv
PROPERTIES
  ImplementsDelivery
  EveryJobSettles
CHECK_DEADLOCK FALSE

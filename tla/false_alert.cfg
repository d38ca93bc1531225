SPECIFICATION Spec
CONSTANTS
  start1 = start1
  stop1 = stop1
  start2 = start2
  stop2 = stop2
  s1 = s1
  None = None
  i1 = i1
  i2 = i2
  Jobs = {start1, stop1}
  Body <- OneStream
  Servers = {s1}
  Platform <- Windows
  Scene <- NoScene
  Invocations = {i1, i2}
  MaxDelivery = 3
  Faults = {}
  Prompt = TRUE
  Horizon = 1
  MaxObsCrashes = 0
PROPERTY
  NoAlertOnAir
CHECK_DEADLOCK FALSE

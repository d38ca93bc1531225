SPECIFICATION BoundedSpec
CONSTANTS
  morning = morning
  evening = evening
  BadRow = BadRow
  None = None
  r1 = r1
  r2 = r2
  Sessions = {morning, evening}
  StartAt <- StartHours
  StopAt <- StopHours
  Schedules <- Versions
  Runs = {r1, r2}
  MaxRuns = 3
  Batch = 3
  Faults = {"fetch", "bus", "crash"}
  Horizon = 2
  Day = 24
  ValidActions = {"streaming"}
  Unknown = Unknown
INVARIANTS
  TypeOK
  QueueMatchesSchedule
  NoDuplicatesInTurn
  SessionsComeInPairs
  ValidatorIsSound
  ValidatorInv
  CalmInv
  FollowsSchedule
  MachineInv
SYMMETRY Symmetry
CHECK_DEADLOCK FALSE

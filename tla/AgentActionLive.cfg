SPECIFICATION FairSpec
CONSTANTS
  StepCount = 2
  External = {}
  WorkerIds = {w1, w2}
  Processes = {w1}
  Serialized = TRUE
  None = None
  LeaseTicks = 2
  ApprovalTicks = 3
PROPERTIES
  EveryRunStops
  CancelTakesEffect
CHECK_DEADLOCK FALSE

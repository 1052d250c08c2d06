SPECIFICATION Spec
CONSTANTS
  StepCount = 2
  External = {}
  WorkerIds = {w1}
  Processes = {w1}
  Serialized = TRUE
  None = None
  LeaseTicks = 2
  ApprovalTicks = 3
INVARIANT CancelledMeansStopped
CHECK_DEADLOCK FALSE

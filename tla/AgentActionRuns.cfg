SPECIFICATION Spec
CONSTANTS
  StepCount = 3
  External = {2}
  WorkerIds = {w1, w2, w3}
  Processes = {w1, w2}
  Serialized = FALSE
  None = None
  LeaseTicks = 1
  ApprovalTicks = 2
INVARIANTS
  RunTypeOK
  LogAgreesWithSteps
  OneStepOut
PROPERTIES
  TerminalIsFinal
  KeepsPlanPromise
CHECK_DEADLOCK FALSE

SPECIFICATION FairSpec
CONSTANTS
  Calls = {r1, j1, p1, p2}
  Signalled = {r1}
  Jobs = {j1}
  Passes = {p1, p2}
  MaxQueued = 2
INVARIANTS
  RuntimeTypeOK
  OneAtATime
  LaneTellsTheTruth
  QueueIsBounded
  DrainedBeforeClose
PROPERTIES
  KeepsLanePromise
  WaitersAreServed
  WakesAreServed
  ShutdownCompletes
CHECK_DEADLOCK FALSE

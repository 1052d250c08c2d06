SPECIFICATION FairDispatchSpec
CONSTANTS
  d1 = d1
  d2 = d2
  p1 = p1
  k1 = k1
  Deliveries = {d1}
  Workers = {p1, k1}
  Passes = {p1}
  Callers = {k1}
  Place <- InOrder
  Poisoned = {}
  DeliberateRetries = TRUE
  ClaimIds = {c1, c2, c3, c4}
  None = None
  NativeKey = FALSE
  LeaseTicks = 2
  BudgetTicks = 1
  MaxAttempts = 2
  MaxCorrections = 1
  MaxCrashes = 0
PROPERTY EveryDeliveryResolves
CHECK_DEADLOCK FALSE

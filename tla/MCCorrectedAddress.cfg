SPECIFICATION Spec
CONSTANTS
  Deliveries = {d1}
  Workers = {w1, w2}
  ClaimIds = {c1, c2, c3}
  None = None
  NativeKey = FALSE
  LeaseTicks = 2
  BudgetTicks = 1
  MaxAttempts = 4
  MaxCorrections = 1
  MaxCrashes = 1
SYMMETRY Symmetry
PROPERTY CorrectionReachesCorrectedAddress
CHECK_DEADLOCK FALSE

SPECIFICATION Spec
CONSTANTS
  Deliveries = {d1}
  Workers = {w1, w2}
  ClaimIds = {c1, c2, c3}
  None = None
  NativeKey = FALSE
  LeaseTicks = 2
  BudgetTicks = 1
  MaxAttempts = 3
  MaxCorrections = 2
  MaxCrashes = 1
SYMMETRY Symmetry
INVARIANTS
  TypeOK
  NoUnmarkedDuplicate
  CopiesAreBounded
  AmbiguityMarksLaterAttempts
  LedgerIsConsistent
  AmbiguityIsCounted
  OnlyCorrectionsAreRefused
  OrdinarySendKeepsLease
  NoConcurrentSubmission
  EvidenceAgreesWithAttempts
PROPERTIES
  AnswersAreKept
  SettledStaysSettled
  KeepsPromise
CHECK_DEADLOCK FALSE

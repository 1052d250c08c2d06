SPECIFICATION FairSpec
CONSTANTS
  a = a
  b = b
  m = m
  g = g
  k1 = k1
  k2 = k2
  c1 = c1
  c2 = c2
  None = None
  People = {a, b, m, g}
  Founders = {a, b}
  Granted = {m}
  Keys = {k1, k2}
  ActorOf <- MCActorOf
  Intents <- MCIntents
  Calls = {c1, c2}
  SignIns = {s1}
  PersonOf <- MCPersonOf
  MaxAttempts = 2
  MaxRenewals = 1
  Roaming = {a}
INVARIANTS
  TypeOK
  AnOwnerRemains
  ReceiptsMatchVersions
  AnswersAreTrue
  ConflictsSettle
PROPERTIES
  KeepsTeamPromise
  EverybodyIsAnswered
CHECK_DEADLOCK FALSE

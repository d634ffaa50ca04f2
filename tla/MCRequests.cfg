SPECIFICATION Spec
CONSTANTS
  r1 = r1
  r2 = r2
  k1 = k1
  k2 = k2
  Requests = {r1, r2}
  Keys = {k1, k2}
  Key <- Asked
  Permits = 1
  QueueSize = 1
  MaxWrites = 1
  MaxPushes = 1
  MaxLives = 2
INVARIANTS TypeOK EntriesOwned NobodyForgotten
PROPERTIES OwnLifeAnswers Resolves
CHECK_DEADLOCK FALSE

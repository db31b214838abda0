SPECIFICATION ProcessesSpec
CONSTANTS
  n1 = n1
  n2 = n2
  g1 = g1
  g2 = g2
  g3 = g3
  w1 = w1
  NoEntry = NoEntry
  NoGet = NoGet
  Nodes = {n1, n2}
  Gets = {g1, g2, g3}
  Puts = {w1}
  GetNode <- GetsSpread
  PutNode <- PutsOnOne
  TTL = 2
  MaxTime = 3
  UseRedis = TRUE
  KeyMatches = TRUE
  Faults = TRUE
  Tasks = {t1, t2}
  Assigned = {t2}
  Edited = {t2}
  Jobs = {j1, j2}
  Never = Never
  Batch = 1
  MaxDay = 1
  MaxFaults = 1
CHECK_DEADLOCK FALSE
INVARIANTS
  NoticesExact
  NoOrphanWaiter
PROPERTIES
  AnswersWithinTTL

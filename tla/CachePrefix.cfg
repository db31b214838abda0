SPECIFICATION CacheSpec
CONSTANTS
  n1 = n1
  n2 = n2
  g1 = g1
  g2 = g2
  g3 = g3
  w1 = w1
  NoEntry = NoEntry
  NoGet = NoGet
  Nodes = {n1}
  Gets = {g1, g2}
  Puts = {w1}
  GetNode <- AllOnOne
  PutNode <- PutsOnOne
  TTL = 1
  MaxTime = 0
  UseRedis = FALSE
  KeyMatches = FALSE
  Faults = FALSE
CHECK_DEADLOCK FALSE
INVARIANTS
  ClearedAfterMutation

SPECIFICATION OfficeSpec
CONSTANTS
  n1 = n1
  n2 = n2
  g1 = g1
  g2 = g2
  g3 = g3
  w1 = w1
  NoEntry = NoEntry
  NoGet = NoGet
  Nodes = {n1}
  Gets = {g1, g2, g3}
  Puts = {w1}
  GetNode <- AllOnOne
  PutNode <- PutsOnOne
  TTL = 1
  MaxTime = 0
  UseRedis = FALSE
  KeyMatches = TRUE
  Faults = TRUE
  Tasks = {t1, t2}
  Assigned = {t2}
  Edited = {t1}
  Jobs = {j1}
  Never = Never
  Batch = 1
  MaxDay = 1
  MaxFaults = 1
  Products = {b1, b2}
  Names = {n1, n2, n3}
  Skus = {s1, s2, s3}
  Documents = {d1}
  Edits = {e1, e2}
  NoLine = NoLine
  NoTarget = NoTarget
  Scale = 4
  Updates = {u1, u2}
  MaxQty = 2
  MaxAge = 2
  PreviewCap = 2
  ListCap = 2
  BigDue = 3
  Urgent = 2
  NoDate = NoDate
  NoKey = NoKey
  Missing = Missing
  ReportLimit = 2
CHECK_DEADLOCK FALSE
INVARIANTS
  ClearedAfterMutation
  CoalescingSound
  DeadlineTypeOK
  OrderlyLines
  DurationClock
  AlertsExact
  SeriesExact
  ReportsAgree
PROPERTIES
  EveryGetAnswered
  EveryOverdueHandled

SPECIFICATION FairSpec
CONSTANTS
  c1 = c1
  c2 = c2
  u1 = u1
  k1 = k1
  k2 = k2
  sales = sales
  stock = stock
  Users = {u1}
  Chats = {c1, c2}
  UserOf <- MCUserOf
  Limit = 1
  WindowMs = 2
  MaxTime = 2
  ToolNames = {sales, stock}
  MaxToolKeys = 1
  Keys = {k1, k2}
  ToolOf <- MCToolOf
  Verdict <- MCVerdict
  MaxToolRounds = 2
  MaxCalls = 2
  AiEnabled = TRUE
CHECK_DEADLOCK FALSE
INVARIANTS
  TypeOK
  WindowRespected
  ConversationAnswered
  CostBounded
  MetricsAgree
PROPERTIES
  RefusedOnlyWhenFull
  EveryChatEnds

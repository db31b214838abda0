SPECIFICATION PathSpec
CONSTANTS
  p1 = p1
  p2 = p2
  a1 = a1
  a2 = a2
  Accounts = {a1, a2}
  Processes = {p1, p2}
  Calls = {c1, c2}
  NoUser = NoUser
  UserTTL = 1
  MaxQuery = 1
  MaxClock = 2
  Routed <- RoutedCalls
  Undefined = Undefined
  Keys = {k1, k2}
  Readers = {r1, r2}
  Loads = {l1, l2}
  NoLoad = NoLoad
  NoRows = NoRows
  SnapshotTTL = 2
  MaxLoad = 1
  MaxWrites = 2
  MaxInstant = 3
  NoSku = NoSku
  Requests = {q1, q2, q3}
  Imported = {}
  Typed = {1, 2, 6}
  IntLimit = 5
SYMMETRY CallSymmetry
CHECK_DEADLOCK FALSE
INVARIANTS
  TypeOK
  RightsTakeHold
  AdministratorRemains
  GatesHold
  SnapshotsFresh
  LoadsShared
PROPERTIES
  ReservedIsFree
  HandsOutRisingNumbers

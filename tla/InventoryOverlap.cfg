SPECIFICATION Spec
CONSTANTS
  p = p
  f = f
  m = m
  A = A
  B = B
  r1 = r1
  r2 = r2
  r3 = r3
  r4 = r4
  r5 = r5
  r6 = r6
  r7 = r7
  r8 = r8
  r9 = r9
  NoWarehouse = NoWarehouse
  Items = {p, f, m}
  Warehouses = {A, B}
  Kind <- MCKind
  Reserved <- MCReserved
  InitStock <- MCInitStock
  Rec <- MCRec
  Records = {r3, r5, r6, r9}
  Requests = {q1, q2, q3}
  EditTo = {"Cancelled"}
  MaxCrashes = 1
  Exclusive = FALSE
SYMMETRY RequestSymmetry
CHECK_DEADLOCK FALSE
INVARIANTS
  TypeOK
  StockIsSum
  DoneImpliesApplied
PROPERTIES
  RelocationKeepsQuantity

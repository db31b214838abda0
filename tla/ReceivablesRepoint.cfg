SPECIFICATION Spec
CONSTANTS
  p1 = p1
  p2 = p2
  i1 = i1
  i2 = i2
  c1 = c1
  id1 = id1
  legacy1 = legacy1
  NoInvoice = NoInvoice
  Payments = {p1, p2}
  Invoices = {i1, i2}
  Customers = {c1}
  PayAmount <- MCPayAmount
  Sent <- MCSent
  Refs = {id1, legacy1}
  Refers <- MCRefers
  Owner <- MCOwner
  Requests = {q1}
  MaxFaults = 0
  Repoint = TRUE
SYMMETRY Symmetry
CHECK_DEADLOCK FALSE
INVARIANTS
  LedgerConsistent

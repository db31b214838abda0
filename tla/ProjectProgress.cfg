SPECIFICATION Spec
CONSTANTS
  Projects = {p1, p2}
  Tasks = {t1, t2}
  NoProject = NoProject
  Requests = {q1, q2}
  Sent <- MCSent
  MaxFaults = 1
SYMMETRY ProjectSymmetry
CHECK_DEADLOCK FALSE
INVARIANTS
  TypeOK
  OrderlyProgress
PROPERTIES
  AloneRepairs

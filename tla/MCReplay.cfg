SPECIFICATION Spec
CONSTANTS
  Requests = {q1, q2, q3}
  Pool = {p1, p2}
  Bindings <- TaskPages
  Rows = {1, 2}
  LeaseLimit = 1
  LeaseTTL = 1
  MaxTime = 1
  MaxQueries = 4
  MaxChanges = 1
  MaxFaults = 0
  None = None
SYMMETRY LeaseSymmetry
INVARIANTS
  PageFromSnapshot
CHECK_DEADLOCK FALSE

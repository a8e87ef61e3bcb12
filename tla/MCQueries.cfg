SPECIFICATION FairSpec
CONSTANTS
  Requests = {q1, q2}
  Pool = {p1, p2}
  Bindings <- MixedPages
  Rows = {1, 2}
  LeaseLimit = 1
  LeaseTTL = 1
  MaxTime = 1
  MaxQueries = 3
  MaxChanges = 0
  MaxFaults = 1
  None = None
INVARIANTS
  LeaseInductive
  ConnectionsAccounted
  LeasesBounded
PROPERTIES
  QueriesAnswered
CHECK_DEADLOCK FALSE

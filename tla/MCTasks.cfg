SPECIFICATION Spec
CONSTANTS
  Records <- TaskRecords
  Conns = {c1, c2}
  Workers = {w1}
  RawTTL = 1
  DeliveryTTL = 0
  NeverDelete = FALSE
  BatchSize = 2
  Oversized = {}
  MaxTime = 0
  MaxSends = 4
  MaxFaults = 1
SYMMETRY ConnSymmetry
INVARIANTS
  
  NothingLingers
PROPERTIES
  DeletesOnlyThatDelivery

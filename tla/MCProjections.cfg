SPECIFICATION Spec
CONSTANTS
  Records <- ProjectionRecords
  Conns = {c1, c2}
  Workers = {w1}
  RawTTL = 1
  DeliveryTTL = 1
  NeverDelete = TRUE
  BatchSize = 1
  Oversized = {}
  MaxTime = 0
  MaxSends = 3
  MaxFaults = 0
SYMMETRY ConnSymmetry
INVARIANTS
  ProjectionComplete
  NoWaitCycle
PROPERTIES
  FirstWriteWins

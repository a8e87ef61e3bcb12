SPECIFICATION Spec
CONSTANTS
  Records <- IdentityRecords
  Conns = {c1, c2}
  Workers = {w1}
  RawTTL = 0
  DeliveryTTL = 1
  NeverDelete = FALSE
  BatchSize = 1
  Oversized = {}
  MaxTime = 1
  MaxSends = 3
  MaxFaults = 0
SYMMETRY ConnSymmetry
INVARIANTS
  AnchorIsSummary
  ScrubMarked
  AckDurable

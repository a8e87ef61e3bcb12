SPECIFICATION Spec
CONSTANTS
  Records <- TaskRecords
  Conns = {c1}
  Workers = {w1, w2}
  RawTTL = 1
  DeliveryTTL = 0
  NeverDelete = FALSE
  BatchSize = 2
  Oversized = {}
  MaxTime = 0
  MaxSends = 4
  MaxFaults = 1
SYMMETRY WorkerSymmetry
INVARIANTS
  TypeOK
  FenceClosed
  SourcesAccepted
  Inductive
  RowsInductive
  NothingRefused
  PlannedStillDue
PROPERTIES
  LedgerImplemented

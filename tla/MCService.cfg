SPECIFICATION Spec
CONSTANTS
  BindingId <- StableEventId
  Workloads <- ServiceWorkloads
  Exporters = {e1, e2}
  MaxRecords = 3
  MaxValues = 2
  TraceTTL = 1
  FactTTL = 1
  DeliveryTTL = 1
  ExpiryLimit = 2
  MaxTime = 1
  MaxFaults = 1
SYMMETRY ExporterSymmetry
INVARIANTS
  ServiceInductive
  FailsOnlyOnFault
  AnswerTruthful
  FactsServable
  ProjectionKept
  TombstonesMatch
  ExpiredWhenDue
  FieldsFaithful
  CompatibilityKept
  RelationshipsResolve
  TraceStateTruthful
  ManifestsIntact
PROPERTIES
  FiltersStable
CHECK_DEADLOCK FALSE

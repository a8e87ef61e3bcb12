SPECIFICATION FairSpec
CONSTANTS
  Records <- TaskRecords
  Conns = {c1}
  Workers = {w1}
  RawTTL = 0
  DeliveryTTL = 0
  NeverDelete = FALSE
  BatchSize = 2
  Oversized = {}
  MaxTime = 0
  MaxSends = 4
  MaxFaults = 0
PROPERTIES
  AgedRetired
  RawScrubbed
  RequestsAnswered

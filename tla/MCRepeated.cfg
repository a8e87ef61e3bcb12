SPECIFICATION FairSpec
CONSTANTS
  Records <- RepeatedRecords
  Conns = {c1}
  Workers = {w1}
  RawTTL = 1
  DeliveryTTL = 2
  NeverDelete = FALSE
  BatchSize = 1
  Oversized = {}
  MaxTime = 1
  MaxSends = 2
  MaxFaults = 0
PROPERTIES
  RawScrubbed

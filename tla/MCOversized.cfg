SPECIFICATION FairSpec
CONSTANTS
  Records <- AgingRecords
  Conns = {c1}
  Workers = {w1}
  RawTTL = 1
  DeliveryTTL = 2
  NeverDelete = FALSE
  BatchSize = 1
  Oversized = {31}
  MaxTime = 2
  MaxSends = 2
  MaxFaults = 1
PROPERTIES
  AgedRetired

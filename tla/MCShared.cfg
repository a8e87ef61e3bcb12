SPECIFICATION Spec
CONSTANTS
  Records <- SharedRecords
  Conns = {c1}
  Workers = {w1}
  RawTTL = 1
  DeliveryTTL = 0
  NeverDelete = FALSE
  BatchSize = 1
  Oversized = {}
  MaxTime = 0
  MaxSends = 3
  MaxFaults = 0
PROPERTIES
  DeletesOnlyThatDelivery

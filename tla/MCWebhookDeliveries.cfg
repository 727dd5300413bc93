SPECIFICATION MCSpec
CONSTANTS
  Subs = {"s1", "s2"}
  Emissions = {1, 2}
  ListensTo <- MCListensTo
  MaxAttempts = 2
  BatchSize = 2
  Concurrency = 2
  MaxFaults = 1
  MaxCrashes = 1
  MaxDeletes = 1
INVARIANTS
  AcknowledgedOnce
CHECK_DEADLOCK FALSE
PROPERTY
  DeliveriesSettle

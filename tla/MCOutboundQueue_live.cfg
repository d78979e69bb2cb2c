SPECIFICATION FairSpec
CONSTANTS
  Keys = {k1, k2}
  Workers = {w1}
  MaxAttempts = 2
  BackoffUnit = 1
  BackoffCap = 2
  StaleAfter = 2
  MaxDuration = 1
  FlushGap = 3
  Limit = 1
  MaxFlushes = 1
  MaxCrashes = 2
PROPERTIES
  ImplementsDelivery

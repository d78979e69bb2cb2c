SPECIFICATION Spec
CONSTANTS
  Keys = {k1, k2}
  Workers = {w1, w2}
  MaxAttempts = 2
  BackoffUnit = 1
  BackoffCap = 2
  StaleAfter = 2
  MaxDuration = 1
  FlushGap = 3
  Limit = 2
  MaxFlushes = 2
  MaxCrashes = 1
SYMMETRY Symmetry
INVARIANTS
  TypeOK
  OneSender
  RepeatsExplained
  AttemptsPaidFor
PROPERTIES
  SettledIsFinal

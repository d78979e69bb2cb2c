SPECIFICATION Spec
\* The clock stops at MaxTime.
CHECK_DEADLOCK FALSE
CONSTANTS
  Invocations = {i1, i2}
  RateWindow = 2
  RateLimit = 1
  SigningSecret = TRUE
  Keep = 3
  MaxDuration = 1
  MaxTime = 4
  MaxRequests = 3
SYMMETRY Symmetry
INVARIANTS
  AdmittedPerWindow
  LimitedOnlyWhenSpent
  AcknowledgedMeansHandled

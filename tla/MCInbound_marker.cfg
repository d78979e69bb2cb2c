SPECIFICATION Spec
\* The clock stops at MaxTime.
CHECK_DEADLOCK FALSE
CONSTANTS
  Messages = {m1, m2}
  WithHandle = {m1}
  YesMessages = {}
  NoMessages = {}
  Plans = {"log"}
  Risk <- MCRisk
  Handlers = {h1, h2, h3}
  ClaimTtl = 1
  MaxDuration = 2
  ConfirmTtl = 1
  StaleClaimed = 3
  KeepCompleted = 3
  MaxTime = 5
  MaxDeliveries = 4
SYMMETRY Symmetry
INVARIANTS
  CommitsApart
  TakeoverOnlyWhenStale

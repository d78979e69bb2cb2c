SPECIFICATION Spec
\* The clock stops at MaxTime.
CHECK_DEADLOCK FALSE
CONSTANTS
  Messages = {m1, y1, n1}
  WithHandle = {m1, n1}
  YesMessages = {y1}
  NoMessages = {n1}
  Plans = {"delete", "log"}
  Risk <- MCRisk
  Handlers = {h1, h2}
  ClaimTtl = 1
  MaxDuration = 1
  ConfirmTtl = 1
  StaleClaimed = 2
  KeepCompleted = 2
  MaxTime = 2
  MaxDeliveries = 4
SYMMETRY Symmetry
INVARIANTS
  ConfirmationAppliedOnce
  CancelSticks
  AppliedInTime
  TypeOK
  RiskyNeedsYes
PROPERTY
  ImplementsGate

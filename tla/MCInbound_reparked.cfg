SPECIFICATION Spec
\* The clock stops at MaxTime.
CHECK_DEADLOCK FALSE
CONSTANTS
  Messages = {m1, y1, y2}
  WithHandle = {m1, y1, y2}
  YesMessages = {y1, y2}
  NoMessages = {}
  Plans = {"delete"}
  Risk <- MCRisk
  Handlers = {h1}
  ClaimTtl = 1
  MaxDuration = 1
  ConfirmTtl = 3
  StaleClaimed = 2
  KeepCompleted = 4
  MaxTime = 2
  MaxDeliveries = 4
INVARIANT
  OneMessageLogsOnce

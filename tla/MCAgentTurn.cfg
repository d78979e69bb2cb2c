SPECIFICATION FairSpec
CONSTANTS
  Threshold = 3
  MaxWritesPerTurn = 2
  Amounts = {1, 2}
  Rounds = 2
  MaxAttempts = 2
  MaxCalls = 3
INVARIANTS TargetAgrees SafeIsSmall RejectExplained
PROPERTIES TurnEnds
CHECK_DEADLOCK FALSE

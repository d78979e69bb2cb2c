SPECIFICATION Spec
CONSTANTS
  t1 = t1
  t2 = t2
  Turns = {t1, t2}
  Amounts = {100, 400}
  Limits = {0, 400}
  SavingsGoals = TRUE
  Target = 1000
  Deadline <- MCDeadline
  Days <- MCDays
  Hours = {0, 8, 23}
  Batches <- MCBatches
  MaxRows = 3
  MaxChanges = 1
INVARIANTS CrossingAnnounced ProjectionSound GoalAdvice
PROPERTY AnnouncedOnce
SYMMETRY MCSymmetry
CHECK_DEADLOCK FALSE

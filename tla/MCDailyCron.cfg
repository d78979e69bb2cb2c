SPECIFICATION Spec
\* The last of Days has no successor.
CHECK_DEADLOCK FALSE
CONSTANTS
  Runs = {r1, r2}
  Categories = {c1}
  Goals = {}
  Items = {i1}
  Schedules <- MCSchedules
  KeepWeeks = 1
  KeepSummaries = 1
  Days <- MCDays
  MaxRuns = 2
  MaxEdits = 2
SYMMETRY Symmetry
INVARIANTS
  ToldOncePerWeek
  SilenceExplained
  RemindedOnce
  RemindersCaughtUp
  RecapDespiteErrors
  

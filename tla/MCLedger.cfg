SPECIFICATION Spec
CONSTANTS
  Flushes = {f1, f2}
  Goals = {g1}
  NoGoal = NoGoal
  Amounts = {1, 2}
  MaxTx = 2
  MaxFlushes = 4
  MaxIntents = 2
  MaxRepairs = 1
SYMMETRY Symmetry
INVARIANTS
  DriftExplained
  TrailExplained

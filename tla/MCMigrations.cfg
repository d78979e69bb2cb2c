SPECIFICATION MigrationsSpec
CONSTANTS
  d1 = d1
  d2 = d2
  d3 = d3
  p1 = p1
  Nobody = Nobody
  Deploys = {d1, d2, d3}
  Probes = {p1}
  Bundles = {16, 21}
  LegacyCount = 14
  MaxRuns = 3
INVARIANTS ExecutedOnceInOrder RecordedIsCreated ReadyHasSchema
SYMMETRY MCSymmetry
CHECK_DEADLOCK FALSE

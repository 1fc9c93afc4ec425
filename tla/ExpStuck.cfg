SPECIFICATION ExperimentSpec
CONSTANTS
  MaxRuns = 3
  MaxExps = 2
  Meddling = 1
INVARIANTS StatusAfterCascade
CHECK_DEADLOCK FALSE

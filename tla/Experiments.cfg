SPECIFICATION Spec
CONSTANTS
  MaxRuns = 3
  MaxExps = 2
  Meddling = 1
  MaxStudies = 2
  Trials = {"t1", "t2"}
  Families = {"f"}
  Drafts <- Ideas
  Measures = {1, 2}
  Bar = 1
  Reports = 2
  Edits = 1
INVARIANTS OneGridPerRun SettledIsStored ReadingsSound
CHECK_DEADLOCK FALSE

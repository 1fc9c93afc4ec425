SPECIFICATION Spec
CONSTANTS
  Parts = {"slurm", "webhooks", "graph", "locks", "controls"}
  Requests = {q1}
  MaxJobs = 2
  SlurmFaults = 2
  Deliveries = {d1, d2}
  Pollers = {p1, p2}
  OutboxMaxAttempts = 3
  HookFaults = 2
  DagSize = 3
  MaxNodes = 4
  Interventions = 2
  Dirs = {"d", "d/e"}
  Nested <- NestedDirs
  Prints = {"p"}
  MaxHolders = 3
  Disturbances = 2
  MaxCheckpoints = 1
  WithStop = TRUE
  MaxAttempts = 1
  LinkDrops = 1
  SlowCalls = 1
INVARIANTS DeliveryAccounted GraphSound LocksSound SavedOnceAndTrue
PROPERTIES CancelSparesWork NoPostAfterSuccess
CHECK_DEADLOCK FALSE

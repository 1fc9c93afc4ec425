SPECIFICATION FairSpec
CONSTANTS
  Parts = {"slurm", "webhooks", "graph", "controls"}
  Requests = {q1}
  MaxJobs = 1
  SlurmFaults = 1
  Deliveries = {d1}
  Pollers = {p1, p2}
  OutboxMaxAttempts = 3
  HookFaults = 1
  DagSize = 3
  MaxNodes = 4
  Interventions = 1
  Dirs = {"d", "d/e"}
  Nested <- NestedDirs
  Prints = {"p"}
  MaxHolders = 3
  Disturbances = 1
  MaxCheckpoints = 1
  WithStop = FALSE
  MaxAttempts = 2
  LinkDrops = 1
  SlowCalls = 1
PROPERTIES SeenJobsSettle OutboxDrains BlockedSettles RequestsComplete
CHECK_DEADLOCK FALSE

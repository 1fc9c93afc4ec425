SPECIFICATION Spec
CONSTANTS
  Parts = {"placement", "checkpoints", "walltime", "deployment", "tunnel", "registry", "submission", "storage", "one stub", "no slip", "requests", "shell", "policy"}
  Machines = {"m1", "m2"}
  InSlurm = {"m2"}
  GpuMemory <- Memory
  HostMemory <- Memory
  Leases <- LeaseOf
  Offers <- Everywhere
  Asks <- SomeAsks
  MaxPlaced = 3
  Upsets = 1
  Processes = {1, 2}
  TaskRun <- OneTask
  TotalSteps = 2
  EverySteps = 2
  Mishaps = 2
  JobTasks = {t1, t2}
  JobMinutes = 5
  DrainAt = 4
  RenewAt = 5
  IdleMinutes = 3
  Incidents = 1
  MaxOrders = 3
  MaxPids = 2
  SshFaults = 1
  Restarters = {r1, r2}
  MaxSpawns = 4
  RestartsOn = TRUE
  Daemons = {d1, d2}
  StubOf <- OneIdentity
  Allocated = {"s"}
  MaxSockets = 3
  Calls = {c1}
  MaxRetries = 1
  Turns = 2
  Authors = {"x"}
  GivenKeys = {"k"}
  Contents = {"a", "b", "malformed", "invalid"}
  Scripts = {"p"}
  MaxPosts = 2
  MaxTasks = 1
  Mischances = 2
  Held = {"t"}
  Hosts = {"h", "i"}
  KeepCount = 1
  MaxBackups = 2
  Slips = 1
  Execs = {"e"}
  Commands = {"c1", "c2"}
  Tabs = {"t1"}
  AskedBy <- Pages
  NoTab = "api"
  MaxSends = 2
  ExecAllowed = TRUE
  Faults = 1
  Wanted = {"w", "v"}
  Owned = {}
  Rounds = {p1, p2}
  MaxTotal = 1
  MaxPending = 2
  Cooldown = 1
  Horizon = 1
  PolicyCrashes = 1
INVARIANTS ReservationsFit CheckpointsSound CutTasksWarned LinksKnown RequestsKept StorageSound PolicyKept
PROPERTY LeftForAReason
CHECK_DEADLOCK FALSE

SPECIFICATION MCSpec
CONSTANTS
  s1 = s1
  s2 = s2
  Stories = {"reconnect", "move", "control", "dispatch"}
  Stubs <- TwoStubs
  MaxTasks = 4
  MaxConcurrent = 2
  MaxRetries = 1
  MaxUp = 3
  Outcomes <- AllOutcomes
  Budgets <- AllBudgets
INVARIANTS OneHome SlotBound CompletedGone SingleAttempt
PROPERTIES ImplementsLifecycle
SYMMETRY StubSymmetry
CHECK_DEADLOCK FALSE

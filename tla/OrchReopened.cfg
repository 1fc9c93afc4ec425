SPECIFICATION MCSpec
CONSTANTS
  s1 = s1
  s2 = s2
  Stories = {"reopen"}
  Stubs = {s1}
  MaxTasks = 4
  MaxConcurrent = 2
  MaxRetries = 1
  MaxUp = 2
  Outcomes <- AllOutcomes
  Budgets <- AllBudgets
PROPERTIES FailedIsFinal
CHECK_DEADLOCK FALSE

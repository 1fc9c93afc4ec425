SPECIFICATION MCFairSpec
CONSTANTS
  s1 = s1
  s2 = s2
  Stories = {"settle"}
  Stubs = {s1}
  MaxTasks = 2
  MaxConcurrent = 1
  MaxRetries = 1
  MaxUp = 2
  Outcomes <- AllOutcomes
  Budgets <- AllBudgets
PROPERTIES EverythingSettles
CHECK_DEADLOCK FALSE

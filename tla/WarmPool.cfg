SPECIFICATION Spec
CONSTANTS
    t1 = t1
    t2 = t2
    t3 = t3
    Task = {t1, t2, t3}
    Size = 2
    MaxPid = 3
    Kills = 1
    Crashes = 1
    FailedSpawns = 0
    Days = 0
    Budget <- MCBudget
INVARIANTS BusyHasJob AnswerKept PermitsAccounted
SYMMETRY Symmetry
CHECK_DEADLOCK FALSE

SPECIFICATION FairSpec
CONSTANTS
    t1 = t1
    t2 = t2
    t3 = t3
    Task = {t1, t2}
    Size = 2
    MaxPid = 4
    Kills = 0
    Crashes = 1
    FailedSpawns = 1
    Days = 1
    Budget <- MCBudget
PROPERTY AllAnswered
CHECK_DEADLOCK FALSE

SPECIFICATION FairSpec
CONSTANTS
    Schedules = {s1, s2}
    Workers = {w1, w2}
    MaxCrashes = 1
INVARIANTS TypeOK LaunchBudget
PROPERTIES DueSettles CancelHoldsOutsideRun
CHECK_DEADLOCK FALSE

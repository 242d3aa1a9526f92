SPECIFICATION FairSpec
CONSTANTS
    r = r  a = a
    Threads = {t1, t2}
    Tasks = {r, a}
    Period <- OneRepeats
    MaxTime = 2
CHECK_DEADLOCK FALSE
INVARIANTS
    DestructorFindsNoThread
    DrainLeavesNothing
PROPERTIES
    ScheduledTasksRun
    StopEndsThreads

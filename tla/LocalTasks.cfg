SPECIFICATION FairSpec
CONSTANTS
    t1 = t1
    t2 = t2
    r1 = r1
    r2 = r2
    Tasks = {t1}
    Scheduled = {t1}
    Threads = {r1, r2}
    DueLimit = 1
    MaxExecs = 2
INVARIANTS TypeOK RunningIdsReleased RunningIsWorkedOn
PROPERTY ActiveTasksRun


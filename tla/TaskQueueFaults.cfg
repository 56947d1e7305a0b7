\* The worker is fair and every write of tasks.json may fail: what holds
\* whatever becomes of the file.
CONSTANTS
    Tasks = {t1, t2}
    NoTask = NoTask
    MaxQueue = 2
    MaxEvents = 2
    MaxSeq = 4
    SaveFaults = {"stale", "torn"}
SPECIFICATION FairSpec
INVARIANTS
    QueueMatchesStatus
PROPERTIES
    QueuedTasksFinish
    StopCompletes

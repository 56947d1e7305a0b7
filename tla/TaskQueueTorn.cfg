\* The process may die inside a write of tasks.json, or the disk may be full.
CONSTANTS
    Tasks = {t1, t2}
    NoTask = NoTask
    MaxQueue = 2
    MaxEvents = 3
    MaxSeq = 5
    SaveFaults = {"torn"}
SPECIFICATION Spec
INVARIANT RestartRecoversTasks

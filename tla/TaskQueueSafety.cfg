\* Three tasks compete for a queue of two; a ledger of three events is trimmed
\* by a cancelled run (enqueued, started, cancelling, ignored, finished).
CONSTANTS
    Tasks = {t1, t2, t3}
    NoTask = NoTask
    MaxQueue = 2
    MaxEvents = 3
    MaxSeq = 5
    SaveFaults = {}
SPECIFICATION Spec
INVARIANTS
    TypeOK
    QueueMatchesStatus
    WorkerOwnsActive
    StoreIsCurrent
    AtMostOnce
    PromisesKept
    LedgerConsistent
PROPERTIES
    AnnouncedInOrder
    ImplementsTaskLane

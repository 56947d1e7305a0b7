------------------------------ MODULE TaskQueue ------------------------------
(***************************************************************************)
(* The persistent task lane (src/orchestration/TaskQueue.cpp): HTTP        *)
(* threads submit and cancel tasks, one worker thread executes them, and   *)
(* every change is written to tasks.json, from which a later process       *)
(* starts again.                                                           *)
(*                                                                         *)
(* Grain of atomicity.  The lane has one mutex, mu_.  A critical section   *)
(* is one action, because nothing it touches can be seen half done:        *)
(* running_ is the only state used outside mu_, and EventBus::publish,     *)
(* called inside some of the sections, takes a lock of its own that no     *)
(* holder of it asks mu_ for.  The exception is the worker's wait: between *)
(* the test of its predicate and going to sleep it holds mu_ while stop()  *)
(* (which does not take mu_) may clear running_ and notify nobody.         *)
(*                                                                         *)
(* A write of tasks.json truncates the file and rewrites it.  Its outcome  *)
(* is one of: the new rows; with "stale" in SaveFaults the old file, when  *)
(* it cannot be opened; with "torn" in SaveFaults an unparsable file, when *)
(* the disk fills up or the process dies after the truncation.             *)
(***************************************************************************)
EXTENDS TaskRecord, FiniteSets, SequencesExt

CONSTANTS
    Tasks,        \* the ids genTaskId may hand out, never twice
    NoTask,       \* "no task in the worker's hands"
    MaxQueue,     \* TaskConfig::maxQueue
    MaxSeq,       \* bound of the model: no cancel is repeated past this seq
    SaveFaults    \* which failures of writeText happen: {"stale", "torn"}

ASSUME TaskQueueAssumption ==
    /\ IsFiniteSet(Tasks)
    /\ NoTask \notin Tasks
    /\ MaxQueue \in Nat
    /\ MaxSeq \in Nat
    /\ SaveFaults \subseteq {"stale", "torn"}

VARIABLES
    phase,        \* the process: "down", "up", "stopping", or "refused" to start
    disk,         \* tasks.json: does it parse, and its rows
    tasks,        \* tasks_
    queue,        \* queue_
    cancelFlags,  \* the ids whose cancelFlags_ entry is true
    running,      \* running_
    pc,           \* where the worker thread is
    cur,          \* the worker's local `id`
    outcome,      \* the worker's local `status`
    announced,    \* announced[t]: the last status of t published on the bus
    executed,     \* history: how often execute_ was called for t, 2 for "more"
    promise       \* history: what the ok replies so far told t's client

memory  == <<tasks, queue, cancelFlags, running, pc, cur, outcome, announced>>
history == <<executed, promise>>
vars    == <<phase, disk, memory, history>>

NoRows == [t \in Tasks |-> NoRow]
TornFile == [ok |-> FALSE, rows |-> NoRows]

ProcessUp == phase \in {"up", "stopping"}

\* mu_ can be taken by an HTTP thread.  The worker is the only thread that
\* keeps it from one action to the next.
MutexFree == pc # "blocking"

-----------------------------------------------------------------------------
(* Helpers                                                                 *)

\* A variant that saves nothing, as if the call were missing.
SaveForgotten(rows) == disk' = disk

\* saveLocked: rewrite tasks.json.  The handlers ignore its result.
Save(rows) ==
    \/ disk' = [ok |-> TRUE, rows |-> rows]
    \/ "stale" \in SaveFaults /\ disk' = disk
    \/ "torn" \in SaveFaults /\ disk' = TornFile

\* A variant of the erase-remove idiom whose result is dropped.
WithoutKept(q, t) == q

\* queue_.erase(std::remove(...)): a queue never holds an id twice, so that
\* taking out its one occurrence is taking out all of them.
Without(q, t) ==
    IF \E i \in DOMAIN q : q[i] = t
    THEN RemoveAt(q, CHOOSE i \in DOMAIN q : q[i] = t)
    ELSE q

\* The rows are saved in the iteration order of an unordered_map, so that
\* the queued ones come back in any order.
Orderings(S) == SetToSeqs(S)

\* cv_.notify_one / notify_all: wakes the worker only if it sleeps already.
Notify == pc' = IF pc = "asleep" THEN "check" ELSE pc

Announce(t, status) == announced' = [announced EXCEPT ![t] = status]

Write(t, row) ==
    /\ tasks' = [tasks EXCEPT ![t] = row]
    /\ Save([tasks EXCEPT ![t] = row])

-----------------------------------------------------------------------------
(* HTTP threads                                                            *)

\* enqueue, on the path that accepts.  A full queue, an invalid policy and
\* an empty text are refused before anything changes.
Enqueue(t) ==
    /\ ProcessUp /\ MutexFree
    /\ Len(queue) < MaxQueue
    /\ tasks[t].status = "absent" /\ promise[t] = "none"
    /\ Write(t, AppendEvent(NoRow, "task_enqueued", "queued"))
    /\ queue' = Append(queue, t)
    /\ Notify
    /\ Announce(t, "queued")
    /\ promise' = [promise EXCEPT ![t] = "accepted"]
    /\ UNCHANGED <<phase, cancelFlags, running, cur, outcome, executed>>

\* cancel of a task that waits: final at once.
CancelQueued(t) ==
    /\ ProcessUp /\ MutexFree
    /\ tasks[t].status = "queued"
    /\ Write(t, AppendEvent(tasks[t], "task_cancelled", "cancelled"))
    /\ queue' = Without(queue, t)
    /\ Announce(t, "cancelled")
    /\ promise' = [promise EXCEPT ![t] = "withdrawn"]
    /\ UNCHANGED <<phase, cancelFlags, running, pc, cur, outcome, executed>>

\* cancel of a task in progress: cooperative, the worker finds the flag.
CancelRunning(t) ==
    /\ ProcessUp /\ MutexFree
    /\ tasks[t].status = "running"
    /\ Write(t, AppendEvent(tasks[t], "task_cancelling", "cancelling"))
    /\ cancelFlags' = cancelFlags \cup {t}
    /\ Announce(t, "cancelling")
    /\ promise' = [promise EXCEPT ![t] = "stopping"]
    /\ UNCHANGED <<phase, queue, running, pc, cur, outcome, executed>>

\* A variant that answers every later cancel like a repeated one.
CancelAgainAnyTime(t) ==
    /\ ProcessUp /\ MutexFree
    /\ tasks[t].status \in Terminal \cup {"cancelling"}
    /\ tasks[t].nextSeq < MaxSeq
    /\ Write(t, AppendEvent(tasks[t], "task_cancel_ignored", "cancelling"))
    /\ Announce(t, "cancelling")
    /\ UNCHANGED <<phase, queue, cancelFlags, running, pc, cur, outcome, history>>

\* cancel of a task that is being cancelled: a marker in the ledger.  (A
\* terminal task is refused before anything changes.)
CancelAgain(t) ==
    /\ ProcessUp /\ MutexFree
    /\ tasks[t].status = "cancelling"
    /\ tasks[t].nextSeq < MaxSeq
    /\ Write(t, AppendEvent(tasks[t], "task_cancel_ignored", "cancelling"))
    /\ Announce(t, "cancelling")
    /\ UNCHANGED <<phase, queue, cancelFlags, running, pc, cur, outcome, history>>

Client == \E t \in Tasks :
    Enqueue(t) \/ CancelQueued(t) \/ CancelRunning(t) \/ CancelAgain(t)

-----------------------------------------------------------------------------
(* The worker thread: workerLoop                                           *)

WorkerAt(from, to) == ProcessUp /\ pc = from /\ pc' = to

\* while (running_.load())
LoopTop ==
    /\ WorkerAt("loop", IF running THEN "check" ELSE "exited")
    /\ UNCHANGED <<phase, disk, tasks, queue, cancelFlags, running, cur, outcome,
                   announced, history>>

\* if (!running_.load()) return
Leave ==
    /\ WorkerAt("check", "exited")
    /\ ~running
    /\ UNCHANGED <<phase, disk, tasks, queue, cancelFlags, running, cur, outcome,
                   announced, history>>

\* The predicate is false; mu_ is still held.
Block ==
    /\ WorkerAt("check", "blocking")
    /\ running /\ queue = <<>>
    /\ UNCHANGED <<phase, disk, tasks, queue, cancelFlags, running, cur, outcome,
                   announced, history>>

Sleep ==
    /\ WorkerAt("blocking", "asleep")
    /\ UNCHANGED <<phase, disk, tasks, queue, cancelFlags, running, cur, outcome,
                   announced, history>>

\* A variant with cv_.wait in the place of cv_.wait_for.
NeverTimesOut == FALSE /\ UNCHANGED vars

\* The 250 ms of wait_for pass.
TimedOut ==
    /\ WorkerAt("asleep", "check")
    /\ UNCHANGED <<phase, disk, tasks, queue, cancelFlags, running, cur, outcome,
                   announced, history>>

\* Pop the oldest task and mark it running.  (An id in queue_ is always in
\* tasks_, which never shrinks: the two `continue`s on a missing row are dead.)
Take ==
    /\ WorkerAt("check", "copy")
    /\ running /\ queue # <<>>
    /\ cur' = Head(queue)
    /\ queue' = Tail(queue)
    /\ Write(Head(queue), AppendEvent(tasks[Head(queue)], "task_started", "running"))
    /\ UNCHANGED <<phase, cancelFlags, running, outcome, announced, history>>

\* copy = tasks_[id]; execute_(copy): the payload is final, so the copy is
\* the same whatever cancel did in between.
Execute ==
    /\ WorkerAt("copy", "executing")
    /\ executed' = [executed EXCEPT ![cur] = IF @ < 2 THEN @ + 1 ELSE 2]
    /\ UNCHANGED <<phase, disk, tasks, queue, cancelFlags, running, cur, outcome,
                   announced, promise>>

\* execute_ returns in time, returns late, or throws.
Return(result) ==
    /\ WorkerAt("executing", "finishing")
    /\ outcome' = result
    /\ UNCHANGED <<phase, disk, tasks, queue, cancelFlags, running, cur,
                   announced, history>>

\* A variant that never consults the flag.
FinalStatusUnflagged == outcome

\* What the second critical section decides: an accepted cancel wins.
FinalStatus == IF cur \in cancelFlags THEN "cancelled" ELSE outcome

\* A variant that leaves the consumed flag behind.
FlagsKept == cancelFlags

FlagsConsumed == cancelFlags \ {cur}

Finish ==
    /\ WorkerAt("finishing", "publish")
    /\ outcome' = FinalStatus
    /\ cancelFlags' = FlagsConsumed
    /\ Write(cur, AppendEvent(tasks[cur], "task_finished", FinalStatus))
    /\ UNCHANGED <<phase, queue, running, cur, announced, history>>

\* A variant in which a failed task takes the worker thread with it.
PublishOrDie ==
    /\ WorkerAt("publish", IF outcome = "failed" THEN "exited" ELSE "loop")
    /\ Announce(cur, outcome)
    /\ cur' = NoTask
    /\ outcome' = "none"
    /\ UNCHANGED <<phase, disk, tasks, queue, cancelFlags, running, history>>

\* publish("task_done") after mu_ is released; id and status go out of scope.
Publish ==
    /\ WorkerAt("publish", "loop")
    /\ Announce(cur, outcome)
    /\ cur' = NoTask
    /\ outcome' = "none"
    /\ UNCHANGED <<phase, disk, tasks, queue, cancelFlags, running, history>>

Worker ==
    \/ LoopTop \/ Leave \/ Block \/ Sleep \/ TimedOut \/ Take \/ Execute
    \/ \E result \in {"done", "failed", "timeout"} : Return(result)
    \/ Finish \/ Publish

-----------------------------------------------------------------------------
(* The process                                                             *)

\* The process is gone, and its memory with it.
MemoryLost ==
    /\ tasks' = NoRows /\ queue' = <<>> /\ cancelFlags' = {} /\ running' = FALSE
    /\ pc' = "exited" /\ cur' = NoTask /\ outcome' = "none"
    /\ announced' = [t \in Tasks |-> "absent"]

\* init() and start(): read tasks.json, recover, write it back, start the
\* worker.  Application::run starts the HTTP threads later.  A write that fails
\* when the stream is flushed, after writeText has looked at it, is not noticed.
Boot ==
    /\ phase \in {"down", "refused"} /\ disk.ok
    /\ LET rows == [t \in Tasks |-> Recovered(disk.rows[t])]
       IN  /\ tasks' = rows
           /\ queue' \in Orderings({t \in Tasks : rows[t].status = "queued"})
           /\ \/ disk' = [ok |-> TRUE, rows |-> rows]
              \/ "torn" \in SaveFaults /\ disk' = TornFile
    /\ phase' = "up" /\ running' = TRUE /\ pc' = "loop"
    /\ UNCHANGED <<cancelFlags, cur, outcome, announced, history>>

\* init() returns false and run() returns 1: loadLocked finds no task array,
\* or the rows were read but could not be written back.
BootRefused ==
    /\ phase \in {"down", "refused"}
    /\ phase' = "refused"
    /\ \/ ~disk.ok /\ disk' = disk
       \/ disk.ok /\ "stale" \in SaveFaults /\ disk' = disk
       \/ disk.ok /\ "torn" \in SaveFaults /\ disk' = TornFile
    /\ UNCHANGED <<memory, history>>

\* stop(): running_.exchange(false), notify_all, and then the join.  The
\* signal handler calls it while the HTTP threads still serve requests.
Stop ==
    /\ phase = "up"
    /\ phase' = "stopping" /\ running' = FALSE
    /\ Notify
    /\ UNCHANGED <<disk, tasks, queue, cancelFlags, cur, outcome, announced, history>>

\* The worker is joined, the HTTP threads are drained, run() returns.
Exit ==
    /\ phase = "stopping" /\ pc = "exited"
    /\ phase' = "down" /\ MemoryLost
    /\ UNCHANGED <<disk, history>>

\* The process is killed between two critical sections.  (Inside a save it
\* leaves a torn file: that is Save's "torn" and then Crash.)
Crash ==
    /\ ProcessUp
    /\ phase' = "down" /\ MemoryLost
    /\ UNCHANGED <<disk, history>>

Process == Boot \/ BootRefused \/ Stop \/ Exit \/ Crash

-----------------------------------------------------------------------------

Init ==
    /\ phase = "down"
    /\ disk = [ok |-> TRUE, rows |-> NoRows]      \* no file: no rows
    /\ tasks = NoRows /\ queue = <<>> /\ cancelFlags = {} /\ running = FALSE
    /\ pc = "exited" /\ cur = NoTask /\ outcome = "none"
    /\ announced = [t \in Tasks |-> "absent"]
    /\ executed = [t \in Tasks |-> 0]
    /\ promise = [t \in Tasks |-> "none"]

Next == Client \/ Worker \/ Process

Spec == Init /\ [][Next]_vars

\* The worker thread is scheduled and the main thread leaves run() once the
\* worker is joined.  Nothing is assumed of execute_, which may never return:
\* the curl that asks the model has no --max-time (LlmClient.cpp).  Clients,
\* crashes and boots are not fair.
FairSpec == Spec /\ WF_vars(Worker /\ pc # "executing") /\ WF_vars(Exit)

-----------------------------------------------------------------------------
(* Safety                                                                  *)

Positions == {"loop", "check", "blocking", "asleep", "copy", "executing",
              "finishing", "publish", "exited"}

\* Every variable has its type; a worker position needs its locals set.
TypeOK ==
    /\ phase \in {"down", "up", "stopping", "refused"}
    /\ disk \in [ok : BOOLEAN, rows : [Tasks -> Row]]
    /\ tasks \in [Tasks -> Row]
    /\ queue \in Seq(Tasks)
    /\ cancelFlags \subseteq Tasks
    /\ running \in BOOLEAN
    /\ pc \in Positions
    /\ cur \in Tasks \cup {NoTask}
    /\ outcome \in Terminal \cup {"none"}
    /\ pc \in {"copy", "executing", "finishing", "publish"} => cur \in Tasks
    /\ pc \in {"finishing", "publish"} => outcome \in Terminal
    /\ announced \in [Tasks -> Statuses]
    /\ executed \in [Tasks -> 0..2]
    /\ promise \in [Tasks -> {"none", "accepted", "withdrawn", "stopping"}]

\* queue_ and tasks_ agree: the queue holds each queued task exactly once
\* and nothing else, whatever enqueue, cancel, the worker and a restart did
\* in between.  Otherwise a task is lost, or a cancelled one is executed.
QueueMatchesStatus ==
    /\ IsInjective(queue)
    /\ \A t \in Tasks : tasks[t].status = "queued" <=> t \in Range(queue)

WorkerBusy == pc \in {"copy", "executing", "finishing"}

\* One worker, one task: a task is running or cancelling exactly while it is
\* in the worker's hands, and a cancel flag is up exactly for a task whose
\* cancellation is pending.  A stale flag would cancel nothing or the wrong run.
WorkerOwnsActive ==
    /\ \A t \in Tasks :
          tasks[t].status \in Active <=> WorkerBusy /\ cur = t
    /\ cancelFlags = {t \in Tasks : tasks[t].status = "cancelling"}

\* tasks.json is what memory says at every point where a crash can find it.
StoreIsCurrent == ProcessUp => disk = [ok |-> TRUE, rows |-> tasks]

\* What would be known of t after a restart now.
Durable(t) == IF ProcessUp THEN tasks[t].status ELSE disk.rows[t].status

\* A task's work is executed at most once, across any number of crashes and
\* restarts, and not at all before the task was started.
AtMostOnce ==
    \A t \in Tasks :
        /\ executed[t] <= 1
        /\ executed[t] = 1 => Durable(t) \in Active \cup Terminal

\* What a client was told stays true across restarts: an accepted task is
\* known; one withdrawn while it waited stays cancelled and was never
\* executed; one whose cancellation was accepted while it ran can only end
\* as cancelled.
PromisesKept ==
    \A t \in Tasks :
        /\ promise[t] # "none" => Durable(t) # "absent"
        /\ promise[t] = "withdrawn" => Durable(t) = "cancelled" /\ executed[t] = 0
        /\ promise[t] = "stopping" => Durable(t) \in {"cancelling", "cancelled"}

\* The ledger of a task: bounded, numbered without a gap up to nextSeq, and
\* ending in the event that gave the task its status, through trimming,
\* saving and recovery.  A client pages through it by sequence number.
LedgerConsistent ==
    \A t \in Tasks :
        LET log == tasks[t].events
        IN  /\ Len(log) <= MaxEvents
            /\ \A i \in DOMAIN log : log[i].seq = tasks[t].nextSeq - 1 - Len(log) + i
            /\ tasks[t].status # "absent" =>
                  log # <<>> /\ log[Len(log)].status = tasks[t].status

Rank(status) ==
    CASE status = "absent" -> 0
      [] status \in {"queued", "running"} -> 1
      [] status = "cancelling" -> 2
      [] status \in Terminal -> 3

\* Subscribers of the event bus never see a task go backwards or change its
\* outcome, although task_done is published after mu_ is released, when
\* other handlers may already have published.
AnnouncedInOrder ==
    [][ProcessUp' => \A t \in Tasks :
          \/ announced'[t] = announced[t]
          \/ Rank(announced[t]) < Rank(announced'[t])]_vars

\* The lane implements its promise, TaskLane: under a store that never fails,
\* crashes and restarts show as its Interrupt and otherwise not at all.
Lane == INSTANCE TaskLane
            WITH Capacity <- MaxQueue,
                 lane <- [t \in Tasks |-> Durable(t)],
                 ran <- executed

ImplementsTaskLane == Lane!Spec

-----------------------------------------------------------------------------
(* Liveness                                                                *)

\* The worker is in an execution for ever.
Hangs == <>[](pc = "executing")

\* While the process stays up a waiting task reaches an outcome, whatever
\* becomes of the tasks before it and of the file, unless an execution hangs.
QueuedTasksFinish ==
    \/ \A t \in Tasks :
          ProcessUp /\ tasks[t].status = "queued"
              ~> ~ProcessUp \/ phase = "stopping" \/ tasks[t].status \in Terminal
    \/ Hangs

\* stop() returns: the worker notices running_ = false although the notify
\* may come before it sleeps.  Only an execution that hangs keeps stop().
StopCompletes == (phase = "stopping" ~> phase = "down") \/ Hangs

-----------------------------------------------------------------------------
(* Claims of the documentation that the code does not meet                 *)

\* "persistent queue/state" and "restart-safe recovery" (docs/STAGE7.md): with
\* accepted tasks on record a new process does not refuse to start.
RestartRecoversTasks ==
    (\E t \in Tasks : promise[t] # "none") => phase # "refused"
=============================================================================

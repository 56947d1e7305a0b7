----------------------------- MODULE CronScheduler -----------------------------
(***************************************************************************)
(* The cron scheduler (src/automation/CronScheduler.cpp): HTTP threads add,*)
(* edit, enable, disable, remove and run jobs; one loop thread runs what   *)
(* is due; every change rewrites jobs.json, which the next process loads.  *)
(*                                                                         *)
(* Grain of atomicity.  A critical section of mutex_ is one action.  The   *)
(* mutex is free while a job's callback runs, and between the loop's scan  *)
(* for due jobs and each run it then starts.  The clock is read next to    *)
(* the section that uses it and counts as part of it.                      *)
(*                                                                         *)
(* Time is counted in ticks.  What a job does when it fires (payload,      *)
(* session, delivery) is its callback's business and left out, and so are  *)
(* the run records, which nothing reads back but listRuns.  Of the fields  *)
(* the scheduler keeps itself a client may write nextRunAt here, and not   *)
(* consecutiveErrors.                                                      *)
(***************************************************************************)
EXTENDS Integers, Sequences, FiniteSets, Functions

CONSTANTS
    Jobs,         \* the ids newId may hand out, never twice
    NoJob,        \* "no run in progress"
    Loop,         \* the scheduler thread as a caller of executeRun
    Http,         \* the HTTP threads that call runNow
    Specs,        \* the schedules a client may ask for
    NextRuns,     \* the values of nextRunAt in a client's payload; 0 is none
    Period,       \* max(everyMs, 1000), in ticks
    CronPeriod,   \* the ticks between two matches of the cron expressions
    Ladder,       \* retryBackoffMs: 30s, 1m, 5m, 15m, 60m in the code
    MaxTime,      \* bound of the model: the last tick
    MaxErrors,    \* bound of the model: a job's failures in a row
    SaveFaults    \* which failures of writeText happen: {"stale", "torn"}

Kinds   == {"every", "at", "cron"}
Callers == Http \cup {Loop}

Spec0 == [kind : Kinds, at : Nat \ {0}, deleteAfterRun : BOOLEAN]

ASSUME CronAssumption ==
    /\ NoJob \notin Jobs /\ Loop \notin Http
    /\ Specs \subseteq Spec0 /\ NextRuns \subseteq Nat
    /\ Period \in Nat \ {0} /\ CronPeriod \in Nat \ {0}
    /\ Ladder \in Seq(Nat \ {0}) /\ Ladder # <<>>
    /\ MaxTime \in Nat /\ MaxErrors \in Nat
    /\ SaveFaults \subseteq {"stale", "torn"}

VARIABLES
    phase,      \* the process: "down", "up" or "stopping"
    now,        \* nowMillis()
    disk,       \* jobs.json: does it parse, and its jobs
    jobs,       \* jobs_, by id
    inFlight,   \* inFlight_
    running,    \* running_
    loopAt,     \* where the loop thread is: "top", "due" or "exited"
    dueIds,     \* what is left of the loop's local dueIds
    call,       \* call[c]: the job whose callback c is executing
    told,       \* history: what became of j: "none", "added", "fired", "removed"
    shots,      \* history: runs of j as a one-shot since its last edit or boot
    intact      \* history: no write of jobs.json has failed yet

memory  == <<jobs, inFlight, running, loopAt, dueIds, call>>
history == <<told, shots, intact>>
vars    == <<phase, now, disk, memory, history>>

Row == [kind : Kinds, at : Nat \ {0}, deleteAfterRun : BOOLEAN, enabled : BOOLEAN,
        nextRunAt : Nat, errors : Nat]

ProcessUp == phase \in {"up", "stopping"}

NoJobs == [j \in {} |-> {}]

-----------------------------------------------------------------------------
(* Schedules                                                               *)

\* computeNextCronRun with a minute for a tick: the first match in a later
\* minute than from.  (The seconds of from are carried over and left out.)
NextCronRun(from) == (from \div CronPeriod + 1) * CronPeriod

FirstRun(kind, at) ==
    CASE kind = "at"    -> at
      [] kind = "every" -> now + Period
      [] kind = "cron"  -> NextCronRun(now)

\* The end of parseJobSpec: a nextRunAt on record is kept.
Scheduled(row) ==
    [row EXCEPT !.nextRunAt = IF @ > 0 THEN @ ELSE FirstRun(row.kind, row.at)]

\* retryBackoffMs: past the end of the ladder its last rung counts.
RetryBackoff(errors) == Ladder[IF errors < Len(Ladder) THEN errors ELSE Len(Ladder)]

\* A one-shot job is erased by its run, whatever became of it.
OneShot(row) == row.kind = "at" /\ row.deleteAfterRun

\* A variant that leaves a finished 'at' job enabled.
AfterRunStillEnabled(row, success, from) ==
    LET errors == IF success THEN 0 ELSE row.errors + 1
    IN  [row EXCEPT
           !.errors    = errors,
           !.nextRunAt = CASE row.kind = "at"                -> 0
                           [] row.kind # "at" /\ ~success    -> now + RetryBackoff(errors)
                           [] row.kind = "every" /\ success  -> now + Period
                           [] row.kind = "cron" /\ success   -> NextCronRun(from)]

\* What the second critical section of executeRun writes into any other job;
\* from is endedAt + 1000 ms.
AfterRun(row, success, from) ==
    LET errors == IF success THEN 0 ELSE row.errors + 1
    IN  [row EXCEPT
           !.errors    = errors,
           !.enabled   = @ /\ row.kind # "at",
           !.nextRunAt = CASE row.kind = "at"                -> 0
                           [] row.kind # "at" /\ ~success    -> now + RetryBackoff(errors)
                           [] row.kind = "every" /\ success  -> now + Period
                           [] row.kind = "cron" /\ success   -> NextCronRun(from)]

-----------------------------------------------------------------------------
(* The store                                                               *)

\* A variant that saves nothing.
StoreForgotten(rows) == jobs' = rows /\ UNCHANGED <<disk, intact>>

\* jobs_ changes and saveUnsafe rewrites jobs.json; its result is ignored.
\* Any write may fail, before the file is truncated or after.
Store(rows) ==
    /\ jobs' = rows
    /\ \/ disk' = [ok |-> TRUE, rows |-> rows] /\ UNCHANGED intact
       \/ /\ intact' = FALSE
          /\ \/ "stale" \in SaveFaults /\ UNCHANGED disk
             \/ "torn" \in SaveFaults /\ disk' = [ok |-> FALSE, rows |-> NoJobs]

Put(j, row)  == [k \in DOMAIN jobs \cup {j} |-> IF k = j THEN row ELSE jobs[k]]
Erase(j)     == Restrict(jobs, DOMAIN jobs \ {j})

-----------------------------------------------------------------------------
(* HTTP threads                                                            *)

\* addJob of a valid payload, which may name its first run.
AddJob(j) ==
    /\ ProcessUp /\ told[j] = "none"
    /\ \E spec \in Specs, enabled \in BOOLEAN, next \in NextRuns :
          Store(Put(j, Scheduled([kind |-> spec.kind, at |-> spec.at,
                                  deleteAfterRun |-> spec.deleteAfterRun,
                                  enabled |-> enabled, nextRunAt |-> next, errors |-> 0])))
    /\ told' = [told EXCEPT ![j] = "added"]
    /\ UNCHANGED <<phase, now, inFlight, running, loopAt, dueIds, call, shots>>

\* updateJob: the patch is merged over the whole record, whose nextRunAt
\* stays unless the patch names another or clears it.
UpdateJob(j) ==
    /\ ProcessUp /\ j \in DOMAIN jobs
    /\ \E spec \in Specs, enabled \in BOOLEAN, next \in NextRuns \cup {jobs[j].nextRunAt} :
          Store(Put(j, Scheduled([jobs[j] EXCEPT
                    !.kind = spec.kind, !.at = spec.at, !.enabled = enabled,
                    !.deleteAfterRun = spec.deleteAfterRun, !.nextRunAt = next])))
    /\ shots' = [shots EXCEPT ![j] = 0]
    /\ UNCHANGED <<phase, now, inFlight, running, loopAt, dueIds, call, told>>

SetEnabled(j, enabled) ==
    /\ ProcessUp /\ j \in DOMAIN jobs
    /\ LET row == [jobs[j] EXCEPT !.enabled = enabled]
       IN  Store(Put(j, IF enabled THEN Scheduled(row) ELSE row))
    /\ UNCHANGED <<phase, now, inFlight, running, loopAt, dueIds, call, told, shots>>

RemoveJob(j) ==
    /\ ProcessUp /\ j \in DOMAIN jobs
    /\ Store(Erase(j))
    /\ inFlight' = inFlight \ {j}
    /\ told' = [told EXCEPT ![j] = "removed"]
    /\ UNCHANGED <<phase, now, running, loopAt, dueIds, call, shots>>

-----------------------------------------------------------------------------
(* executeRun                                                              *)

\* A variant that does not look whether the job is running already.
StartableTwice(j) == j \in DOMAIN jobs

Startable(j) == j \in DOMAIN jobs /\ j \notin inFlight

\* The first critical section, and into the callback.
StartRun(c, j) ==
    /\ call' = [call EXCEPT ![c] = j]
    /\ inFlight' = inFlight \cup {j}
    /\ shots' = [shots EXCEPT ![j] = IF OneShot(jobs[j]) /\ @ < 2 THEN @ + 1 ELSE @]
    /\ UNCHANGED <<phase, now, disk, jobs, running, loopAt, told, intact>>

\* runNow, with mode "force" or "due"; a job that is not due is skipped.
RunNow(c, j, mode) ==
    /\ ProcessUp /\ call[c] = NoJob
    /\ Startable(j)
    /\ mode = "due" => jobs[j].nextRunAt <= now
    /\ StartRun(c, j)
    /\ UNCHANGED dueIds

\* A variant that forgets the job is no longer running.
InFlightKept(j) == inFlight

InFlightDone(j) == inFlight \ {j}

\* The callback returns or throws; the second critical section.
FinishRun(c, success) ==
    /\ ProcessUp /\ call[c] # NoJob
    /\ LET j == call[c]
       IN  /\ inFlight' = InFlightDone(j)
           /\ \/ j \notin DOMAIN jobs /\ UNCHANGED <<disk, jobs, intact, told>>
              \/ /\ j \in DOMAIN jobs /\ OneShot(jobs[j])
                 /\ Store(Erase(j))
                 /\ told' = [told EXCEPT ![j] = "fired"]
              \/ /\ j \in DOMAIN jobs /\ ~OneShot(jobs[j])
                 /\ success \/ jobs[j].errors < MaxErrors
                 /\ \E from \in {now, now + 1} :     \* the second may end the tick
                       Store(Put(j, AfterRun(jobs[j], success, from)))
                 /\ UNCHANGED told
    /\ call' = [call EXCEPT ![c] = NoJob]
    /\ UNCHANGED <<phase, now, running, loopAt, dueIds, shots>>

-----------------------------------------------------------------------------
(* The loop thread                                                         *)

Due == {j \in DOMAIN jobs : /\ jobs[j].enabled
                            /\ jobs[j].nextRunAt > 0
                            /\ jobs[j].nextRunAt <= now
                            /\ j \notin inFlight}

\* A variant that looks for due jobs whether or not it is to stop.
LoopScanForever ==
    /\ ProcessUp /\ loopAt = "top"
    /\ loopAt' = "due" /\ dueIds' = Due
    /\ UNCHANGED <<phase, now, disk, jobs, inFlight, running, call, history>>

\* while (running_.load()): collect the ids of the due jobs.
LoopScan ==
    /\ ProcessUp /\ loopAt = "top"
    /\ \/ running /\ loopAt' = "due" /\ dueIds' = Due
       \/ ~running /\ loopAt' = "exited" /\ UNCHANGED dueIds
    /\ UNCHANGED <<phase, now, disk, jobs, inFlight, running, call, history>>

\* for (id : dueIds) executeRun(id, false, "force"), one after the other and
\* without a look at running_ in between.  (They are in the order of jobs_,
\* here in any order.)
LoopRun(j) ==
    /\ ProcessUp /\ loopAt = "due" /\ j \in dueIds /\ call[Loop] = NoJob
    /\ dueIds' = dueIds \ {j}
    /\ \/ Startable(j) /\ StartRun(Loop, j)
       \/ ~Startable(j) /\ UNCHANGED <<phase, now, disk, jobs, inFlight, running,
                                       loopAt, call, history>>

\* sleep_for(tickMs_)
LoopSleep ==
    /\ ProcessUp /\ loopAt = "due" /\ dueIds = {} /\ call[Loop] = NoJob
    /\ loopAt' = "top"
    /\ UNCHANGED <<phase, now, disk, jobs, inFlight, running, dueIds, call, history>>

LoopStep == LoopScan \/ LoopSleep \/ \E j \in Jobs : LoopRun(j)

-----------------------------------------------------------------------------
(* The process and the clock                                               *)

Tick ==
    /\ now < MaxTime
    /\ now' = now + 1
    /\ UNCHANGED <<phase, disk, memory, history>>

\* init() and start(): a file that does not parse counts as no jobs at all.
Boot ==
    /\ phase = "down"
    /\ phase' = "up" /\ running' = TRUE /\ loopAt' = "top"
    /\ jobs' = IF disk.ok THEN [j \in DOMAIN disk.rows |-> Scheduled(disk.rows[j])]
                          ELSE NoJobs
    /\ shots' = [j \in Jobs |-> 0]
    /\ UNCHANGED <<now, disk, inFlight, dueIds, call, told, intact>>

MemoryLost ==
    /\ jobs' = NoJobs /\ inFlight' = {} /\ running' = FALSE /\ loopAt' = "exited"
    /\ dueIds' = {} /\ call' = [c \in Callers |-> NoJob]

Stop ==
    /\ phase = "up"
    /\ phase' = "stopping" /\ running' = FALSE
    /\ UNCHANGED <<now, disk, jobs, inFlight, loopAt, dueIds, call, history>>

\* The loop is joined, the HTTP threads are drained, run() returns.
Exit ==
    /\ phase = "stopping" /\ loopAt = "exited" /\ \A c \in Callers : call[c] = NoJob
    /\ phase' = "down" /\ MemoryLost
    /\ UNCHANGED <<now, disk, history>>

Crash ==
    /\ ProcessUp
    /\ phase' = "down" /\ MemoryLost
    /\ UNCHANGED <<now, disk, history>>

-----------------------------------------------------------------------------

Init ==
    /\ phase = "down" /\ now = 0
    /\ disk = [ok |-> TRUE, rows |-> NoJobs]
    /\ jobs = NoJobs /\ inFlight = {} /\ running = FALSE /\ loopAt = "exited"
    /\ dueIds = {} /\ call = [c \in Callers |-> NoJob]
    /\ told = [j \in Jobs |-> "none"] /\ shots = [j \in Jobs |-> 0] /\ intact = TRUE

Client == \E j \in Jobs :
    \/ AddJob(j) \/ UpdateJob(j) \/ RemoveJob(j)
    \/ \E enabled \in BOOLEAN : SetEnabled(j, enabled)
    \/ \E c \in Http, mode \in {"force", "due"} : RunNow(c, j, mode)

Finish(c) == \E success \in BOOLEAN : FinishRun(c, success)

Next ==
    \/ Client \/ LoopStep \/ Tick
    \/ \E c \in Callers : Finish(c)
    \/ Boot \/ Stop \/ Exit \/ Crash

Spec == Init /\ [][Next]_vars

\* The loop thread is scheduled.  Nothing is assumed of the callbacks: the
\* model call in one may never return.
FairSpec == Spec /\ WF_vars(LoopStep)

-----------------------------------------------------------------------------
(* Properties                                                              *)

\* Every variable has its type.
TypeOK ==
    /\ phase \in {"down", "up", "stopping"} /\ now \in 0..MaxTime
    /\ disk.ok \in BOOLEAN /\ DOMAIN disk.rows \subseteq Jobs
    /\ \A j \in DOMAIN disk.rows : disk.rows[j] \in Row
    /\ DOMAIN jobs \subseteq Jobs /\ \A j \in DOMAIN jobs : jobs[j] \in Row
    /\ inFlight \subseteq Jobs /\ running \in BOOLEAN
    /\ loopAt \in {"top", "due", "exited"} /\ dueIds \subseteq Jobs
    /\ call \in [Callers -> Jobs \cup {NoJob}]
    /\ told \in [Jobs -> {"none", "added", "fired", "removed"}]
    /\ shots \in [Jobs -> 0..2] /\ intact \in BOOLEAN

\* inFlight_ is exactly the jobs on record whose callback is being executed,
\* and no job is executed by two threads at once, whatever is added, edited
\* and removed meanwhile.  An id too many would block its job for good.
InFlightExact ==
    /\ inFlight = {call[c] : c \in Callers} \cap DOMAIN jobs
    /\ \A c, d \in Callers : call[c] = call[d] /\ call[c] # NoJob => c = d

\* An enabled job has a next run: no order of runs, edits, enables and
\* restarts leaves one that the loop will never look at again.
EnabledJobsAreScheduled ==
    \A j \in DOMAIN jobs : jobs[j].enabled => jobs[j].nextRunAt > 0

\* A one-shot job fires at most once in the life of a process unless it is
\* edited, however the loop and manual runs race for it.
OneShotOnce == \A j \in Jobs : shots[j] <= 1

Durable == IF ProcessUp THEN DOMAIN jobs ELSE DOMAIN disk.rows

\* As long as jobs.json can be written, an accepted job is on record, across
\* restarts and runs that a crash cuts short, until it is removed or a finished
\* run has used up its one shot; from then on it never returns.
RepliesStayTrue ==
    intact => \A j \in Jobs : /\ told[j] = "added" => j \in Durable
                              /\ told[j] \in {"fired", "removed"} => j \notin Durable

Overdue(j) == /\ j \in DOMAIN jobs /\ jobs[j].enabled
              /\ jobs[j].nextRunAt > 0 /\ jobs[j].nextRunAt <= now

\* The loop is in a callback for ever.
Hangs == <>[](call[Loop] # NoJob)

\* A job that is due is run sooner or later, unless it is disabled, removed or
\* rescheduled first or the loop hangs: neither a long list before it nor what
\* inFlight_ still holds of earlier runs keeps the loop from it.
DueJobsFire ==
    \/ \A j \in Jobs :
          phase = "up" /\ Overdue(j)
              ~> phase # "up" \/ ~Overdue(j) \/ j \in {call[c] : c \in Callers}
    \/ Hangs

\* stop() returns unless the loop hangs: it works off the rest of its list and
\* leaves, however many jobs clients still add, edit and run meanwhile.
StopCompletes == (phase = "stopping" ~> loopAt = "exited") \/ Hangs

-----------------------------------------------------------------------------
(* Claims of the documentation that the code does not meet                 *)

\* "`enabled`: Whether the job runs" (docs/CRON_REFERENCE.md): the scheduler
\* starts no job that is disabled when it starts.
DisabledJobsDoNotRun ==
    [][\A j \in Jobs :
          call[Loop] = NoJob /\ call'[Loop] = j => jobs[j].enabled]_vars
=============================================================================

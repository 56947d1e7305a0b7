------------------------- MODULE CronSchedulerProofs -------------------------
(***************************************************************************)
(* The cron scheduler for any jobs, any schedules, any number of HTTP      *)
(* threads, and any crashes, restarts and failed writes of jobs.json.      *)
(***************************************************************************)
EXTENDS CronScheduler, TLAPS

USE CronAssumption

-----------------------------------------------------------------------------
(* Rows                                                                    *)

\* A table of well-formed rows.
RowTable(rows) == DOMAIN rows \subseteq Jobs /\ \A j \in DOMAIN rows : rows[j] \in Row

\* Its enabled jobs have a next run.
Runnable(rows) == \A j \in DOMAIN rows : rows[j].enabled => rows[j].nextRunAt > 0

LEMMA NextCronRunType ==
    ASSUME NEW from \in Nat
    PROVE  NextCronRun(from) \in Nat \ {0}
  <1>1. from \div CronPeriod \in Nat
    OBVIOUS
  <1>2. ASSUME NEW n \in Nat PROVE (n + 1) * CronPeriod \in Nat \ {0}
    <2>1. (n + 1) * CronPeriod = n * CronPeriod + CronPeriod /\ n * CronPeriod \in Nat
      OBVIOUS
    <2>2. QED BY <2>1
  <1>3. QED BY <1>1, <1>2 DEF NextCronRun

LEMMA FirstRunType ==
    ASSUME now \in Nat, NEW kind \in Kinds, NEW at \in Nat \ {0}
    PROVE  FirstRun(kind, at) \in Nat \ {0}
  BY NextCronRunType DEF FirstRun, Kinds

\* Scheduling a row gives it a next run and changes nothing else.
LEMMA ScheduledFacts ==
    ASSUME now \in Nat, NEW row \in Row
    PROVE  /\ Scheduled(row) \in Row /\ Scheduled(row).nextRunAt > 0
           /\ Scheduled(row).kind = row.kind
           /\ Scheduled(row).deleteAfterRun = row.deleteAfterRun
  <1>1. FirstRun(row.kind, row.at) \in Nat \ {0}
    BY FirstRunType DEF Row
  <1> DEFINE next == IF row.nextRunAt > 0 THEN row.nextRunAt ELSE FirstRun(row.kind, row.at)
  <1>2. next \in Nat \ {0}
    BY <1>1 DEF Row
  <1>3. Scheduled(row) = [row EXCEPT !.nextRunAt = next]
    BY DEF Scheduled
  <1>4. ASSUME NEW n \in Nat \ {0}
        PROVE  /\ [row EXCEPT !.nextRunAt = n] \in Row
               /\ [row EXCEPT !.nextRunAt = n].nextRunAt = n
               /\ [row EXCEPT !.nextRunAt = n].kind = row.kind
               /\ [row EXCEPT !.nextRunAt = n].deleteAfterRun = row.deleteAfterRun
    BY DEF Row
  <1> HIDE DEF next
  <1>5. QED BY <1>2, <1>3, <1>4

\* However often a job has failed, its next try is a rung of the ladder away.
LEMMA RetryBackoffType ==
    ASSUME NEW errors \in Nat \ {0}
    PROVE  RetryBackoff(errors) \in Nat \ {0}
  <1>1. Len(Ladder) \in Nat \ {0} /\ \A i \in 1 .. Len(Ladder) : Ladder[i] \in Nat \ {0}
    OBVIOUS
  <1> DEFINE rung == IF errors < Len(Ladder) THEN errors ELSE Len(Ladder)
  <1>2. rung \in 1 .. Len(Ladder)
    BY <1>1
  <1>3. QED BY <1>1, <1>2 DEF RetryBackoff

\* A run leaves the job's row well formed, and scheduled unless it is disabled.
LEMMA AfterRunFacts ==
    ASSUME now \in Nat, NEW row \in Row, NEW success \in BOOLEAN, NEW from \in {now, now + 1}
    PROVE  /\ AfterRun(row, success, from) \in Row
           /\ AfterRun(row, success, from).enabled => AfterRun(row, success, from).nextRunAt > 0
  <1> DEFINE errors == IF success THEN 0 ELSE row.errors + 1
             next   == CASE row.kind = "at"                -> 0
                         [] row.kind # "at" /\ ~success    -> now + RetryBackoff(errors)
                         [] row.kind = "every" /\ success  -> now + Period
                         [] row.kind = "cron" /\ success   -> NextCronRun(from)
             after  == [row EXCEPT !.errors = errors, !.enabled = @ /\ row.kind # "at",
                                   !.nextRunAt = next]
  <1>1. errors \in Nat /\ (~success => errors \in Nat \ {0})
    BY DEF Row
  <1>2. row.kind \in Kinds /\ from \in Nat
    BY DEF Row, Kinds
  <1>3. next \in Nat /\ (row.kind # "at" => next > 0)
    <2>1. CASE row.kind = "at"
      BY <2>1
    <2>2. CASE row.kind # "at" /\ ~success
      <3>1. RetryBackoff(errors) \in Nat \ {0}
        BY <1>1, <2>2, RetryBackoffType
      <3>2. next = now + RetryBackoff(errors)
        BY <2>2
      <3> HIDE DEF next, errors
      <3>3. QED BY <3>1, <3>2
    <2>3. CASE row.kind = "every" /\ success
      BY <2>3
    <2>4. CASE row.kind = "cron" /\ success
      <3>1. NextCronRun(from) \in Nat \ {0}
        BY <1>2, NextCronRunType
      <3>2. next = NextCronRun(from)
        BY <2>4
      <3> HIDE DEF next
      <3>3. QED BY <3>1, <3>2
    <2>5. QED BY <1>2, <2>1, <2>2, <2>3, <2>4 DEF Kinds
  <1>4. AfterRun(row, success, from) = after
    BY DEF AfterRun
  <1> HIDE DEF errors, next
  <1>5. after \in Row /\ after.nextRunAt = next /\ (after.enabled => row.kind # "at")
    BY <1>1, <1>3 DEF Row
  <1>6. QED BY <1>3, <1>4, <1>5

-----------------------------------------------------------------------------
(* The store                                                               *)

LEMMA NoJobsFacts == RowTable(NoJobs) /\ Runnable(NoJobs) /\ DOMAIN NoJobs = {}
  BY DEF RowTable, Runnable, NoJobs

LEMMA PutFacts ==
    ASSUME RowTable(jobs), NEW j \in Jobs, NEW row \in Row
    PROVE  /\ DOMAIN Put(j, row) = DOMAIN jobs \cup {j}
           /\ Put(j, row)[j] = row
           /\ \A k \in DOMAIN jobs \ {j} : Put(j, row)[k] = jobs[k]
           /\ RowTable(Put(j, row))
           /\ Runnable(jobs) /\ (row.enabled => row.nextRunAt > 0) => Runnable(Put(j, row))
  BY DEF Put, RowTable, Runnable

LEMMA EraseFacts ==
    ASSUME RowTable(jobs), NEW j
    PROVE  /\ DOMAIN Erase(j) = DOMAIN jobs \ {j}
           /\ \A k \in DOMAIN jobs \ {j} : Erase(j)[k] = jobs[k]
           /\ RowTable(Erase(j))
           /\ Runnable(jobs) => Runnable(Erase(j))
  BY DEF Erase, Restrict, RowTable, Runnable

\* What a write of jobs.json leaves, whether or not it fails.
LEMMA StoreFacts ==
    ASSUME disk.ok \in BOOLEAN, RowTable(disk.rows), intact \in BOOLEAN,
           NEW rows, RowTable(rows), Store(rows)
    PROVE  /\ jobs' = rows
           /\ disk'.ok \in BOOLEAN /\ RowTable(disk'.rows) /\ intact' \in BOOLEAN
           /\ DOMAIN disk'.rows \subseteq DOMAIN disk.rows \cup DOMAIN rows
           /\ intact' => intact /\ disk'.ok /\ DOMAIN disk'.rows = DOMAIN rows
  <1>1. CASE disk' = [ok |-> TRUE, rows |-> rows] /\ UNCHANGED intact
    BY <1>1 DEF Store
  <1>2. CASE intact' = FALSE /\ UNCHANGED disk
    BY <1>2 DEF Store
  <1>3. CASE intact' = FALSE /\ disk' = [ok |-> FALSE, rows |-> NoJobs]
    BY <1>3, NoJobsFacts DEF Store
  <1>4. QED BY <1>1, <1>2, <1>3 DEF Store

-----------------------------------------------------------------------------
(* Types                                                                   *)

\* TypeOK with the two tables spelt out.
LEMMA TypeOKTables ==
    TypeOK <=> /\ phase \in {"down", "up", "stopping"} /\ now \in 0..MaxTime
               /\ disk.ok \in BOOLEAN /\ RowTable(disk.rows) /\ RowTable(jobs)
               /\ inFlight \subseteq Jobs /\ running \in BOOLEAN
               /\ loopAt \in {"top", "due", "exited"} /\ dueIds \subseteq Jobs
               /\ call \in [Callers -> Jobs \cup {NoJob}]
               /\ told \in [Jobs -> {"none", "added", "fired", "removed"}]
               /\ shots \in [Jobs -> 0..2] /\ intact \in BOOLEAN
  BY DEF TypeOK, RowTable

LEMMA InitTypeOK == Init => TypeOK
  <1> SUFFICES ASSUME Init PROVE TypeOK
    OBVIOUS
  <1>1. disk.ok \in BOOLEAN /\ RowTable(disk.rows) /\ RowTable(jobs)
    BY NoJobsFacts DEF Init
  <1>2. phase \in {"down", "up", "stopping"} /\ now \in 0..MaxTime
    BY DEF Init
  <1>3. /\ inFlight \subseteq Jobs /\ running \in BOOLEAN /\ intact \in BOOLEAN
        /\ loopAt \in {"top", "due", "exited"} /\ dueIds \subseteq Jobs
    BY DEF Init
  <1>4. /\ call \in [Callers -> Jobs \cup {NoJob}] /\ shots \in [Jobs -> 0..2]
        /\ told \in [Jobs -> {"none", "added", "fired", "removed"}]
    BY DEF Init
  <1>5. QED BY <1>1, <1>2, <1>3, <1>4, TypeOKTables

\* The row that AddJob builds.
LEMMA AddedRow ==
    ASSUME now \in Nat, NEW spec \in Specs, NEW enabled \in BOOLEAN, NEW next \in NextRuns
    PROVE  LET row == [kind |-> spec.kind, at |-> spec.at,
                       deleteAfterRun |-> spec.deleteAfterRun,
                       enabled |-> enabled, nextRunAt |-> next, errors |-> 0]
           IN  /\ Scheduled(row) \in Row /\ Scheduled(row).nextRunAt > 0
  <1> DEFINE row == [kind |-> spec.kind, at |-> spec.at,
                     deleteAfterRun |-> spec.deleteAfterRun,
                     enabled |-> enabled, nextRunAt |-> next, errors |-> 0]
  <1>1. spec \in Spec0 /\ next \in Nat
    OBVIOUS
  <1>2. row \in Row
    BY <1>1 DEF Row, Spec0
  <1> HIDE DEF row
  <1>3. Scheduled(row) \in Row /\ Scheduled(row).nextRunAt > 0
    BY <1>2, ScheduledFacts
  <1>4. QED BY <1>3 DEF row

\* The row that UpdateJob builds.
LEMMA UpdatedRow ==
    ASSUME now \in Nat, NEW old \in Row, NEW spec \in Specs, NEW enabled \in BOOLEAN,
           NEW next \in NextRuns \cup {old.nextRunAt}
    PROVE  LET row == [old EXCEPT !.kind = spec.kind, !.at = spec.at, !.enabled = enabled,
                                  !.deleteAfterRun = spec.deleteAfterRun, !.nextRunAt = next]
           IN  /\ Scheduled(row) \in Row /\ Scheduled(row).nextRunAt > 0
  <1> DEFINE row == [old EXCEPT !.kind = spec.kind, !.at = spec.at, !.enabled = enabled,
                                !.deleteAfterRun = spec.deleteAfterRun, !.nextRunAt = next]
  <1>1. spec \in Spec0 /\ next \in Nat
    BY DEF Row
  <1>2. row \in Row
    BY <1>1 DEF Row, Spec0
  <1> HIDE DEF row
  <1>3. Scheduled(row) \in Row /\ Scheduled(row).nextRunAt > 0
    BY <1>2, ScheduledFacts
  <1>4. QED BY <1>3 DEF row

\* The row that SetEnabled builds.
LEMMA EnabledRow ==
    ASSUME now \in Nat, NEW old \in Row, NEW enabled \in BOOLEAN
    PROVE  LET set == [old EXCEPT !.enabled = enabled]
               row == IF enabled THEN Scheduled(set) ELSE set
           IN  /\ row \in Row /\ (row.enabled => row.nextRunAt > 0)
               /\ row.kind = old.kind /\ row.deleteAfterRun = old.deleteAfterRun
  <1> DEFINE set == [old EXCEPT !.enabled = enabled]
  <1>1. set \in Row /\ set.kind = old.kind /\ set.deleteAfterRun = old.deleteAfterRun
        /\ set.enabled = enabled
    BY DEF Row
  <1> HIDE DEF set
  <1>2. QED BY <1>1, ScheduledFacts DEF set

-----------------------------------------------------------------------------
(* The inductive invariant                                                 *)

\* What lives in memory is gone with the process.
DownIsEmpty ==
    ~ProcessUp => /\ inFlight = {} /\ DOMAIN jobs = {}
                  /\ \A c \in Callers : call[c] = NoJob

\* An id in use, on record or in a run, was handed to a client.
IdsAreTold ==
    /\ \A j \in DOMAIN jobs \cup DOMAIN disk.rows : told[j] # "none"
    /\ \A c \in Callers : call[c] # NoJob => told[call[c]] # "none"
    /\ \A j \in Jobs : shots[j] > 0 => told[j] # "none"

\* As long as no write has failed, jobs.json lists the jobs in memory.
FileFollows == intact => disk.ok /\ (ProcessUp => DOMAIN disk.rows = DOMAIN jobs)

\* A job that was run as a one-shot is still in that run or gone.
OneShotsEnd ==
    \A j \in Jobs : shots[j] > 0 =>
        /\ shots[j] = 1
        /\ j \in DOMAIN jobs => j \in inFlight /\ OneShot(jobs[j])

IInv ==
    /\ TypeOK /\ DownIsEmpty /\ IdsAreTold /\ FileFollows /\ OneShotsEnd
    /\ InFlightExact /\ EnabledJobsAreScheduled /\ RepliesStayTrue

LEMMA InitIInv == Init => IInv
  <1> SUFFICES ASSUME Init PROVE IInv
    OBVIOUS
  <1>1. TypeOK /\ DOMAIN jobs = {} /\ DOMAIN disk.rows = {}
    BY InitTypeOK, NoJobsFacts DEF Init
  <1>2. \A c \in Callers : call[c] = NoJob
    BY DEF Init
  <1>3. \A j \in Jobs : told[j] = "none" /\ shots[j] = 0
    BY DEF Init
  <1>4. phase = "down" /\ inFlight = {} /\ disk.ok
    BY DEF Init
  <1>5. DownIsEmpty /\ IdsAreTold /\ FileFollows /\ OneShotsEnd
    BY <1>1, <1>2, <1>3, <1>4 DEF DownIsEmpty, IdsAreTold, FileFollows, OneShotsEnd, ProcessUp
  <1>6. InFlightExact /\ EnabledJobsAreScheduled /\ RepliesStayTrue
    BY <1>1, <1>2, <1>3, <1>4
       DEF InFlightExact, EnabledJobsAreScheduled, RepliesStayTrue, Durable, ProcessUp
  <1>7. QED BY <1>1, <1>5, <1>6 DEF IInv

\* What the invariant says of the two tables, for the lemmas about them.
LEMMA IInvTables ==
    ASSUME IInv
    PROVE  /\ now \in Nat /\ disk.ok \in BOOLEAN /\ RowTable(disk.rows) /\ RowTable(jobs)
           /\ intact \in BOOLEAN /\ Runnable(jobs)
  BY TypeOKTables DEF IInv, EnabledJobsAreScheduled, Runnable

\* A job's row is written, by a client or at the end of a run; shots and told
\* may change for that job only.
LEMMA PutIInv ==
    ASSUME IInv, ProcessUp, NEW j \in Jobs, NEW row \in Row, row.enabled => row.nextRunAt > 0,
           Store(Put(j, row)), UNCHANGED <<phase, now, inFlight, running, loopAt, dueIds, call>>,
           \/ j \in DOMAIN jobs /\ UNCHANGED told
           \/ told[j] = "none" /\ told' = [told EXCEPT ![j] = "added"],
           \/ /\ shots' = shots
              /\ shots[j] > 0 /\ j \in DOMAIN jobs =>
                    row.kind = jobs[j].kind /\ row.deleteAfterRun = jobs[j].deleteAfterRun
           \/ shots' = [shots EXCEPT ![j] = 0]
    PROVE  IInv'
  <1> DEFINE rows == Put(j, row)
  <1>1. /\ DOMAIN rows = DOMAIN jobs \cup {j} /\ rows[j] = row
        /\ \A k \in DOMAIN jobs \ {j} : rows[k] = jobs[k]
        /\ RowTable(rows) /\ Runnable(rows)
    BY IInvTables, PutFacts
  <1> HIDE DEF rows
  <1>2. /\ jobs' = rows
        /\ disk'.ok \in BOOLEAN /\ RowTable(disk'.rows) /\ intact' \in BOOLEAN
        /\ DOMAIN disk'.rows \subseteq DOMAIN disk.rows \cup DOMAIN rows
        /\ intact' => intact /\ disk'.ok /\ DOMAIN disk'.rows = DOMAIN rows
    <2>1. Store(rows)
      BY DEF rows
    <2>2. QED BY <2>1, <1>1, IInvTables, StoreFacts
  <1>3. TypeOK'
    <2>1. /\ told' \in [Jobs -> {"none", "added", "fired", "removed"}]
          /\ shots' \in [Jobs -> 0..2]
      <3>1. /\ told \in [Jobs -> {"none", "added", "fired", "removed"}]
            /\ shots \in [Jobs -> 0..2]
        BY DEF IInv, TypeOK
      <3>2. told' = told \/ told' = [told EXCEPT ![j] = "added"]
        OBVIOUS
      <3>3. shots' = shots \/ shots' = [shots EXCEPT ![j] = 0]
        OBVIOUS
      <3>4. told' \in [Jobs -> {"none", "added", "fired", "removed"}]
        BY <3>1, <3>2
      <3>5. shots' \in [Jobs -> 0..2]
        BY <3>1, <3>3
      <3>6. QED BY <3>4, <3>5
    <2>2. /\ phase \in {"down", "up", "stopping"} /\ now \in 0..MaxTime
          /\ inFlight \subseteq Jobs /\ running \in BOOLEAN
          /\ loopAt \in {"top", "due", "exited"} /\ dueIds \subseteq Jobs
          /\ call \in [Callers -> Jobs \cup {NoJob}]
      BY DEF IInv, TypeOK
    <2>3. RowTable(jobs') /\ RowTable(disk'.rows) /\ disk'.ok \in BOOLEAN /\ intact' \in BOOLEAN
      BY <1>1, <1>2
    <2>4. QED BY <2>1, <2>2, <2>3 DEF TypeOK, RowTable
  <1>4. /\ ProcessUp' /\ DOMAIN jobs' = DOMAIN jobs \cup {j} /\ j \in DOMAIN jobs'
        /\ DOMAIN disk'.rows \subseteq DOMAIN disk.rows \cup DOMAIN jobs \cup {j}
        /\ call' = call /\ inFlight' = inFlight
    BY <1>1, <1>2 DEF ProcessUp
  <1>5. /\ told'[j] # "none" /\ \A k \in Jobs \ {j} : told'[k] = told[k]
        /\ \/ j \in DOMAIN jobs /\ told'[j] = told[j]
           \/ told[j] = "none" /\ told'[j] = "added"
    BY DEF IInv, TypeOK, IdsAreTold
  <1>6. /\ \A k \in Jobs : shots'[k] = shots[k] \/ shots'[k] = 0
        /\ \A k \in Jobs \ {j} : shots'[k] = shots[k]
        /\ shots'[j] > 0 /\ j \in DOMAIN jobs =>
              row.kind = jobs[j].kind /\ row.deleteAfterRun = jobs[j].deleteAfterRun
    BY DEF IInv, TypeOK
  <1>7. DOMAIN jobs \subseteq Jobs /\ DOMAIN disk.rows \subseteq Jobs
        /\ \A c \in Callers : call[c] \in Jobs \cup {NoJob}
    BY DEF IInv, TypeOK
  <1>8. \A c \in Callers : call[c] # NoJob =>
            call[c] # j \/ (j \in DOMAIN jobs /\ told'[j] = told[j])
    BY <1>5, <1>7 DEF IInv, IdsAreTold
  <1>9. DownIsEmpty'
    BY <1>4 DEF DownIsEmpty
  <1>10. IdsAreTold'
    <2>1. \A k \in DOMAIN jobs' \cup DOMAIN disk'.rows : told'[k] # "none"
      BY <1>4, <1>5, <1>7 DEF IInv, IdsAreTold
    <2>2. \A c \in Callers : call[c] # NoJob => told'[call[c]] # "none"
      BY <1>5, <1>7, <1>8 DEF IInv, IdsAreTold
    <2>3. \A k \in Jobs : shots'[k] > 0 => told'[k] # "none"
      BY <1>5, <1>6 DEF IInv, IdsAreTold
    <2>4. QED BY <1>4, <2>1, <2>2, <2>3 DEF IdsAreTold
  <1>11. FileFollows'
    BY <1>1, <1>2 DEF FileFollows
  <1>12. OneShotsEnd'
    <2> SUFFICES ASSUME NEW k \in Jobs, shots'[k] > 0
                 PROVE  /\ shots'[k] = 1
                        /\ k \in DOMAIN jobs' => k \in inFlight /\ OneShot(jobs'[k])
      BY <1>4 DEF OneShotsEnd, OneShot
    <2>1. shots[k] = shots'[k] /\ shots[k] > 0 /\ shots[k] = 1
          /\ (k \in DOMAIN jobs => k \in inFlight /\ OneShot(jobs[k]))
      BY <1>6 DEF IInv, OneShotsEnd
    <2>2. CASE k = j
      <3>1. j \in DOMAIN jobs
        BY <1>5, <2>1, <2>2 DEF IInv, IdsAreTold
      <3>2. QED BY <1>1, <1>2, <1>6, <2>1, <2>2, <3>1 DEF OneShot
    <2>3. CASE k # j
      BY <1>1, <1>2, <2>1, <2>3
    <2>4. QED BY <2>2, <2>3
  <1>13. InFlightExact'
    <2>1. \A c \in Callers : call[c] = j => j \in DOMAIN jobs
      BY <1>8
    <2>2. inFlight = {call[c] : c \in Callers} \cap (DOMAIN jobs \cup {j})
      BY <2>1 DEF IInv, InFlightExact
    <2>3. QED BY <1>4, <2>2 DEF IInv, InFlightExact
  <1>14. EnabledJobsAreScheduled'
    BY <1>1, <1>2 DEF EnabledJobsAreScheduled, Runnable
  <1>15. RepliesStayTrue'
    <2> SUFFICES ASSUME intact', NEW k \in Jobs
                 PROVE  /\ told'[k] = "added" => k \in DOMAIN jobs'
                        /\ told'[k] \in {"fired", "removed"} => k \notin DOMAIN jobs'
      BY <1>4 DEF RepliesStayTrue, Durable
    <2>1. intact
      BY <1>2
    <2>2. QED BY <1>4, <1>5, <2>1 DEF IInv, RepliesStayTrue, Durable
  <1>16. QED BY <1>3, <1>9, <1>10, <1>11, <1>12, <1>13, <1>14, <1>15 DEF IInv

\* A run of j ends or j is removed: j is no longer in flight, its row is
\* rewritten or gone, and no other row changes.
LEMMA ReleaseIInv ==
    ASSUME IInv, ProcessUp, NEW j \in Jobs,
           RowTable(jobs'), Runnable(jobs'),
           disk'.ok \in BOOLEAN, RowTable(disk'.rows), intact' \in BOOLEAN,
           DOMAIN jobs \ {j} \subseteq DOMAIN jobs', DOMAIN jobs' \subseteq DOMAIN jobs,
           \A k \in DOMAIN jobs \ {j} : jobs'[k] = jobs[k],
           DOMAIN disk'.rows \subseteq DOMAIN disk.rows \cup DOMAIN jobs,
           intact' => intact /\ disk'.ok /\ DOMAIN disk'.rows = DOMAIN jobs',
           j \in DOMAIN jobs' => shots[j] = 0,
           inFlight' = inFlight \ {j},
           UNCHANGED <<phase, now, running, loopAt, dueIds, shots>>,
           \/ UNCHANGED call /\ j \in DOMAIN jobs /\ j \notin DOMAIN jobs'
           \/ \E c \in Callers : call[c] = j /\ call' = [call EXCEPT ![c] = NoJob],
           \/ UNCHANGED told /\ DOMAIN jobs' = DOMAIN jobs
           \/ /\ j \notin DOMAIN jobs'
              /\ \E ending \in {"fired", "removed"} : told' = [told EXCEPT ![j] = ending]
    PROVE  IInv'
  <1>1. TypeOK'
    <2>1. /\ told' \in [Jobs -> {"none", "added", "fired", "removed"}]
          /\ call' \in [Callers -> Jobs \cup {NoJob}]
      <3>1. /\ told \in [Jobs -> {"none", "added", "fired", "removed"}]
            /\ call \in [Callers -> Jobs \cup {NoJob}]
        BY DEF IInv, TypeOK
      <3>2. \/ told' = told
            \/ \E ending \in {"fired", "removed"} : told' = [told EXCEPT ![j] = ending]
        OBVIOUS
      <3>3. call' = call \/ \E c \in Callers : call' = [call EXCEPT ![c] = NoJob]
        OBVIOUS
      <3>4. told' \in [Jobs -> {"none", "added", "fired", "removed"}]
        BY <3>1, <3>2
      <3>5. call' \in [Callers -> Jobs \cup {NoJob}]
        BY <3>1, <3>3
      <3>6. QED BY <3>4, <3>5
    <2>2. /\ phase \in {"down", "up", "stopping"} /\ now \in 0..MaxTime
          /\ inFlight \subseteq Jobs /\ running \in BOOLEAN
          /\ loopAt \in {"top", "due", "exited"} /\ dueIds \subseteq Jobs
          /\ shots \in [Jobs -> 0..2]
      BY DEF IInv, TypeOK
    <2>3. QED BY <2>1, <2>2 DEF TypeOK, RowTable
  <1>2. /\ DOMAIN jobs \subseteq Jobs /\ DOMAIN disk.rows \subseteq Jobs
        /\ call \in [Callers -> Jobs \cup {NoJob}]
        /\ told \in [Jobs -> {"none", "added", "fired", "removed"}]
    BY DEF IInv, TypeOK
  <1>3. ProcessUp'
    BY DEF ProcessUp
  <1>4. /\ \A k \in Jobs \ {j} : told'[k] = told[k]
        /\ told'[j] # "none" \/ told'[j] = told[j]
        /\ \/ told'[j] = told[j] /\ DOMAIN jobs' = DOMAIN jobs
           \/ told'[j] \in {"fired", "removed"} /\ j \notin DOMAIN jobs'
    BY <1>2
  <1>5. \A c \in Callers : call'[c] = call[c] \/ (call[c] = j /\ call'[c] = NoJob)
    BY <1>2
  <1>6. IdsAreTold'
    <2>1. \A k \in DOMAIN jobs' \cup DOMAIN disk'.rows : told'[k] # "none"
      BY <1>2, <1>4 DEF IInv, IdsAreTold
    <2>2. \A c \in Callers : call'[c] # NoJob => told'[call'[c]] # "none"
      BY <1>2, <1>4, <1>5 DEF IInv, IdsAreTold
    <2>3. \A k \in Jobs : shots'[k] > 0 => told'[k] # "none"
      BY <1>4 DEF IInv, IdsAreTold
    <2>4. QED BY <2>1, <2>2, <2>3 DEF IdsAreTold
  <1>7. OneShotsEnd'
    <2> SUFFICES ASSUME NEW k \in Jobs, shots[k] > 0
                 PROVE  /\ shots[k] = 1
                        /\ k \in DOMAIN jobs' => k \in inFlight' /\ OneShot(jobs'[k])
      BY DEF OneShotsEnd, OneShot
    <2>1. shots[k] = 1 /\ (k \in DOMAIN jobs => k \in inFlight /\ OneShot(jobs[k]))
      BY DEF IInv, OneShotsEnd
    <2>2. k \in DOMAIN jobs' => k # j
      OBVIOUS
    <2>3. QED BY <2>1, <2>2
  <1>8. InFlightExact'
    <2>1. inFlight = {call[c] : c \in Callers} \cap DOMAIN jobs
          /\ \A c, d \in Callers : call[c] = call[d] /\ call[c] # NoJob => c = d
      BY DEF IInv, InFlightExact
    <2>2. \A c, d \in Callers : call'[c] = call'[d] /\ call'[c] # NoJob => c = d
      BY <1>5, <2>1
    <2>3. CASE UNCHANGED call /\ j \in DOMAIN jobs /\ j \notin DOMAIN jobs'
      BY <2>1, <2>2, <2>3 DEF InFlightExact
    <2>4. CASE \E c \in Callers : call[c] = j /\ call' = [call EXCEPT ![c] = NoJob]
      <3>1. PICK c \in Callers : call[c] = j /\ call' = [call EXCEPT ![c] = NoJob]
        BY <2>4
      <3>2. \A d \in Callers : call'[d] # j
        BY <1>2, <2>1, <3>1
      <3>3. \A d \in Callers : call[d] # j => call'[d] = call[d]
        BY <1>5
      <3>4. inFlight' = {call'[d] : d \in Callers} \cap DOMAIN jobs'
        <4>1. ASSUME NEW k \in inFlight' PROVE k \in {call'[d] : d \in Callers} \cap DOMAIN jobs'
          <5>1. k # j /\ k \in DOMAIN jobs'
            BY <2>1
          <5>2. PICK d \in Callers : call[d] = k
            BY <2>1
          <5>3. QED BY <3>3, <5>1, <5>2
        <4>2. ASSUME NEW d \in Callers, call'[d] \in DOMAIN jobs' PROVE call'[d] \in inFlight'
          <5>1. call'[d] # NoJob
            BY <1>2, <4>2
          <5>2. call'[d] = call[d] /\ call[d] # j
            BY <1>5, <3>2, <5>1
          <5>3. QED BY <2>1, <4>2, <5>2
        <4>3. QED BY <4>1, <4>2
      <3>5. QED BY <2>2, <3>4 DEF InFlightExact
    <2>5. QED BY <2>3, <2>4
  <1>9. EnabledJobsAreScheduled'
    BY DEF EnabledJobsAreScheduled, Runnable
  <1>10. RepliesStayTrue'
    <2> SUFFICES ASSUME intact', NEW k \in Jobs
                 PROVE  /\ told'[k] = "added" => k \in DOMAIN jobs'
                        /\ told'[k] \in {"fired", "removed"} => k \notin DOMAIN jobs'
      BY <1>3 DEF RepliesStayTrue, Durable
    <2>1. /\ told[k] = "added" => k \in DOMAIN jobs
          /\ told[k] \in {"fired", "removed"} => k \notin DOMAIN jobs
      BY DEF IInv, RepliesStayTrue, Durable
    <2>2. QED BY <1>4, <2>1
  <1>11. DownIsEmpty' /\ FileFollows'
    BY <1>3 DEF DownIsEmpty, FileFollows
  <1>12. QED BY <1>1, <1>6, <1>7, <1>8, <1>9, <1>10, <1>11 DEF IInv

LEMMA FinishRunIInv ==
    ASSUME IInv, NEW c \in Callers, NEW success \in BOOLEAN, FinishRun(c, success)
    PROVE  IInv'
  <1> DEFINE j == call[c]
  <1>1. j \in Jobs /\ ProcessUp /\ call' = [call EXCEPT ![c] = NoJob] /\ inFlight' = inFlight \ {j}
        /\ UNCHANGED <<phase, now, running, loopAt, dueIds, shots>>
    BY DEF FinishRun, InFlightDone, IInv, TypeOK
  <1>2. /\ now \in Nat /\ disk.ok \in BOOLEAN /\ RowTable(disk.rows) /\ RowTable(jobs)
        /\ intact \in BOOLEAN /\ Runnable(jobs)
    BY IInvTables
  <1>3. \/ j \notin DOMAIN jobs /\ UNCHANGED <<disk, jobs, intact, told>>
        \/ /\ j \in DOMAIN jobs /\ OneShot(jobs[j])
           /\ Store(Erase(j)) /\ told' = [told EXCEPT ![j] = "fired"]
        \/ /\ j \in DOMAIN jobs /\ ~OneShot(jobs[j])
           /\ \E from \in {now, now + 1} : Store(Put(j, AfterRun(jobs[j], success, from)))
           /\ UNCHANGED told
    BY DEF FinishRun
  <1> HIDE DEF j
  <1>4. CASE j \notin DOMAIN jobs /\ UNCHANGED <<disk, jobs, intact, told>>
    <2>1. intact => disk.ok /\ DOMAIN disk.rows = DOMAIN jobs
      BY <1>1 DEF IInv, FileFollows
    <2>2. QED BY <1>1, <1>2, <1>4, <2>1, ReleaseIInv DEF j
  <1>5. CASE j \in DOMAIN jobs /\ OneShot(jobs[j])
    <2>1. Store(Erase(j)) /\ told' = [told EXCEPT ![j] = "fired"]
      BY <1>3, <1>5
    <2>2. /\ DOMAIN Erase(j) = DOMAIN jobs \ {j} /\ RowTable(Erase(j)) /\ Runnable(Erase(j))
          /\ \A k \in DOMAIN jobs \ {j} : Erase(j)[k] = jobs[k]
      BY <1>2, EraseFacts
    <2>3. /\ jobs' = Erase(j)
          /\ disk'.ok \in BOOLEAN /\ RowTable(disk'.rows) /\ intact' \in BOOLEAN
          /\ DOMAIN disk'.rows \subseteq DOMAIN disk.rows \cup DOMAIN Erase(j)
          /\ intact' => intact /\ disk'.ok /\ DOMAIN disk'.rows = DOMAIN Erase(j)
      BY <1>2, <2>1, <2>2, StoreFacts
    <2>4. j \notin DOMAIN jobs'
      BY <2>2, <2>3
    <2>5. QED BY <1>1, <2>1, <2>2, <2>3, <2>4, ReleaseIInv DEF j
  <1>6. CASE j \in DOMAIN jobs /\ ~OneShot(jobs[j])
    <2>0. UNCHANGED told
      BY <1>3, <1>6
    <2>1. PICK from \in {now, now + 1} : Store(Put(j, AfterRun(jobs[j], success, from)))
      BY <1>3, <1>6
    <2>2. jobs[j] \in Row
      BY <1>2, <1>6 DEF RowTable
    <2> DEFINE row == AfterRun(jobs[j], success, from)
    <2>3. row \in Row /\ (row.enabled => row.nextRunAt > 0)
      BY <1>2, <2>2, AfterRunFacts
    <2>4. Store(Put(j, row))
      BY <2>1
    <2> HIDE DEF row
    <2>5. /\ DOMAIN Put(j, row) = DOMAIN jobs /\ RowTable(Put(j, row)) /\ Runnable(Put(j, row))
          /\ \A k \in DOMAIN jobs \ {j} : Put(j, row)[k] = jobs[k]
      <3>1. /\ DOMAIN Put(j, row) = DOMAIN jobs \cup {j} /\ RowTable(Put(j, row))
            /\ \A k \in DOMAIN jobs \ {j} : Put(j, row)[k] = jobs[k]
            /\ Runnable(Put(j, row))
        BY <1>1, <1>2, <2>3, PutFacts
      <3>2. DOMAIN jobs \cup {j} = DOMAIN jobs
        BY <1>6
      <3>3. QED BY <3>1, <3>2
    <2>6. /\ jobs' = Put(j, row)
          /\ disk'.ok \in BOOLEAN /\ RowTable(disk'.rows) /\ intact' \in BOOLEAN
          /\ DOMAIN disk'.rows \subseteq DOMAIN disk.rows \cup DOMAIN Put(j, row)
          /\ intact' => intact /\ disk'.ok /\ DOMAIN disk'.rows = DOMAIN Put(j, row)
      BY <1>2, <2>4, <2>5, StoreFacts
    <2>7. shots[j] = 0
      BY <1>1, <1>6 DEF IInv, OneShotsEnd, TypeOK
    <2>8. QED BY <1>1, <2>0, <2>5, <2>6, <2>7, ReleaseIInv DEF j
  <1>7. QED BY <1>3, <1>4, <1>5, <1>6

LEMMA RemoveJobIInv ==
    ASSUME IInv, NEW j \in Jobs, RemoveJob(j)
    PROVE  IInv'
  <1>1. /\ now \in Nat /\ disk.ok \in BOOLEAN /\ RowTable(disk.rows) /\ RowTable(jobs)
        /\ intact \in BOOLEAN /\ Runnable(jobs)
    BY IInvTables
  <1>2. /\ DOMAIN Erase(j) = DOMAIN jobs \ {j} /\ RowTable(Erase(j)) /\ Runnable(Erase(j))
        /\ \A k \in DOMAIN jobs \ {j} : Erase(j)[k] = jobs[k]
    BY <1>1, EraseFacts
  <1>3. /\ jobs' = Erase(j)
        /\ disk'.ok \in BOOLEAN /\ RowTable(disk'.rows) /\ intact' \in BOOLEAN
        /\ DOMAIN disk'.rows \subseteq DOMAIN disk.rows \cup DOMAIN Erase(j)
        /\ intact' => intact /\ disk'.ok /\ DOMAIN disk'.rows = DOMAIN Erase(j)
    BY <1>1, <1>2, StoreFacts DEF RemoveJob
  <1>4. /\ ProcessUp /\ j \in DOMAIN jobs /\ inFlight' = inFlight \ {j}
        /\ told' = [told EXCEPT ![j] = "removed"]
        /\ UNCHANGED <<phase, now, running, loopAt, dueIds, shots, call>>
    BY DEF RemoveJob
  <1>5. QED BY <1>2, <1>3, <1>4, ReleaseIInv

LEMMA AddJobIInv ==
    ASSUME IInv, NEW j \in Jobs, AddJob(j)
    PROVE  IInv'
  <1>1. PICK spec \in Specs, enabled \in BOOLEAN, next \in NextRuns :
            Store(Put(j, Scheduled([kind |-> spec.kind, at |-> spec.at,
                                    deleteAfterRun |-> spec.deleteAfterRun,
                                    enabled |-> enabled, nextRunAt |-> next, errors |-> 0])))
    BY DEF AddJob
  <1> DEFINE row == Scheduled([kind |-> spec.kind, at |-> spec.at,
                               deleteAfterRun |-> spec.deleteAfterRun,
                               enabled |-> enabled, nextRunAt |-> next, errors |-> 0])
  <1>2. row \in Row /\ row.nextRunAt > 0
    BY IInvTables, AddedRow
  <1>3. Store(Put(j, row))
    BY <1>1
  <1> HIDE DEF row
  <1>4. /\ ProcessUp /\ told[j] = "none" /\ told' = [told EXCEPT ![j] = "added"]
        /\ UNCHANGED <<phase, now, inFlight, running, loopAt, dueIds, call>>
        /\ shots' = shots
    BY DEF AddJob
  <1>5. j \notin DOMAIN jobs
    BY <1>4 DEF IInv, IdsAreTold
  <1>6. QED BY <1>2, <1>3, <1>4, <1>5, PutIInv

LEMMA UpdateJobIInv ==
    ASSUME IInv, NEW j \in Jobs, UpdateJob(j)
    PROVE  IInv'
  <1>1. PICK spec \in Specs, enabled \in BOOLEAN, next \in NextRuns \cup {jobs[j].nextRunAt} :
            Store(Put(j, Scheduled([jobs[j] EXCEPT
                      !.kind = spec.kind, !.at = spec.at, !.enabled = enabled,
                      !.deleteAfterRun = spec.deleteAfterRun, !.nextRunAt = next])))
    BY DEF UpdateJob
  <1> DEFINE row == Scheduled([jobs[j] EXCEPT
                      !.kind = spec.kind, !.at = spec.at, !.enabled = enabled,
                      !.deleteAfterRun = spec.deleteAfterRun, !.nextRunAt = next])
  <1>2. jobs[j] \in Row /\ now \in Nat
    BY IInvTables DEF UpdateJob, RowTable
  <1>3. row \in Row /\ row.nextRunAt > 0
    BY <1>2, UpdatedRow
  <1>4. Store(Put(j, row))
    BY <1>1
  <1> HIDE DEF row
  <1>5. /\ ProcessUp /\ j \in DOMAIN jobs /\ UNCHANGED told
        /\ UNCHANGED <<phase, now, inFlight, running, loopAt, dueIds, call>>
        /\ shots' = [shots EXCEPT ![j] = 0]
    BY DEF UpdateJob
  <1>6. QED BY <1>3, <1>4, <1>5, PutIInv

LEMMA SetEnabledIInv ==
    ASSUME IInv, NEW j \in Jobs, NEW enabled \in BOOLEAN, SetEnabled(j, enabled)
    PROVE  IInv'
  <1> DEFINE set == [jobs[j] EXCEPT !.enabled = enabled]
             row == IF enabled THEN Scheduled(set) ELSE set
  <1>1. jobs[j] \in Row /\ now \in Nat
    BY IInvTables DEF SetEnabled, RowTable
  <1>2. /\ row \in Row /\ (row.enabled => row.nextRunAt > 0)
        /\ row.kind = jobs[j].kind /\ row.deleteAfterRun = jobs[j].deleteAfterRun
    BY <1>1, EnabledRow
  <1>3. Store(Put(j, row))
    BY DEF SetEnabled
  <1> HIDE DEF row
  <1>4. /\ ProcessUp /\ j \in DOMAIN jobs /\ UNCHANGED told /\ shots' = shots
        /\ UNCHANGED <<phase, now, inFlight, running, loopAt, dueIds, call>>
    BY DEF SetEnabled
  <1>5. QED BY <1>2, <1>3, <1>4, PutIInv

\* A run of j starts: nobody was executing j, and now c is.
LEMMA StartRunIInv ==
    ASSUME IInv, ProcessUp, NEW c \in Callers, NEW j \in Jobs, call[c] = NoJob, Startable(j),
           StartRun(c, j), dueIds' \subseteq Jobs
    PROVE  IInv'
  <1>1. /\ j \in DOMAIN jobs /\ j \notin inFlight
        /\ call' = [call EXCEPT ![c] = j] /\ inFlight' = inFlight \cup {j}
        /\ shots' = [shots EXCEPT ![j] = IF OneShot(jobs[j]) /\ @ < 2 THEN @ + 1 ELSE @]
        /\ UNCHANGED <<phase, now, disk, jobs, running, loopAt, told, intact>>
    BY DEF StartRun, Startable
  <1>2. /\ DOMAIN jobs \subseteq Jobs /\ DOMAIN disk.rows \subseteq Jobs
        /\ call \in [Callers -> Jobs \cup {NoJob}] /\ shots \in [Jobs -> 0..2]
        /\ told \in [Jobs -> {"none", "added", "fired", "removed"}]
    BY DEF IInv, TypeOK
  <1>3. /\ \A d \in Callers \ {c} : call'[d] = call[d]
        /\ call'[c] = j
        /\ \A k \in Jobs \ {j} : shots'[k] = shots[k]
    BY <1>1, <1>2
  <1>4. shots[j] = 0 /\ shots'[j] \in {0, 1} /\ (shots'[j] = 1 => OneShot(jobs[j]))
    <2>1. shots[j] = 0
      BY <1>1, <1>2 DEF IInv, OneShotsEnd
    <2>2. QED BY <1>1, <1>2, <2>1
  <1>5. told[j] # "none" /\ \A k \in Jobs : told'[k] = told[k]
    BY <1>1, <1>2 DEF IInv, IdsAreTold
  <1>6. TypeOK'
    <2>1. /\ call' \in [Callers -> Jobs \cup {NoJob}] /\ inFlight' \subseteq Jobs
          /\ told' \in [Jobs -> {"none", "added", "fired", "removed"}]
      BY <1>1, <1>2 DEF IInv, TypeOK
    <2>2. shots' \in [Jobs -> 0..2]
      BY <1>1, <1>2
    <2>3. /\ phase \in {"down", "up", "stopping"} /\ now \in 0..MaxTime
          /\ disk.ok \in BOOLEAN /\ RowTable(disk.rows) /\ RowTable(jobs)
          /\ running \in BOOLEAN /\ loopAt \in {"top", "due", "exited"} /\ intact \in BOOLEAN
      BY TypeOKTables DEF IInv
    <2>4. QED BY <1>1, <2>1, <2>2, <2>3 DEF TypeOK, RowTable
  <1>7. ProcessUp'
    BY <1>1 DEF ProcessUp
  <1>8. IdsAreTold'
    <2>1. \A k \in DOMAIN jobs \cup DOMAIN disk.rows : told'[k] # "none"
      BY <1>2, <1>3, <1>5 DEF IInv, IdsAreTold
    <2>2. \A d \in Callers : call'[d] # NoJob => told'[call'[d]] # "none"
      BY <1>2, <1>3, <1>5 DEF IInv, IdsAreTold
    <2>3. \A k \in Jobs : shots'[k] > 0 => told'[k] # "none"
      BY <1>3, <1>5 DEF IInv, IdsAreTold
    <2>4. QED BY <1>1, <2>1, <2>2, <2>3 DEF IdsAreTold
  <1>9. OneShotsEnd'
    BY <1>1, <1>3, <1>4 DEF IInv, OneShotsEnd, OneShot
  <1>10. InFlightExact'
    <2>1. inFlight = {call[d] : d \in Callers} \cap DOMAIN jobs
          /\ \A d, e \in Callers : call[d] = call[e] /\ call[d] # NoJob => d = e
      BY DEF IInv, InFlightExact
    <2>2. \A d \in Callers : call[d] # j
      BY <1>1, <2>1
    <2>3. \A d, e \in Callers : call'[d] = call'[e] /\ call'[d] # NoJob => d = e
      BY <1>3, <2>1, <2>2
    <2>4. NoJob \notin DOMAIN jobs
      BY <1>2
    <2>5. inFlight' = {call'[d] : d \in Callers} \cap DOMAIN jobs
      <3>1. ASSUME NEW k \in inFlight' PROVE k \in {call'[d] : d \in Callers} \cap DOMAIN jobs
        <4>1. CASE k = j
          BY <1>1, <1>3, <4>1
        <4>2. CASE k \in inFlight
          <5>1. PICK d \in Callers : call[d] = k /\ k \in DOMAIN jobs
            BY <2>1, <4>2
          <5>2. d # c
            BY <2>4, <5>1
          <5>3. QED BY <1>3, <5>1, <5>2
        <4>3. QED BY <1>1, <3>1, <4>1, <4>2
      <3>2. ASSUME NEW d \in Callers, call'[d] \in DOMAIN jobs PROVE call'[d] \in inFlight'
        <4>1. CASE d = c
          BY <1>1, <1>3, <4>1
        <4>2. CASE d # c
          BY <1>1, <1>3, <2>1, <3>2, <4>2
        <4>3. QED BY <4>1, <4>2
      <3>3. QED BY <3>1, <3>2
    <2>6. QED BY <1>1, <2>3, <2>5 DEF InFlightExact
  <1>11. EnabledJobsAreScheduled'
    BY <1>1 DEF IInv, EnabledJobsAreScheduled
  <1>12. RepliesStayTrue'
    <2> SUFFICES ASSUME intact, NEW k \in Jobs
                 PROVE  /\ told'[k] = "added" => k \in DOMAIN jobs
                        /\ told'[k] \in {"fired", "removed"} => k \notin DOMAIN jobs
      BY <1>1, <1>7 DEF RepliesStayTrue, Durable
    <2>1. /\ told[k] = "added" => k \in DOMAIN jobs
          /\ told[k] \in {"fired", "removed"} => k \notin DOMAIN jobs
      BY DEF IInv, RepliesStayTrue, Durable
    <2>2. QED BY <1>3, <1>5, <2>1
  <1>13. DownIsEmpty' /\ FileFollows'
    BY <1>1, <1>7 DEF DownIsEmpty, FileFollows, IInv
  <1>14. QED BY <1>6, <1>8, <1>9, <1>10, <1>11, <1>12, <1>13 DEF IInv

\* A step that touches neither the jobs nor who is executing them.
LEMMA QuietIInv ==
    ASSUME IInv, UNCHANGED <<disk, jobs, inFlight, call, history>>, ProcessUp' = ProcessUp,
           phase' \in {"down", "up", "stopping"}, now' \in 0..MaxTime, running' \in BOOLEAN,
           loopAt' \in {"top", "due", "exited"}, dueIds' \subseteq Jobs
    PROVE  IInv'
  <1> USE DEF history
  <1>1. TypeOK'
    <2>1. /\ disk.ok \in BOOLEAN /\ RowTable(disk.rows) /\ RowTable(jobs)
          /\ inFlight \subseteq Jobs /\ call \in [Callers -> Jobs \cup {NoJob}]
          /\ told \in [Jobs -> {"none", "added", "fired", "removed"}]
          /\ shots \in [Jobs -> 0..2] /\ intact \in BOOLEAN
      BY TypeOKTables DEF IInv
    <2>2. QED BY <2>1 DEF TypeOK, RowTable
  <1>2. DownIsEmpty' /\ IdsAreTold' /\ FileFollows'
    BY DEF IInv, DownIsEmpty, IdsAreTold, FileFollows
  <1>3. OneShotsEnd' /\ InFlightExact' /\ EnabledJobsAreScheduled'
    BY DEF IInv, OneShotsEnd, OneShot, InFlightExact, EnabledJobsAreScheduled
  <1>4. RepliesStayTrue'
    BY DEF IInv, RepliesStayTrue, Durable
  <1>5. QED BY <1>1, <1>2, <1>3, <1>4 DEF IInv

LEMMA LoopIInv ==
    ASSUME IInv, LoopStep
    PROVE  IInv'
  <1>1. /\ phase \in {"down", "up", "stopping"} /\ now \in 0..MaxTime /\ running \in BOOLEAN
        /\ loopAt \in {"top", "due", "exited"} /\ dueIds \subseteq Jobs /\ Due \subseteq Jobs
        /\ Loop \in Callers
    BY DEF IInv, TypeOK, Due, Callers
  <1>2. CASE LoopScan \/ LoopSleep
    <2>1. UNCHANGED <<disk, jobs, inFlight, call, history, phase, now, running>>
      BY <1>2 DEF LoopScan, LoopSleep, history
    <2>2. ProcessUp' = ProcessUp
      BY <2>1 DEF ProcessUp
    <2>3. loopAt' \in {"top", "due", "exited"} /\ dueIds' \subseteq Jobs
      BY <1>1, <1>2 DEF LoopScan, LoopSleep
    <2>4. QED BY <1>1, <2>1, <2>2, <2>3, QuietIInv
  <1>3. ASSUME NEW j \in Jobs, LoopRun(j) PROVE IInv'
    <2>1. /\ ProcessUp /\ call[Loop] = NoJob /\ dueIds' \subseteq Jobs
          /\ \/ Startable(j) /\ StartRun(Loop, j)
             \/ UNCHANGED <<phase, now, disk, jobs, inFlight, running, loopAt, call, history>>
      BY <1>1, <1>3 DEF LoopRun
    <2>2. CASE Startable(j) /\ StartRun(Loop, j)
      BY <1>1, <2>1, <2>2, StartRunIInv
    <2>3. CASE UNCHANGED <<phase, now, disk, jobs, inFlight, running, loopAt, call, history>>
      <3>1. ProcessUp' = ProcessUp /\ UNCHANGED <<disk, jobs, inFlight, call, history>>
        BY <2>3 DEF ProcessUp
      <3>2. QED BY <1>1, <2>1, <2>3, <3>1, QuietIInv
    <2>4. QED BY <2>1, <2>2, <2>3
  <1>4. QED BY <1>2, <1>3 DEF LoopStep

\* The process ends: what is left is jobs.json.
LEMMA DeathIInv ==
    ASSUME IInv, ProcessUp, phase' = "down", MemoryLost, UNCHANGED <<now, disk, history>>
    PROVE  IInv'
  <1>1. /\ DOMAIN jobs' = {} /\ RowTable(jobs') /\ inFlight' = {} /\ dueIds' = {}
        /\ running' = FALSE /\ loopAt' = "exited"
    BY NoJobsFacts DEF MemoryLost
  <1>2. call' = [c \in Callers |-> NoJob] /\ \A c \in Callers : call'[c] = NoJob
    BY DEF MemoryLost
  <1>3. UNCHANGED <<told, shots, intact>>
    BY DEF history
  <1>4. ~ProcessUp'
    BY DEF ProcessUp
  <1>5. TypeOK'
    <2>1. /\ now \in 0..MaxTime /\ disk.ok \in BOOLEAN /\ RowTable(disk.rows)
          /\ told \in [Jobs -> {"none", "added", "fired", "removed"}]
          /\ shots \in [Jobs -> 0..2] /\ intact \in BOOLEAN
      BY TypeOKTables DEF IInv
    <2>2. call' \in [Callers -> Jobs \cup {NoJob}]
      BY <1>2
    <2>3. QED BY <1>1, <1>3, <2>1, <2>2 DEF TypeOK, RowTable
  <1>6. DownIsEmpty' /\ IdsAreTold' /\ FileFollows' /\ OneShotsEnd'
    BY <1>1, <1>2, <1>3, <1>4
       DEF IInv, DownIsEmpty, IdsAreTold, FileFollows, OneShotsEnd, TypeOK
  <1>7. InFlightExact' /\ EnabledJobsAreScheduled'
    BY <1>1, <1>2 DEF InFlightExact, EnabledJobsAreScheduled
  <1>8. RepliesStayTrue'
    <2> SUFFICES ASSUME intact, NEW j \in Jobs
                 PROVE  /\ told[j] = "added" => j \in DOMAIN disk.rows
                        /\ told[j] \in {"fired", "removed"} => j \notin DOMAIN disk.rows
      BY <1>3, <1>4 DEF RepliesStayTrue, Durable
    <2>1. DOMAIN disk.rows = DOMAIN jobs
      BY DEF IInv, FileFollows
    <2>2. QED BY <2>1 DEF IInv, RepliesStayTrue, Durable
  <1>9. QED BY <1>5, <1>6, <1>7, <1>8 DEF IInv

LEMMA BootIInv ==
    ASSUME IInv, Boot
    PROVE  IInv'
  <1>1. /\ phase = "down" /\ phase' = "up" /\ running' = TRUE /\ loopAt' = "top"
        /\ jobs' = IF disk.ok THEN [j \in DOMAIN disk.rows |-> Scheduled(disk.rows[j])]
                              ELSE NoJobs
        /\ shots' = [j \in Jobs |-> 0]
        /\ UNCHANGED <<now, disk, inFlight, dueIds, call, told, intact>>
    BY DEF Boot
  <1>2. now \in Nat /\ RowTable(disk.rows)
    BY IInvTables
  <1>3. /\ RowTable(jobs') /\ Runnable(jobs')
        /\ DOMAIN jobs' \subseteq DOMAIN disk.rows
        /\ disk.ok => DOMAIN jobs' = DOMAIN disk.rows
    <2>1. CASE ~disk.ok
      BY <1>1, <2>1, NoJobsFacts
    <2>2. CASE disk.ok
      <3>1. \A j \in DOMAIN disk.rows :
               Scheduled(disk.rows[j]) \in Row /\ Scheduled(disk.rows[j]).nextRunAt > 0
        BY <1>2, ScheduledFacts DEF RowTable
      <3>2. QED BY <1>1, <1>2, <2>2, <3>1 DEF RowTable, Runnable
    <2>3. QED BY <2>1, <2>2
  <1>4. ~ProcessUp /\ ProcessUp'
    BY <1>1 DEF ProcessUp
  <1>5. inFlight = {} /\ \A c \in Callers : call[c] = NoJob
    BY <1>4 DEF IInv, DownIsEmpty
  <1>6. TypeOK'
    <2>1. /\ now \in 0..MaxTime /\ disk.ok \in BOOLEAN /\ RowTable(disk.rows)
          /\ inFlight \subseteq Jobs /\ dueIds \subseteq Jobs
          /\ call \in [Callers -> Jobs \cup {NoJob}]
          /\ told \in [Jobs -> {"none", "added", "fired", "removed"}] /\ intact \in BOOLEAN
      BY TypeOKTables DEF IInv
    <2>2. shots' \in [Jobs -> 0..2]
      BY <1>1
    <2>3. QED BY <1>1, <1>3, <2>1, <2>2 DEF TypeOK, RowTable
  <1>7. \A j \in Jobs : shots'[j] = 0
    BY <1>1
  <1>8. DownIsEmpty' /\ IdsAreTold' /\ FileFollows' /\ OneShotsEnd'
    BY <1>1, <1>3, <1>4, <1>5, <1>7
       DEF IInv, DownIsEmpty, IdsAreTold, FileFollows, OneShotsEnd
  <1>9. InFlightExact' /\ EnabledJobsAreScheduled'
    <2>1. NoJob \notin DOMAIN jobs'
      BY <1>3 DEF RowTable
    <2>2. QED BY <1>1, <1>3, <1>5, <2>1 DEF InFlightExact, EnabledJobsAreScheduled, Runnable
  <1>10. RepliesStayTrue'
    <2> SUFFICES ASSUME intact, NEW j \in Jobs
                 PROVE  /\ told[j] = "added" => j \in DOMAIN jobs'
                        /\ told[j] \in {"fired", "removed"} => j \notin DOMAIN jobs'
      BY <1>1, <1>4 DEF RepliesStayTrue, Durable
    <2>1. DOMAIN jobs' = DOMAIN disk.rows
      BY <1>3 DEF IInv, FileFollows
    <2>2. QED BY <1>4, <2>1 DEF IInv, RepliesStayTrue, Durable
  <1>11. QED BY <1>6, <1>8, <1>9, <1>10 DEF IInv

LEMMA NextIInv == IInv /\ [Next]_vars => IInv'
  <1> SUFFICES ASSUME IInv, [Next]_vars PROVE IInv'
    OBVIOUS
  <1>1. /\ phase \in {"down", "up", "stopping"} /\ now \in 0..MaxTime /\ running \in BOOLEAN
        /\ loopAt \in {"top", "due", "exited"} /\ dueIds \subseteq Jobs
    BY DEF IInv, TypeOK
  <1>2. CASE Client
    <2> SUFFICES ASSUME NEW j \in Jobs,
                        \/ AddJob(j) \/ UpdateJob(j) \/ RemoveJob(j)
                        \/ \E enabled \in BOOLEAN : SetEnabled(j, enabled)
                        \/ \E c \in Http, mode \in {"force", "due"} : RunNow(c, j, mode)
                 PROVE  IInv'
      BY <1>2 DEF Client
    <2>1. ASSUME NEW c \in Http, NEW mode \in {"force", "due"}, RunNow(c, j, mode)
          PROVE  IInv'
      <3>1. /\ ProcessUp /\ call[c] = NoJob /\ Startable(j) /\ StartRun(c, j)
            /\ c \in Callers /\ dueIds' \subseteq Jobs
        BY <1>1, <2>1 DEF RunNow, Callers
      <3>2. QED BY <3>1, StartRunIInv
    <2>2. QED BY <2>1, AddJobIInv, UpdateJobIInv, RemoveJobIInv, SetEnabledIInv
  <1>3. CASE LoopStep
    BY <1>3, LoopIInv
  <1>4. CASE Tick
    <2>1. now' \in 0..MaxTime /\ UNCHANGED <<phase, disk, memory, history>>
      BY <1>1, <1>4 DEF Tick
    <2>2. ProcessUp' = ProcessUp
      BY <2>1 DEF ProcessUp
    <2>3. QED BY <1>1, <2>1, <2>2, QuietIInv DEF memory
  <1>5. CASE \E c \in Callers : Finish(c)
    BY <1>5, FinishRunIInv DEF Finish
  <1>6. CASE Boot
    BY <1>6, BootIInv
  <1>7. CASE Stop
    <2>1. /\ phase = "up" /\ phase' = "stopping" /\ running' = FALSE
          /\ UNCHANGED <<now, disk, jobs, inFlight, loopAt, dueIds, call, history>>
      BY <1>7 DEF Stop
    <2>2. ProcessUp' = ProcessUp
      BY <2>1 DEF ProcessUp
    <2>3. QED BY <1>1, <2>1, <2>2, QuietIInv
  <1>8. CASE Exit \/ Crash
    BY <1>8, DeathIInv DEF Exit, Crash, ProcessUp
  <1>9. CASE UNCHANGED vars
    <2>1. UNCHANGED <<phase, now, running, loopAt, dueIds, disk, jobs, inFlight, call, history>>
      BY <1>9 DEF vars, memory
    <2>2. ProcessUp' = ProcessUp
      BY <2>1 DEF ProcessUp
    <2>3. QED BY <1>1, <2>1, <2>2, QuietIInv
  <1>10. QED BY <1>2, <1>3, <1>4, <1>5, <1>6, <1>7, <1>8, <1>9 DEF Next

LEMMA Inductive == Spec => []IInv
  <1>1. Init => IInv
    BY InitIInv
  <1>2. IInv /\ [Next]_vars => IInv'
    BY NextIInv
  <1>3. QED BY <1>1, <1>2, PTL DEF Spec

-----------------------------------------------------------------------------
(* Theorems                                                                *)

\* Every variable has its type.
THEOREM TypeCorrect == Spec => []TypeOK
  <1>1. IInv => TypeOK
    BY DEF IInv
  <1>2. QED BY <1>1, Inductive, PTL

\* The in-flight set names exactly the jobs on record that a thread is
\* executing, each executed by one thread (executeRun, removeJob).
THEOREM InFlightIsExact == Spec => []InFlightExact
  <1>1. IInv => InFlightExact
    BY DEF IInv
  <1>2. QED BY <1>1, Inductive, PTL

\* No enabled job is left without a next run (parseJobSpec, updateJob,
\* setEnabled, executeRun, init).
THEOREM EnabledAreScheduled == Spec => []EnabledJobsAreScheduled
  <1>1. IInv => EnabledJobsAreScheduled
    BY DEF IInv
  <1>2. QED BY <1>1, Inductive, PTL

\* A one-shot job that nobody edits fires at most once while a process lives
\* (executeRun, whichever of the loop and runNow calls it).
THEOREM OneShotsFireOnce == Spec => []OneShotOnce
  <1>1. IInv => OneShotOnce
    BY DEF IInv, OneShotsEnd, OneShotOnce, TypeOK
  <1>2. QED BY <1>1, Inductive, PTL

\* Until a write of jobs.json fails, accepted jobs stay, also over runs that a
\* crash cuts short, and the removed and the used-up ones do not come back,
\* over any stops, crashes and restarts.
THEOREM RepliesHold == Spec => []RepliesStayTrue
  <1>1. IInv => RepliesStayTrue
    BY DEF IInv
  <1>2. QED BY <1>1, Inductive, PTL
=============================================================================

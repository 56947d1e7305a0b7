# A verification development of the ClawForge gateway

The gateway is one C++ process (`src/src/app/Application.cpp`): an HTTP server, a
Telegram poller, a cron thread and a task worker share an agent, a session store, an
event bus and a handful of JSON files; CLI commands are processes of their own that
edit the same files. This directory models its concurrent core and its decisions in
TLA+, checks the models with TLC and proves the central invariants with TLAPS.

## 1. Inventory

| Component | State it keeps | Operations | Talks to | What makes it correct |
|---|---|---|---|---|
| Task lane `orchestration/TaskQueue` | `queue_`, `tasks_`, `cancelFlags_`, `running_`, `tasks.json` | enqueue, cancel, get, list, events, init, start, stop, worker loop | agent (execute), bus | queue, rows, flags, worker and file agree; work runs at most once; replies stay true; ledger numbers have no gap; waiting tasks finish |
| Event bus `core/EventBus` | ring of 1000 events, `nextId_`, a cursor per subscriber | publish, subscribe, waitNext, recent | everybody publishes, SSE reads | order, no duplicates, no loss but by overrun, no lost wakeup |
| Cron scheduler `automation/CronScheduler` | `jobs_`, `inFlight_`, `running_`, `jobs.json`, run logs | add, update, enable, remove, runNow, loop, init, start, stop | agent (callback), bus | a job never runs twice at once, a due job fires, an enabled job has a next run, accepted jobs survive |
| Agent engine `agent/AgentEngine` | a timed mutex per session key | handleMessage, routeInboundMessage, commands | session store, model, tools, bus | turns of one session do not interleave; a prompt ends with its own message; a reply given is on record; a busy caller leaves no trace |
| Session store `session/SessionStore` | index and one JSONL file per session | ensure, append, load, list | files | append order; no two sessions share a transcript; what was answered outlives a torn or overwritten index |
| Telegram `channels/TelegramBot`, `TelegramPairingStore` | update offset; pairing requests and file | poll loop, ensurePending, approveByCode | agent; the CLI process edits the same file | no update is lost, none handled twice by one process; nobody gets in unapproved |
| Rate limiter `security/RateLimiter` | time stamps per source | allow | nobody: nothing constructs one | never more than `max` in a window |
| HTTP server `http/HttpServer` | none of its own | routes, SSE | all of the above | one operation per route; shutdown order |
| Browser relay `browser/BrowserRelay` | tabs, active tab, snapshot references | open, navigate, snapshot, act | network | a reference names the element it was given for; a typed value stays with its control; the active target exists |
| Auth profiles `models/AuthProfiles`, LLM client `llm/LlmClient` | profiles, active and order per provider, one file | add, login, use, order, remove; complete | model provider; each command is a process | ids in active and order exist; no expired token while a live one is there |
| Tool registry `tools/ToolRegistry` | tools and policy | call, list, setPolicy | agent, HTTP | a deny of any scope wins, the narrowest allow list counts |
| Gateway life cycle, CLI `main.cpp` | pid file; edits of the JSON files | start, stop, status, CRUD commands | a running gateway, through HTTP or its files | one gateway per state directory |
| Config, logger, audit, shell, time, files | configuration | read, append | files | pure I/O, not modelled beyond `writeText` |

How they interact: HTTP threads call one operation of one component per request. The
task worker and the cron thread call the agent outside of their mutex. Every component
publishes on the bus, whose mutex is a leaf. `Application::stop` stops HTTP, Telegram,
cron and the lane in this order, from the main thread or from the signal handler.

What is hard here: handlers racing the worker and the cron loop around an unlocked
callback; a stop without the mutex of the condition variable it notifies; lists of
ids used after the lock is gone; files that are truncated before they are written and
whose write result nobody reads; state rebuilt from such files after a crash; two
processes that each write their whole copy of one file; numbers given to clients that
must survive a rebuild. The list with line numbers is `hazards` in `PROJECT.json`.

## 2. Modules

| Module | Models |
|---|---|
| `TaskRecord` | rows and ledgers of the task lane as pure operators: `appendEvent`, recovery, the events query |
| `TaskQueue` | the lane: clients, worker, process, `tasks.json` |
| `TaskLane` | the lane's promise to its clients; no queue, file, thread or process |
| `TaskEvents` | a client paging through a ledger while the lane writes it |
| `EventBus` | publishers, connections, the condition variable |
| `CronScheduler` | clients, manual runs, the loop, the clock, `jobs.json` |
| `SessionStore` | the session index, transcripts and what of them goes into a prompt, as pure operators |
| `AgentEngine` | turns of concurrent callers over that store, the session mutexes, the writers that go past them |
| `TelegramPairing` | the server's updates, the polling bot, pairing requests in memory and file, pairing commands |
| `BrowserRelay` | processes that share the browser's state file, targets, refs, forms, waits |
| `ModelAccess` | the profile file, the commands that edit it, the gateway's chain of models |
| `ToolPolicy` | may a `/tool` command run: scoped policy, runtime policy, context (pure) |
| `CronCalendar` | cron expressions and the next run (pure), with its declarative definition `IsNextRun` |
| `CronJobSpec` | JSON to job and back, patches (pure), with `ReadBack` and `EditIsExact` as definitions of what is right |
| `Picks` | the elements of a sequence, or their indices, that pass a test, in order (pure; used by `SessionStore` and `ModelAccess`) |
| `MC*` | the same with values for TLC; `MCDecisions` puts `ModelAccess` and the three pure modules together |
| `TaskQueueProofs`, `EventBusProofs`, `CronSchedulerProofs`, `TelegramPairingProofs`, `AgentEngineProofs`, `BrowserRelayProofs`, `DecisionProofs` | theorems; `PickProofs` holds the lemmas on `Picks` that `AgentEngineProofs` and `DecisionProofs` cite |

### TaskQueue

A critical section of `mu_` is one action: `Enqueue`, the three branches of `cancel`,
`Take` and `Finish` of the worker. The worker's program counter `pc` marks the points
between them, where others may step in: before `Execute`, during the execution, before
`Publish`. The one place where holding the mutex does not make a section atomic is the
worker's wait, because `stop()` changes `running_` and notifies without taking `mu_`.
So the wait is split into the test (`Block`), the sleep (`Sleep`) and the 250 ms
(`TimedOut`); `MutexFree` keeps the handlers out in between, but not `Stop`.

`disk` is `tasks.json`. `Save` has three outcomes: the new rows; the old ones, if the
file cannot be opened; a file that does not parse, if the disk is full or the process
dies after the truncation. `SaveFaults` says which may happen. `Boot` is `init` and
`start`: rows are recovered, the queue is rebuilt in any order (rows are saved in the
order of a hash table) and the file is written back; `BootRefused` is `init`
returning false. Payloads, time stamps and texts are not kept in a row: only status and
ledger are looked at. `executed` and `promise` are history variables.

### EventBus

`Publish` is the section under the mutex, `NotifyAll` the call after it; a reader may
do anything in between. `waitNext` is `FallAsleep`, `TakeNext` and `TimeOut`; readers in
`Untimed` pass a timeout of 0 or less. Spurious wakeups re-test the predicate and
change nothing. `log`, `opened` and `received` are history variables.

### CronScheduler

The sections of `executeRun` before and after the callback are `StartRun` and
`FinishRun`; between them `call[c]` is the job that thread `c` executes. The loop is
`LoopScan` (the list of due ids), `LoopRun` (the next one) and `LoopSleep`. Time is a
counter that ticks at any moment. A tick is a minute for the cron schedules: their next run is
the first match in a later minute than the one given, and the second that the code
adds to the end of a run may push it into the next minute. `saveUnsafe` behaves like
the lane's `Save`; a file that does not parse is read as no jobs. Consecutive errors
are counted without a cap, as in the code; `MaxErrors` bounds them in the guard of a failing run. A client may give
`nextRunAt` itself (`NextRuns`, 0 for none), in a new job and in an edit.

### AgentEngine and SessionStore

`call[c]` is where thread `c` is in `handleMessage`: `Arrive` enters it, `Lock` and
`GiveUp` are the two ends of `try_lock_for`, `Open` writes the message (`ensureSession`
and `appendMessage`, both under the store's mutex and nothing of the engine between them),
`Load` cuts the prompt from the history, `Answer` and `Fail` are the model or the command
coming back. `Record` is one step although `ensureSession` and `appendMessage` take the
store's mutex one after the other: the session's own mutex keeps turns of that session out, other
sessions have other ids and files, and whichever of a turn and of `Note`, the heartbeat callback,
comes first opens `main`.
The CLI is a second process with its own index: `CliOpen` reads the file, `CliWrite`
appends and overwrites it; each process may find the file empty because the other is writing it (`Read`). `CrashInSave` and `CliDies` die with the index
written or torn and the line not yet out: `appendMessage` writes the index while the line is in the
buffer of its stream. A line
says which turn it belongs to, its role and whether a turn wrote it (`locked`). Ids are
the number of the opening message, because the code draws 128 random bits.

### TelegramPairing

`Poll` is `getUpdates`: it confirms everything before the offset and returns some first
part of the rest (none when the answer is lost). `Handle` takes an update of the batch as far as the decision:
offset, access policy, pending request and its file (`Skip`, `Admit`, `Refuse`). `Reply` is what follows on
the same thread, the model call and `sendMessage`, whose `curl`s have no time limit; in between, `now` is the
decision, and the thread may stay there for ever. `Down` loses offset, batch and
requests; `Boot` starts from the file at offset 0. A pairing command is `CliLoad`,
`CliSaveBack` (the store's `init` writes what it has read), `CliApprove` or `CliLeave`, with the
gateway free to act between them. Either process may read a file that the other is in the middle of writing
(`Read`) and may die in a write of its own (`CrashInSave`, `CliDies`); such a file counts as
empty. `handled` and `approved` are history variables.

### BrowserRelay

Every request takes its process's mutex, reads the file, works on the copy and writes it
whole: `Load`, one request action, the steps of its save; `Leave` is a request that fails, only
reads, or dies. A save is `nativeSaveStateLocked` in its steps: the request action writes the temporary
file, which all processes share (`Saves`; a full disk or a second writer leaves it torn), `Rename` puts
whatever is in that file by now in the place of the state file, and when the rename fails `Truncate` and `Overwrite`
write in place. Processes interleave between all of these, and a file that does not parse reads as the
empty state (`Read`). `Rebuilt` is `rebuildRefs`:
signatures looked up among the old refs, new numbers above the highest, typed values kept
for refs that are still there. Ids are numbers; `MapOrder` is the order of their texts, in which the `std::map`s are
walked: it decides which of several refs with one signature is kept (`LastKey`: `e9`, not `e10`) and which target
`begin()` is (`FirstKey`). `act.wait` polls without the mutex, so it is a state of its own
(`WaitStart`, `WaitPoll`, `WaitTimeout`, `WaitEnd`). The document root is looked up under
another name than it is stored under, which the model keeps. Parsing HTML is
the constant `Elements`; whether a page loads is `Loads`.

### ModelAccess, ToolPolicy, CronCalendar, CronJobSpec

`ModelAccess`: a `models auth` command is `Start` (reads), an edit (the file is truncated: `Torn`),
`Flush` (the text goes out), `Again` for the second save of a login. Whoever finds no file, a command (`Create`,
`Created`) or a request (`CreateForTurn`, `CreatedForTurn`), writes an empty store first. The gateway reads
the file per request: `Complete` starts the chain, `Skip`, `Ask` and `Reply` walk it.
`Resolve` is `resolveForProvider`. The other three modules are operators; `MCDecisions`
makes one initial state of every question about them, so that TLC evaluates the
definition and the code's algorithm side by side over the whole small domain. A
cron instant is a number of seconds; seconds, minutes, hours and days are parameters, because
the loop of `computeNextCronRun` never looks at their real lengths. In `CronJobSpec` a JSON
value is a function from the paths the code looks at; text where an object is expected is
`NotObject`, which has no field that is read. Of the patches only `nextRunAt` is ever null.

## 3. Runs

| Run | Bounds | Shows |
|---|---|---|
| `taskqueue_safety` | 3 tasks, queue of 2, ledger of 3, writes succeed | all safety properties and the refinement of `TaskLane` |
| `taskqueue_faults` | 2 tasks, writes may fail | queue and statuses agree, waiting tasks finish, `stop()` returns |
| `taskqueue_torn` | violation | a torn `tasks.json` keeps the gateway from starting |
| `task_events_paging` | violation | paging with `limit` skips events |
| `eventbus` | 2 publishers, 2 connections (one untimed), ring of 2, 3 events | order, no duplicates, loss only by overrun, no lost wakeup |
| `cron_races` | 2 jobs (recurring, one-shot), loop and 1 HTTP thread, writes succeed, 2 instants | no overlap, one-shots once, due jobs fire, `stop()` returns |
| `cron_restarts` | 1 job, all schedules, a ladder of 1 rung, 2 consecutive errors, 3 instants, any write may fail, a client may give the next run | enabled jobs have a next run, replies stay true |
| `cron_disabled` | violation | a job disabled in time is run all the same |
| `agent_sessions` | 2 callers, 2 sessions, 3 messages (turns, notes, CLI runs), any number of crashes | turns stay whole, prompts end with their own message, replies given are on record, sessions are freed |
| `telegram_pairing` | 2 users, 3 updates, 2 lives, 2 commands | no update lost, none twice in a life, nobody unapproved, all handled in the end unless a handling hangs |
| `browser` | 2 processes (symmetric), 2 targets, 2 pages, refs to 14, 3 requests and a wait, saves that fail or tear | refs keep their meaning, typed values stay where they were typed, the active target exists |
| `decisions` | 2 commands at a time of 3, 2 profiles, 2 providers, 2 instants; all tool, cron and job questions | sound profile stores, live tokens first, tool policy, next cron run, jobs read back and edited exactly |

Why the bounds are enough. Three tasks let one execute, one wait and one come back
from a restart in another order, and fill a queue of two; a cancelled run writes more
events than a ledger of three keeps. Three events overrun a ring of two under a
sleeping reader. Two jobs make the loop's list outlive the execution of its first
entry; one HTTP thread and the loop are the two threads that can start the same job. The
single job of `cron_restarts` is enough for properties that each speak of one job.
Three messages are two turns and a note, or a turn, a CLI run and a turn of another
caller: enough for two turns to contend for a session, for a session to be opened by two
writers and for a limit to cut a prompt. Three updates with two lives make a batch that
a crash splits and a redelivery; a user and a stranger with two commands let each
process overwrite the other. `MCTelegramPairing` leaves out the behaviours that differ from another one only in the names of
the users. Three requests of the browser open a page, change it in one process or in two at once, and read
what became of that; nine equal links give one element the refs e2 to e10, where the order of texts departs from that of
numbers, and rebuilding such a page gives further numbers; a request that would need more than 14 is cut off. Two of the three commands
of `decisions` overlap and the third sees what they left. The calendar has 2 x 3 x 2 x 3
instants a week, so that all roll-overs happen from every start.
`MaxSeq`, `MaxPublished`, `MaxTime`, `MaxErrors`, `MaxMessages`, `MaxUpdates`, `MaxLives`, `MaxCli`,
`MaxTargets`, `MaxRef`, `MaxRequests`, `MaxNow` and `MaxCommands` are bounds of the models
only; the theorems hold for every value of them.

Deadlock is not checked in `TaskEventsPaging.cfg`, where task and client come to an end,
nor in `TelegramPairing.cfg`, `BrowserRelay.cfg` and `Decisions.cfg`, whose actors stop at their bounds (a question of `MCDecisions` is a single state).

### Fairness

`TaskQueue`: the worker thread is scheduled, the main thread leaves `run()` once the worker
is joined. Weak fairness of the worker as a whole: of its outcomes none is forced. Nothing
is assumed of `execute_`: the `curl` that asks a model has no time limit
(`LlmClient.cpp:141`), so an execution may last for ever, and `QueuedTasksFinish` and
`StopCompletes` say that only this (`Hangs`) keeps them from happening. `CronScheduler`
likewise: the loop is scheduled, a callback that never returns is `Hangs`. `EventBus`: a
publisher past its unlock goes on to notify, a connection keeps calling `waitNext`, its
timeout passes. `AgentEngine`: threads in `handleMessage` are scheduled and
`try_lock_for` times out; no fairness of `Answer` or `Fail`, so `SessionsAreFreed` exempts a session
whose model is being asked. `TelegramPairing`: the bot's thread runs as far as the decision on an update (`Handle`), a gateway that is
down is booted again while the bound lets it, and Telegram's server answers: a `Poll` that can bring something does so in the
end (strong fairness, since a crash may come between), an assumption on the world outside, without which no bot makes progress. Nothing
is assumed of `Reply`: a model call or a `sendMessage` that never returns stops the only thread of the bot, which
`UpdatesAreHandled` names (`Hangs`), and TLC finds the property violated without that exemption. `BrowserRelay` and
`MCDecisions` have no liveness. Clients, `stop()`, crashes and the clock are never fair.

`StopCompletes` means `phase = "down"` in `TaskQueue`; in `CronScheduler`, whose `Exit`
also waits for HTTP requests that nothing bounds, it means that the loop has left, which is
what `stop()` joins.

### Where code and documents disagree

- `docs/STAGE7.md:6-7` promises a persistent queue and restart-safe recovery; a write
  that is interrupted leaves a file with which `init()` fails (`taskqueue_torn`).
- `docs/STAGE34.md:44-47,65` describe `afterSeq` as an incremental fetch; with more new events
  than `limit` the older ones are dropped from the page and skipped by `nextAfterSeq`
  (`task_events_paging`).
- `docs/CRON_REFERENCE.md:25` says `enabled` is whether the job runs; the loop runs the ids it
  collected without looking again (`cron_disabled`).

Oddities that the models keep and that have no run of their own:

- `docs/STAGE18.md:80` calls the save path of the browser's state "temp-file + rename atomic-style write"; the temporary
  file is renamed whether or not it was written, is shared by all processes, and a failed rename leads to a
  truncating write in place, so that the state file may come not to parse, which reads as no targets
  (`Saves`, `Truncate`, `Overwrite`);
- the document root of a page is looked up as `doc` and stored with the signature
  `document` (`BrowserRelay.cpp:476`), so it has a new ref after every rebuild; `docs/STAGE18.md:70`
  says that refs are kept where signatures match, which the two names never do;
- `upsert` may give the id of an active profile to another provider
  (`AuthProfiles.cpp:126-130`), whose token is then sent to the first one; `LiveTokensAreSent` names the case;
- `docs/CRON_REFERENCE.md:11,71-76` shows schedules that are strings of five fields; the code takes an
  object, and three fields (minute, hour, day of week);
- an edit with a flat `cron` or `everyMs` field is outvoted by the stored job's nested `schedule`;
- a pairing approved while the gateway runs is not seen by it, and is lost with its next save of
  the file; `docs/STAGE4.md:14` does not say when an approval counts;
- a submit in the browser keeps a reference to a form across the rebuild that clears the
  forms (`BrowserRelay.cpp:785`); it is read for the text of the reply only, so the models do not show it.

## 4. Proofs

All theorems hold for every value of the constants that satisfies the named assumptions, which say no more than that
the parameters have their types and that the tables of the models (pages, patches, chains) are well formed. Every
safety and every action property that a passing run checks is stated by one of them.

`EventBusProofs`: types, the shape of the ring, in-order delivery, loss only by overrun.
The inductive invariant relates each event to its number in `log`, keeps every cursor
between the number at subscription and the next one to be published, and says that what
lies behind a cursor was received or is older than the ring. The ring's shape is what
makes the search in `waitNext` find the event at the cursor.

`TaskQueueProofs`: types; `QueueMatchesStatus` and `WorkerOwnsActive`, for any
`SaveFaults`. Their conjunction `MemoryInv` is inductive only together: that a task the
worker takes is queued needs the first, that a finish touches no queued task needs the
second; and after a boot, whatever the file said, both hold because queue and
statuses are built from the same rows and recovery leaves none in progress. `LedgerConsistent`,
of memory, needs `LedgerInv`, of the rows in memory and those in the file, since a boot reads rows that
any earlier save may have left; recovery appends to them with numbers that go on. `AnnouncedInOrder`
needs `AnnouncedInv`: subscribers may be behind the lane (a start is not announced, and an outcome only
after the mutex is released) but are never ahead of it, and in between, at `pc = "publish"`, the task is
already terminal and its end not yet told. It speaks of one process; `announced` starts afresh at a boot.

Under `SaveFaults = {}`, in the second part of `TaskQueueProofs`: the file is current, work is executed
at most once, replies stay true, and `TaskQueue` implements `TaskLane`. The invariant
`IInv` adds to `MemoryInv` that the file equals memory, how often the task in the worker's
hands has been executed, and what `execute_` may have returned. In the refinement
`Durable(t)`, the status that a restart would start from, stands for the abstract
`lane`; a crash and an exit are stutters, the boot is `Interrupt`.

`CronSchedulerProofs`, for any jobs, schedules and HTTP threads, any crashes and any failed writes: types and the four
invariants of the runs, inductive only together with four facts. A process that is down has
nothing in memory and no thread in a job (`DownIsEmpty`). An id in memory, in the file or in a thread's hands
has been handed out, and a client does not count the job of a running thread among those still to fire
(`IdsAreTold`), so that no id is given out again while a run of its former owner lasts. Until a write
fails the file has the ids that memory has (`FileFollows`), which is what `RepliesStayTrue` rests on: its own proviso is that no write has failed yet. A job that ran as a one-shot is
still in that run or gone (`OneShotsEnd`). `InFlightExact` leans on the test in `StartRun`, on the erasure of the
id in `FinishRun`, and on `removeJob` taking the id out of both tables while its run goes on.
`EnabledJobsAreScheduled` needs nothing of the file: `init` schedules every enabled row it reads.

`TelegramPairingProofs`: types, `ConfirmedWereHandled`, `HandledInOrder`, and, under the
pairing policy, `AdmittedWereApproved`. For the first two the invariant says that what of the batch is still to be looked at
(`Todo`: all of it, or all but the first update while that one is decided and not yet done) is a run of consecutive ids from the offset on, that whatever is before the offset was handled
in this life, and that the server has confirmed no more than what was handled in some
life. For the last it ranges over all copies at once: the requests in memory, in the file and in the command's
hands. A code belongs to one user in all of them, no code is above the counter, and a
request that is marked approved in any of them belongs to a user in `approved`. Without the other copies it
is not inductive, since a save may bring any of them back.

`AgentEngineProofs`: types, `TurnsDoNotInterleave`, `PromptEndsHere` and `RepliesAreRecorded`, and
`OneTurnPerTranscript`, which the runs do not state. Four invariants, each needing the ones before.
`LockInv`: who is inside a turn holds the mutex of its session, and turn numbers are
apart. `IndexInv`: no index (the gateway's, the file's, the CLI's) gives two
sessions one transcript, none holds a number from the future, and a caller that may yet
open a session has a number that is in none of them; this is what survives a torn or
overwritten `sessions.json`. `FileInv`: every transcript is whole, every reply given is in one, and the
message of a turn that waits for the model is the last locked line of its transcript (`Pending`), which is
why the reply that follows closes it. The random session ids are taken as fresh here; that two
of them are equal has probability 2^-128 and is outside the model. `PromptInv` adds that what a caller has loaded
ends with its own message: after `Open` the message is the last locked line of its transcript, unlocked
lines (notes, CLI runs) may follow it, and both ways of cutting a prompt, by the prompt mode and by the carry-over limit,
keep the end of what they select; a prompt consists of messages of the transcript.

`BrowserRelayProofs`, for any processes, pages, forms and outcomes of a load: types, `ActiveTargetExists`,
`TypedWhereItWas` and the action property `RefsKeepTheirMeaning`. A request rebuilds the refs
of its target once or several times, so the proof has three layers. `RebuiltFacts` says what one rebuild does:
a ref that stays keeps its signature, a new one is above all old ones, a typed value stays with a control
of the same signature. `FollowsTransitive` makes one relation of any chain of rebuilds. `IInv` says that the
file and every copy that a process holds is `Good`; each request takes a good copy to a good file.
`MapOrder` is any function that puts ids in some order (`BrowserAssumption`), so that the theorems
cover the order of the texts for every number of targets and refs: what is proved of `LastKey` and `FirstKey` is that they pick
one of the set. Saves may fail, be torn and be renamed by another process; what is in the files
is then a good state, torn or missing, whoever wrote it. `RefsKeepTheirMeaning` relates the state that a request found
to the one that it put into the file. It does not say that numbers outlive a save that undoes
another process's, nor a torn file, after which they start again: the code does not keep them then.

`DecisionProofs`: `NoDanglingIds` and `LiveTokensAreSent`, for any commands, profiles, providers,
chains of models and instants, and the three properties of the pure modules. Its parts:

- What `Picked` and `Kept` return (`PickProofs`) is described by the positions they keep (`Walk`): which elements, in which
  order, which first. No induction over the sequence is needed: the library's recursive definition is
  not opened, the position of the i-th kept element is found by its rank.
- `AccessInv`: the file is torn or a sound store, and so is every copy in a command's hands and every store
  that it will save after it; each edit (`upsert`, `remove`, `setActive`, `setOrderForProvider`) takes sound stores to
  sound ones, so that it does not matter which copy is written last.
- `ResolveFits`: what `resolveForProvider` returns is the active profile if it is live, the first live one of the
  order otherwise, then any other, the environment's key only if there is none. With
  `TurnInv` (what is left of the chain is references) this gives `LiveTokensAreSent`, a property of every step that asks.
- `ToolsFollowPolicy` by the four scopes in turn, for any tools, channels and peers.
- `CronRunsOnTime`, for any lengths of a minute, an hour, a day and a week: the nested
  divisions of the calendar are one division (`QuotientOfQuotient`), two weeks of minutes contain every
  combination of weekday, hour and minute (`EveryMinuteComes`), and the first match of the
  search is the least one (`RunIsNext`).
- `JobsKeepTheirSpec`: `JobsStayTheSame` states it for every JSON object and every plain patch of any such object, and of the
  run's questions as an instance; a patch is plain when it is an object with no null but in `nextRunAt`. `ReadsBack` and
  `EditedExactly` are its two halves.
- `CommandsRun`: the behaviours of `MCDecisions`, where a state is either a question or one of the commands,
  are behaviours of `ModelAccess`, so that the theorems about the latter hold of the run.

Only model-checked: the liveness properties (`QueuedTasksFinish`, `StopCompletes` of lane and scheduler,
`EventsAreDelivered`, `DueJobsFire`, `SessionsAreFreed`, `UpdatesAreHandled`), because the prover has no rules
for fairness and ENABLED; and the three disagreements, which are counterexamples and need no proof. The deadlock
freedom that most runs check is an ENABLED as well.

## 5. Not modelled

Without a module: the rate limiter, which no code constructs; the `gateway` commands
around the pid file, which are shell commands and signals and share no state with the
gateway's components; configuration and its validation, read once at start, whose values are
the constants; logger, audit trail, shell and clock.

Of the modelled components: contents of messages, results and errors; time stamps; validation
of request bodies (a refused request changes nothing); a transcript whose write fails (`SessionStore.cpp:70-71` does not look,
so that a reply is then given unrecorded); `pairing.json`, `sessions.json` and `auth-profiles.json` that two processes write at the
same instant, where the later writer is taken to win (a file that the other is still writing is read as torn); writes of
`pairing.json` that fail otherwise than by a crash; `taskLane.enabled = false`; the unlimited growth of
`tasks_` and `cancelFlags_`; run logs of the scheduler, and CLI commands that edit
`jobs.json` while the gateway is down; commands of the agent other than `/tool`, which only
read; the browser backend that calls the `openclaw` command, and the parsing of HTML;
HTTP authentication, JSON errors and static pages; the built-in tools; requests and replies of
model providers; that a signal handler interrupts a particular thread (`Stop` may happen at any point).

## 6. Plan

Done: the task lane with its abstract lane, ledger, bus, scheduler, agent and sessions,
Telegram and pairing, browser, model access, tool policy, cron calendar and job
specifications, with the proofs above. What is left, in this order:

1. An abstract store of messages that `AgentEngine` and `SessionStore` implement, and an abstract feed that
   `EventBus` implements, as `TaskLane` is for the lane.
2. `Application`: the shutdown order composed over lane, scheduler and agent.
3. Commands that edit `jobs.json` beside the gateway.
4. The gateway's pid file.

----------------------------- MODULE TaskRecord -----------------------------
(***************************************************************************)
(* The rows of the task lane (struct TaskRecord) and the per-task event    *)
(* ledger: appendEvent, the recovery of a row after a restart, and the     *)
(* query behind GET /api/tasks/<id>/events.  Pure operators, shared by     *)
(* TaskQueue and TaskEvents.                                               *)
(*                                                                         *)
(* A row keeps the fields the lane's control depends on: the status and    *)
(* the ledger.  The payload (channel, peer, text, policies, result, error  *)
(* and the time stamps) is copied around unread and left out.              *)
(***************************************************************************)
EXTENDS Integers, Sequences

CONSTANT MaxEvents     \* kMaxEventsPerTask: newest events kept per task

ASSUME MaxEventsAssumption == MaxEvents \in Nat \ {0}

Active   == {"running", "cancelling"}
Terminal == {"cancelled", "done", "failed", "timeout"}
Statuses == {"absent", "queued"} \cup Active \cup Terminal

EventTypes == {"task_enqueued", "task_started", "task_cancelled",
               "task_cancelling", "task_cancel_ignored", "task_finished",
               "task_recovered"}

Event == [seq : Nat \ {0}, type : EventTypes, status : Statuses]

Row == [status : Statuses, events : Seq(Event), nextSeq : Nat \ {0}]

\* A default-constructed TaskRecord that no container holds yet.
NoRow == [status |-> "absent", events |-> <<>>, nextSeq |-> 1]

\* A variant that trims one event too late.
NewestOffByOne(log) ==
    IF Len(log) > MaxEvents + 1
    THEN SubSeq(log, Len(log) - MaxEvents + 1, Len(log))
    ELSE log

\* The newest MaxEvents entries of a ledger.
Newest(log) ==
    IF Len(log) > MaxEvents
    THEN SubSeq(log, Len(log) - MaxEvents + 1, Len(log))
    ELSE log

\* A variant that numbers an event one too low, as if nextEventSeq had been
\* incremented before use in one place and after it in another.
AppendEventShifted(row, type, status) ==
    [status  |-> status,
     events  |-> Newest(Append(row.events,
                               [seq |-> row.nextSeq - 1, type |-> type, status |-> status])),
     nextSeq |-> row.nextSeq + 1]

\* appendEvent(row, type, status): the row takes the status and records it.
AppendEvent(row, type, status) ==
    [status  |-> status,
     events  |-> Newest(Append(row.events,
                               [seq |-> row.nextSeq, type |-> type, status |-> status])),
     nextSeq |-> row.nextSeq + 1]

\* nextEventSeq of a row read back from tasks.json.
LoadedNextSeq(row) ==
    IF row.events # <<>> /\ row.events[Len(row.events)].seq >= row.nextSeq
    THEN row.events[Len(row.events)].seq + 1
    ELSE row.nextSeq

\* A variant that puts interrupted work back into the queue.
RecoveredRequeued(row) ==
    LET loaded == [row EXCEPT !.nextSeq = LoadedNextSeq(row)]
    IN  IF row.status \in Active
        THEN AppendEvent(loaded, "task_recovered", "queued")
        ELSE loaded

\* loadLocked for one row: work that was in progress is marked cancelled.
Recovered(row) ==
    LET loaded == [row EXCEPT !.nextSeq = LoadedNextSeq(row)]
    IN  IF row.status \in Active
        THEN AppendEvent(loaded, "task_recovered", "cancelled")
        ELSE loaded

\* events(id, limit, afterSeq): what is newer than afterSeq, and of that the
\* newest `limit` entries.  limit = 0 asks for everything.
EventsAfter(log, limit, afterSeq) ==
    LET newer == SelectSeq(log, LAMBDA ev : ev.seq > afterSeq)
    IN  IF limit > 0 /\ Len(newer) > limit
        THEN SubSeq(newer, Len(newer) - limit + 1, Len(newer))
        ELSE newer

\* nextAfterSeq: the cursor the reply hands to the client.
NextAfterSeq(page, afterSeq) ==
    IF page = <<>> THEN afterSeq ELSE page[Len(page)].seq
=============================================================================

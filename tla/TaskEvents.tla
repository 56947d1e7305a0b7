----------------------------- MODULE TaskEvents -----------------------------
(***************************************************************************)
(* A client that follows one task through                                  *)
(* GET /api/tasks/<id>/events?limit=..&afterSeq=.., handing each reply's   *)
(* nextAfterSeq back as the next afterSeq, while the lane keeps recording. *)
(***************************************************************************)
EXTENDS TaskRecord, FiniteSets

CONSTANTS
    Limits,      \* the page sizes the client may ask for (the route allows 1..500)
    MaxSeq       \* bound of the model: events recorded for the task

VARIABLES
    row,         \* the task's row, with its ledger
    cursor,      \* the client's afterSeq
    pages        \* history: the sequence numbers received, in order

vars == <<row, cursor, pages>>

\* What the lane may record next: status before, event, status after.
Transitions ==
    { <<"queued", "task_started", "running">>,
      <<"queued", "task_cancelled", "cancelled">>,
      <<"running", "task_cancelling", "cancelling">>,
      <<"running", "task_finished", "done">>,
      <<"running", "task_finished", "failed">>,
      <<"running", "task_finished", "timeout">>,
      <<"cancelling", "task_cancel_ignored", "cancelling">>,
      <<"cancelling", "task_finished", "cancelled">> }

\* A handler or the worker appends an event to the task's ledger.
Record ==
    /\ row.nextSeq <= MaxSeq
    /\ \E step \in Transitions :
          /\ row.status = step[1]
          /\ row' = AppendEvent(row, step[2], step[3])
    /\ UNCHANGED <<cursor, pages>>

\* events(id, limit, cursor), answered under mu_.
Poll(limit) ==
    LET page == EventsAfter(row.events, limit, cursor)
    IN  /\ page # <<>>
        /\ pages' = pages \o [i \in DOMAIN page |-> page[i].seq]
        /\ cursor' = NextAfterSeq(page, cursor)
        /\ UNCHANGED row

\* The process restarts on the row it saved.
Restart ==
    /\ row.status \in Active
    /\ row.nextSeq <= MaxSeq
    /\ row' = Recovered(row)
    /\ UNCHANGED <<cursor, pages>>

Init ==
    /\ row = AppendEvent(NoRow, "task_enqueued", "queued")
    /\ cursor = 0
    /\ pages = <<>>

Next == Record \/ Restart \/ \E limit \in Limits : Poll(limit)

Spec == Init /\ [][Next]_vars

-----------------------------------------------------------------------------

Received == {pages[i] : i \in DOMAIN pages}

\* "afterSeq incremental fetch" (docs/STAGE34.md): a client that passes
\* nextAfterSeq back has received every event up to its cursor that the ledger
\* still holds.
IncrementalFetch ==
    \A i \in DOMAIN row.events :
        row.events[i].seq <= cursor => row.events[i].seq \in Received
=============================================================================

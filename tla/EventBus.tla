------------------------------ MODULE EventBus ------------------------------
(***************************************************************************)
(* The in-process event bus (src/core/EventBus.cpp): any thread publishes, *)
(* each SSE connection owns a Subscriber whose cursor walks over a ring of *)
(* the newest events.                                                      *)
(*                                                                         *)
(* A call holds mutex_ from its first to its last access to the ring, with *)
(* two exceptions that give the actions below: waitNext releases it while  *)
(* it sleeps, and publish calls notify_all after it has released it.  An   *)
(* event's type and data are never looked at by the bus; the publisher     *)
(* stands for them.                                                        *)
(***************************************************************************)
EXTENDS Integers, Sequences

CONSTANTS
    Publishers,    \* the threads that publish
    Subscribers,   \* the SSE connections, each with its Subscriber
    Untimed,       \* those that pass a timeout <= 0: cv_.wait, not wait_for
    RingSize,      \* the newest events the bus keeps (1000 in the code)
    MaxPublished   \* bound of the model: events ever published

ASSUME EventBusAssumption ==
    /\ Untimed \subseteq Subscribers
    /\ RingSize \in Nat \ {0}
    /\ MaxPublished \in Nat

VARIABLES
    events,     \* events_: the ring, oldest first
    nextId,     \* nextId_
    notifying,  \* publishers between the unlock and notify_all
    at,         \* at[s]: "closed", "ready" to call waitNext, "asleep" in it, "awake"
    cursor,     \* cursor[s]: Subscriber::cursor_
    log,        \* history: log[i] is the event published with id i
    opened,     \* history: the value of nextId_ when s subscribed
    received    \* history: the events s was handed, in order

bus     == <<events, nextId, notifying>>
subs    == <<at, cursor>>
history == <<log, opened, received>>
vars    == <<bus, subs, history>>

Event == [id : Nat \ {0}, from : Publishers]

-----------------------------------------------------------------------------
(* publish                                                                 *)

\* A variant whose trim keeps the oldest events in the place of the newest.
TrimmedOldest(ring) ==
    IF Len(ring) > RingSize THEN SubSeq(ring, 1, RingSize) ELSE ring

\* events_.erase(begin, ...): only the newest RingSize are kept.
Trimmed(ring) ==
    IF Len(ring) > RingSize
    THEN SubSeq(ring, Len(ring) - RingSize + 1, Len(ring))
    ELSE ring

\* The critical section of publish.
Publish(p) ==
    /\ p \notin notifying
    /\ nextId <= MaxPublished
    /\ LET event == [id |-> nextId, from |-> p]
       IN  /\ events' = Trimmed(Append(events, event))
           /\ log' = Append(log, event)
    /\ nextId' = nextId + 1
    /\ notifying' = notifying \cup {p}
    /\ UNCHANGED <<subs, opened, received>>

\* A variant that notifies nobody.
NotifyNone(p) ==
    /\ p \in notifying
    /\ notifying' = notifying \ {p}
    /\ UNCHANGED <<events, nextId, subs, history>>

\* cv_.notify_all() after the lock is gone.
NotifyAll(p) ==
    /\ p \in notifying
    /\ notifying' = notifying \ {p}
    /\ at' = [s \in Subscribers |-> IF at[s] = "asleep" THEN "awake" ELSE at[s]]
    /\ UNCHANGED <<events, nextId, cursor, history>>

-----------------------------------------------------------------------------
(* subscribe and waitNext                                                  *)

\* subscribe(): nothing published so far will be handed out.
Subscribe(s) ==
    /\ at[s] = "closed"
    /\ at' = [at EXCEPT ![s] = "ready"]
    /\ cursor' = [cursor EXCEPT ![s] = nextId]
    /\ opened' = [opened EXCEPT ![s] = nextId]
    /\ received' = [received EXCEPT ![s] = <<>>]
    /\ UNCHANGED <<bus, log>>

\* hasEvent()
HasEvent(s) == events # <<>> /\ cursor[s] <= events[Len(events)].id

\* A variant that drops the jump over evicted events by restarting at the newest.
StartAtNewest(s) ==
    IF cursor[s] < events[1].id THEN events[Len(events)].id ELSE cursor[s]

\* A cursor that the ring has overrun jumps to the oldest event still there.
Start(s) == IF cursor[s] < events[1].id THEN events[1].id ELSE cursor[s]

\* A variant that leaves the cursor on the event it hands out.
CursorAfterStuck(event) == event.id

\* A variant that steps back behind the event it hands out.
CursorBefore(event) == event.id - 1

CursorAfter(event) == event.id + 1

\* The rest of waitNext once there is something to hand out: the first event
\* at or after the cursor.
HandOut(s) ==
    \E i \in DOMAIN events :
        /\ events[i].id >= Start(s)
        /\ \A j \in 1..(i - 1) : events[j].id < Start(s)
        /\ cursor' = [cursor EXCEPT ![s] = CursorAfter(events[i])]
        /\ received' = [received EXCEPT ![s] = Append(@, events[i])]
        /\ at' = [at EXCEPT ![s] = "ready"]
        /\ UNCHANGED <<bus, log, opened>>

\* waitNext finds an event at once, or is woken and finds one.
TakeNext(s) ==
    /\ at[s] \in {"ready", "awake"}
    /\ HasEvent(s)
    /\ HandOut(s)

\* waitNext finds nothing and sleeps; the mutex is released with it.
FallAsleep(s) ==
    /\ at[s] \in {"ready", "awake"}
    /\ ~HasEvent(s)
    /\ at' = [at EXCEPT ![s] = "asleep"]
    /\ UNCHANGED <<bus, cursor, history>>

\* wait_for gives up and tests the predicate a last time: an event that came
\* meanwhile is handed out, otherwise the stream sends a keepalive.
TimeOut(s) ==
    /\ at[s] = "asleep" /\ s \notin Untimed
    /\ \/ HasEvent(s) /\ HandOut(s)
       \/ /\ ~HasEvent(s)
          /\ at' = [at EXCEPT ![s] = "ready"]
          /\ UNCHANGED <<bus, cursor, history>>

\* The connection goes away; waitNext is not called again.
Close(s) ==
    /\ at[s] = "ready"
    /\ at' = [at EXCEPT ![s] = "closed"]
    /\ UNCHANGED <<bus, cursor, history>>

-----------------------------------------------------------------------------

Init ==
    /\ events = <<>> /\ nextId = 1 /\ notifying = {}
    /\ at = [s \in Subscribers |-> "closed"]
    /\ cursor = [s \in Subscribers |-> 1]
    /\ log = <<>>
    /\ opened = [s \in Subscribers |-> 1]
    /\ received = [s \in Subscribers |-> <<>>]

Reader(s) == TakeNext(s) \/ FallAsleep(s) \/ TimeOut(s)

Next ==
    \/ \E p \in Publishers : Publish(p) \/ NotifyAll(p)
    \/ \E s \in Subscribers : Subscribe(s) \/ Reader(s) \/ Close(s)

Spec == Init /\ [][Next]_vars

\* A publisher that has pushed goes on to notify, and the thread that serves
\* a connection keeps calling waitNext.  Publishing is not fair.
FairSpec ==
    /\ Spec
    /\ \A p \in Publishers : WF_vars(NotifyAll(p))
    /\ \A s \in Subscribers : WF_vars(TakeNext(s) \/ FallAsleep(s)) /\ WF_vars(TimeOut(s))

-----------------------------------------------------------------------------

\* Every variable has its type.
TypeOK ==
    /\ events \in Seq(Event)
    /\ nextId \in Nat \ {0}
    /\ notifying \subseteq Publishers
    /\ at \in [Subscribers -> {"closed", "ready", "asleep", "awake"}]
    /\ cursor \in [Subscribers -> Nat \ {0}]
    /\ log \in Seq(Event)
    /\ opened \in [Subscribers -> Nat \ {0}]
    /\ received \in [Subscribers -> Seq(Event)]

\* The oldest id the ring still holds; nextId when it holds none.
Oldest == nextId - Len(events)

\* The ring is the newest part of everything ever published, without a gap:
\* what waitNext's search relies on when it compares the cursor with both ends.
RingIsNewestSuffix ==
    /\ Len(log) = nextId - 1
    /\ Len(events) = IF Len(log) < RingSize THEN Len(log) ELSE RingSize
    /\ \A i \in DOMAIN events : events[i] = log[Oldest - 1 + i]

\* A subscriber sees published events only, only from its subscription on,
\* each at most once and in the order of publication.
InOrderOnce ==
    \A s \in Subscribers :
        /\ \A i \in DOMAIN received[s] :
              /\ received[s][i].id \in opened[s] .. (cursor[s] - 1)
              /\ received[s][i] = log[received[s][i].id]
        /\ \A i, j \in DOMAIN received[s] :
              i < j => received[s][i].id < received[s][j].id

\* An event behind the cursor that the subscriber never got has been evicted
\* from the ring: overrun is the only way to miss one.
LostOnlyByOverrun ==
    \A s \in Subscribers :
        \A id \in opened[s] .. (cursor[s] - 1) :
            \/ \E i \in DOMAIN received[s] : received[s][i].id = id
            \/ id < Oldest

\* No lost wakeup: an event published while a connection is open is handed
\* out, unless the ring overruns it or the connection ends.
EventsAreDelivered ==
    \A s \in Subscribers : \A id \in 1..MaxPublished :
        (at[s] # "closed" /\ cursor[s] <= id /\ id < nextId)
            ~> (at[s] = "closed" \/ id < cursor[s] \/ id < Oldest)
=============================================================================

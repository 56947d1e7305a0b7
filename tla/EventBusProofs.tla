--------------------------- MODULE EventBusProofs ---------------------------
(***************************************************************************)
(* The event bus for any number of publishers and subscribers, any ring    *)
(* size and any number of events: types, the shape of the ring, and what a *)
(* subscriber is handed.                                                   *)
(***************************************************************************)
EXTENDS EventBus, TLAPS

\* Appending keeps the earlier entries.
LEMMA AppendFacts ==
    ASSUME NEW S, NEW q \in Seq(S), NEW e \in S
    PROVE  /\ Append(q, e) \in Seq(S)
           /\ Len(Append(q, e)) = Len(q) + 1
           /\ Append(q, e)[Len(q) + 1] = e
           /\ \A i \in 1..Len(q) : Append(q, e)[i] = q[i]
  OBVIOUS

\* Trimmed keeps the newest RingSize entries and no others.
LEMMA TrimmedFacts ==
    ASSUME NEW S, NEW q \in Seq(S)
    PROVE  /\ Trimmed(q) \in Seq(S)
           /\ Len(Trimmed(q)) = IF Len(q) < RingSize THEN Len(q) ELSE RingSize
           /\ \A i \in 1..Len(Trimmed(q)) :
                 Trimmed(q)[i] = q[Len(q) - Len(Trimmed(q)) + i]
  <1>1. CASE Len(q) > RingSize
    BY <1>1, EventBusAssumption DEF Trimmed
  <1>2. CASE ~(Len(q) > RingSize)
    BY <1>2, EventBusAssumption DEF Trimmed
  <1>3. QED BY <1>1, <1>2

\* Handing out keeps the types.
LEMMA HandOutType ==
    ASSUME TypeOK, NEW s \in Subscribers, HandOut(s)
    PROVE  TypeOK'
  <1>1. PICK i \in DOMAIN events : /\ cursor' = [cursor EXCEPT ![s] = events[i].id + 1]
                                   /\ received' = [received EXCEPT ![s] = Append(@, events[i])]
                                   /\ at' = [at EXCEPT ![s] = "ready"]
                                   /\ UNCHANGED <<bus, log, opened>>
    BY DEF HandOut, CursorAfter
  <1>2. events[i] \in Event
    BY <1>1 DEF TypeOK
  <1>3. events[i].id + 1 \in Nat \ {0}
    BY <1>2 DEF Event
  <1>4. Append(received[s], events[i]) \in Seq(Event)
    BY <1>2 DEF TypeOK
  <1>5. QED
    BY <1>1, <1>3, <1>4 DEF TypeOK, bus

LEMMA InitTypeOK == Init => TypeOK
  BY DEF Init, TypeOK

LEMMA NextTypeOK == TypeOK /\ [Next]_vars => TypeOK'
  <1> SUFFICES ASSUME TypeOK, [Next]_vars PROVE TypeOK'
    OBVIOUS
  <1>1. ASSUME NEW p \in Publishers, Publish(p) PROVE TypeOK'
    <2> DEFINE event == [id |-> nextId, from |-> p]
    <2>1. event \in Event
      BY DEF TypeOK, Event
    <2>2. /\ Append(events, event) \in Seq(Event)
          /\ Append(log, event) \in Seq(Event)
      BY <2>1 DEF TypeOK
    <2>3. Trimmed(Append(events, event)) \in Seq(Event)
      BY <2>2, TrimmedFacts
    <2>4. QED
      BY <1>1, <2>2, <2>3 DEF Publish, TypeOK, subs
  <1>2. ASSUME NEW p \in Publishers, NotifyAll(p) PROVE TypeOK'
    BY <1>2 DEF NotifyAll, TypeOK, history
  <1>3. ASSUME NEW s \in Subscribers, Subscribe(s) PROVE TypeOK'
    BY <1>3 DEF Subscribe, TypeOK, bus
  <1>4. ASSUME NEW s \in Subscribers, TakeNext(s) PROVE TypeOK'
    BY <1>4, HandOutType DEF TakeNext
  <1>5. ASSUME NEW s \in Subscribers, FallAsleep(s) PROVE TypeOK'
    BY <1>5 DEF FallAsleep, TypeOK, bus, history
  <1>6. ASSUME NEW s \in Subscribers, TimeOut(s) PROVE TypeOK'
    <2>1. CASE HandOut(s)
      BY <2>1, HandOutType
    <2>2. CASE ~HandOut(s)
      BY <1>6, <2>2 DEF TimeOut, TypeOK, bus, history
    <2>3. QED BY <2>1, <2>2
  <1>7. ASSUME NEW s \in Subscribers, Close(s) PROVE TypeOK'
    BY <1>7 DEF Close, TypeOK, bus, history
  <1>8. CASE UNCHANGED vars
    BY <1>8 DEF vars, bus, subs, history, TypeOK
  <1>9. QED
    BY <1>1, <1>2, <1>3, <1>4, <1>5, <1>6, <1>7, <1>8 DEF Next, Reader

\* Every variable of the event bus keeps its type (TypeOK).
THEOREM TypeCorrect == Spec => []TypeOK
  BY InitTypeOK, NextTypeOK, PTL DEF Spec

-----------------------------------------------------------------------------
(***************************************************************************)
(* The inductive invariant.  The three properties are about the history;   *)
(* they are inductive together with the facts that tie the ring and the    *)
(* cursors to it: ids number the log, and a cursor lies between the        *)
(* subscription and the next id.                                           *)
(***************************************************************************)
LogNumbered == \A i \in DOMAIN log : log[i].id = i

CursorsInRange ==
    \A s \in Subscribers : opened[s] <= cursor[s] /\ cursor[s] <= nextId

IInv == LogNumbered /\ RingIsNewestSuffix /\ CursorsInRange
           /\ InOrderOnce /\ LostOnlyByOverrun

\* The ring's ids are consecutive and end at nextId - 1.
LEMMA RingIds ==
    ASSUME TypeOK, IInv
    PROVE  /\ Len(events) \in Nat /\ Len(events) < nextId
           /\ \A i \in 1..Len(events) : events[i].id = Oldest - 1 + i
  <1>1. Len(events) \in Nat /\ Len(log) \in Nat /\ nextId \in Nat \ {0}
    BY DEF TypeOK
  <1>2. Len(log) = nextId - 1 /\ Len(events) <= Len(log)
    BY <1>1, EventBusAssumption DEF IInv, RingIsNewestSuffix
  <1>3. ASSUME NEW i \in 1..Len(events) PROVE events[i].id = Oldest - 1 + i
    <2>1. events[i] = log[Oldest - 1 + i]
      BY <1>1 DEF IInv, RingIsNewestSuffix, TypeOK
    <2>2. Oldest - 1 + i \in 1..Len(log)
      BY <1>1, <1>2 DEF Oldest
    <2>3. QED
      BY <2>1, <2>2 DEF IInv, LogNumbered, TypeOK
  <1>4. QED BY <1>1, <1>2, <1>3

LEMMA InitIInv == Init => IInv
  BY EventBusAssumption
     DEF Init, IInv, LogNumbered, RingIsNewestSuffix, CursorsInRange,
         InOrderOnce, LostOnlyByOverrun, Oldest

\* Publishing extends log and ring by the same event and only evicts old ids.
LEMMA PublishIInv ==
    ASSUME TypeOK, TypeOK', IInv, NEW p \in Publishers, Publish(p)
    PROVE  IInv'
  <1> DEFINE event == [id |-> nextId, from |-> p]
  <1>1. /\ events' = Trimmed(Append(events, event))
        /\ log' = Append(log, event)
        /\ nextId' = nextId + 1
        /\ UNCHANGED <<at, cursor, opened, received>>
    BY DEF Publish, subs
  <1>2. event \in Event /\ events \in Seq(Event) /\ log \in Seq(Event)
        /\ nextId \in Nat \ {0}
    BY DEF TypeOK, Event
  <1>3. /\ Len(log') = Len(log) + 1
        /\ log'[Len(log) + 1] = event
        /\ \A i \in 1..Len(log) : log'[i] = log[i]
    BY <1>1, <1>2, AppendFacts
  <1>4. Len(log) = nextId - 1
    BY DEF IInv, RingIsNewestSuffix
  <1>5. LogNumbered'
    <2>1. ASSUME NEW i \in 1..Len(log') PROVE log'[i].id = i
      <3>1. CASE i \in 1..Len(log)
        BY <1>2, <1>3, <3>1 DEF IInv, LogNumbered
      <3>2. CASE i = Len(log) + 1
        BY <1>2, <1>3, <1>4, <3>2
      <3>3. QED BY <1>2, <1>3, <2>1, <3>1, <3>2
    <2>2. QED BY <2>1 DEF LogNumbered, TypeOK
  <1> DEFINE pushed == Append(events, event)
  <1>6. /\ pushed \in Seq(Event)
        /\ Len(pushed) = Len(events) + 1
        /\ pushed[Len(events) + 1] = event
        /\ \A i \in 1..Len(events) : pushed[i] = events[i]
    BY <1>2, AppendFacts
  <1>7. /\ Len(events') = IF Len(pushed) < RingSize THEN Len(pushed) ELSE RingSize
        /\ \A i \in 1..Len(events') : events'[i] = pushed[Len(pushed) - Len(events') + i]
    BY <1>1, <1>6, TrimmedFacts
  <1>8. RingIsNewestSuffix'
    <2>1. Len(events') = IF Len(log') < RingSize THEN Len(log') ELSE RingSize
      BY <1>2, <1>3, <1>6, <1>7, EventBusAssumption DEF IInv, RingIsNewestSuffix
    <2>2. ASSUME NEW i \in 1..Len(events') PROVE events'[i] = log'[Oldest' - 1 + i]
      <3> DEFINE k == Len(pushed) - Len(events') + i
      <3>1. Len(events) \in Nat /\ Len(events') \in Nat /\ Len(log) \in Nat
        BY <1>2 DEF TypeOK
      <3>2. Len(pushed) = Len(events) + 1 /\ Len(events') <= Len(pushed)
        BY <1>6, <1>7, <3>1, EventBusAssumption
      <3>3. k \in 1..Len(pushed)
        BY <2>2, <3>1, <3>2
      <3>4. events'[i] = pushed[k]
        BY <1>7, <2>2
      <3>5. Oldest' - 1 + i = nextId - Len(events') + i
        BY <1>1, <1>2, <3>1 DEF Oldest
      <3>6. CASE k = Len(events) + 1
        <4>1. Oldest' - 1 + i = Len(log) + 1
          BY <1>2, <1>4, <3>1, <3>2, <3>5, <3>6
        <4>2. events'[i] = event
          BY <1>6, <3>4, <3>6
        <4>3. QED BY <1>3, <4>1, <4>2
      <3>7. CASE k \in 1..Len(events)
        <4>1. pushed[k] = events[k]
          BY <1>6, <3>7
        <4>2. events[k] = log[Oldest - 1 + k]
          BY <1>2, <3>7 DEF IInv, RingIsNewestSuffix
        <4>3. Oldest - 1 + k = Oldest' - 1 + i
          BY <1>2, <3>1, <3>2, <3>5, <2>2 DEF Oldest
        <4>4. Oldest - 1 + k \in 1..Len(log)
          BY <1>2, <1>4, <3>1, <3>7, RingIds DEF Oldest
        <4>5. QED BY <1>3, <3>4, <4>1, <4>2, <4>3, <4>4
      <3>8. k = Len(events) + 1 \/ k \in 1..Len(events)
        BY <3>1, <3>2, <3>3
      <3>9. QED BY <3>6, <3>7, <3>8
    <2>3. Len(log') = nextId' - 1
      BY <1>1, <1>2, <1>3, <1>4
    <2>4. DOMAIN events' = 1..Len(events')
      BY DEF TypeOK
    <2>5. QED BY <2>1, <2>2, <2>3, <2>4 DEF RingIsNewestSuffix
  <1>9. CursorsInRange'
    BY <1>1 DEF IInv, CursorsInRange, TypeOK
  <1>10. InOrderOnce'
    <2>1. ASSUME NEW s \in Subscribers, NEW i \in DOMAIN received[s]
          PROVE  log'[received[s][i].id] = log[received[s][i].id]
      <3>1. received[s][i].id \in opened[s] .. (cursor[s] - 1)
        BY DEF IInv, InOrderOnce
      <3>2. opened[s] \in Nat \ {0} /\ cursor[s] \in Nat \ {0} /\ cursor[s] <= nextId
        BY DEF IInv, CursorsInRange, TypeOK
      <3>3. received[s][i].id \in 1..Len(log)
        BY <1>2, <1>4, <3>1, <3>2
      <3>4. QED BY <1>3, <3>3
    <2>2. QED BY <1>1, <2>1 DEF IInv, InOrderOnce
  <1>11. Oldest <= Oldest'
    BY <1>1, <1>2, <1>6, <1>7, EventBusAssumption DEF Oldest, TypeOK
  <1>12. LostOnlyByOverrun'
    <2>1. ASSUME NEW s \in Subscribers, NEW id \in opened[s] .. (cursor[s] - 1)
          PROVE  (\E i \in DOMAIN received[s] : received[s][i].id = id) \/ id < Oldest'
      <3>1. (\E i \in DOMAIN received[s] : received[s][i].id = id) \/ id < Oldest
        BY DEF IInv, LostOnlyByOverrun
      <3>2. id \in Int /\ Oldest \in Int /\ Oldest' \in Int
        BY DEF TypeOK, Oldest
      <3>3. QED BY <1>11, <3>1, <3>2
    <2>2. QED BY <1>1, <2>1 DEF LostOnlyByOverrun
  <1>13. QED
    BY <1>5, <1>8, <1>9, <1>10, <1>12 DEF IInv

\* What waitNext hands out is the event at the cursor, or the oldest one when
\* the ring has overrun the cursor; nothing between the two is left behind.
LEMMA HandOutIInv ==
    ASSUME TypeOK, TypeOK', IInv, NEW s \in Subscribers, HasEvent(s), HandOut(s)
    PROVE  IInv'
  <1> DEFINE got == received[s]
  <1>1. PICK i \in DOMAIN events :
            /\ events[i].id >= Start(s)
            /\ \A j \in 1..(i - 1) : events[j].id < Start(s)
            /\ cursor' = [cursor EXCEPT ![s] = events[i].id + 1]
            /\ received' = [received EXCEPT ![s] = Append(@, events[i])]
            /\ UNCHANGED <<bus, log, opened>>
    BY DEF HandOut, CursorAfter
  <1>2. /\ UNCHANGED <<events, nextId, log, opened>>
        /\ events \in Seq(Event) /\ log \in Seq(Event)
        /\ nextId \in Nat \ {0} /\ cursor[s] \in Nat \ {0} /\ opened[s] \in Nat \ {0}
        /\ opened[s] <= cursor[s] /\ cursor[s] <= nextId
        /\ got \in Seq(Event)
    BY <1>1 DEF TypeOK, bus, IInv, CursorsInRange
  <1>3. i \in 1..Len(events) /\ Len(events) \in Nat /\ events # <<>>
    BY <1>1, <1>2
  <1>4. \A j \in 1..Len(events) : events[j].id = Oldest - 1 + j
    BY RingIds
  <1>5. Oldest = nextId - Len(events) /\ Oldest \in Nat \ {0}
    BY <1>2, <1>3, RingIds DEF Oldest
  <1>6. Start(s) = IF cursor[s] < Oldest THEN Oldest ELSE cursor[s]
    BY <1>2, <1>3, <1>4, <1>5 DEF Start
  <1>7. cursor[s] < nextId
    BY <1>2, <1>3, <1>4, <1>5 DEF HasEvent
  <1>8. events[i].id = Start(s)
    <2>1. Start(s) \in Oldest..(nextId - 1)
      BY <1>2, <1>3, <1>5, <1>6, <1>7
    <2>2. Start(s) - Oldest + 1 \in 1..Len(events)
      BY <1>2, <1>3, <1>5, <2>1
    <2>3. events[Start(s) - Oldest + 1].id = Start(s)
      BY <1>4, <1>5, <2>1, <2>2
    <2>4. ~(Start(s) - Oldest + 1 < i)
      BY <1>1, <1>3, <2>1, <2>2, <2>3, <1>5
    <2>5. i <= Start(s) - Oldest + 1
      BY <1>3, <1>5, <2>1, <2>4
    <2>6. QED
      BY <1>1, <1>3, <1>4, <1>5, <2>1, <2>5
  <1>9. /\ events[i].id \in cursor[s]..(nextId - 1)
        /\ cursor'[s] = events[i].id + 1
        /\ \A r \in Subscribers \ {s} : cursor'[r] = cursor[r] /\ received'[r] = received[r]
        /\ received'[s] = Append(got, events[i])
    BY <1>1, <1>2, <1>3, <1>5, <1>6, <1>7, <1>8 DEF TypeOK
  <1>10. events[i] = log[events[i].id]
    <2>1. events[i] = log[Oldest - 1 + i]
      BY <1>1 DEF IInv, RingIsNewestSuffix
    <2>2. QED BY <1>3, <1>4, <2>1
  <1>11. /\ Len(received'[s]) = Len(got) + 1 /\ Len(got) \in Nat
         /\ received'[s][Len(got) + 1] = events[i]
         /\ \A k \in 1..Len(got) : received'[s][k] = got[k]
         /\ DOMAIN received'[s] = 1..(Len(got) + 1) /\ DOMAIN got = 1..Len(got)
    <2>1. events[i] \in Event
      BY <1>2, <1>3
    <2>2. QED BY <1>2, <1>9, <2>1
  <1> DEFINE new == received'[s]
  <1>12. \A k \in 1..Len(got) : /\ got[k].id \in opened[s]..(cursor[s] - 1)
                                /\ got[k] = log[got[k].id]
    BY <1>11 DEF IInv, InOrderOnce
  <1>13. /\ opened'[s] = opened[s] /\ log' = log
         /\ cursor'[s] \in Nat /\ cursor[s] < cursor'[s] /\ cursor'[s] <= nextId
         /\ opened[s]..(cursor[s] - 1) \subseteq opened[s]..(cursor'[s] - 1)
         /\ events[i].id \in opened[s]..(cursor'[s] - 1)
    <2>1. opened' = opened /\ log' = log
      BY <1>2
    <2>2. /\ events[i].id \in Nat /\ cursor[s] <= events[i].id
          /\ events[i].id < nextId /\ cursor'[s] = events[i].id + 1
      BY <1>2, <1>9
    <2>3. QED BY <1>2, <2>1, <2>2
  <1>14. \A k \in 1..(Len(got) + 1) : /\ new[k].id \in opened[s]..(cursor'[s] - 1)
                                      /\ new[k] = log[new[k].id]
    <2>1. ASSUME NEW k \in 1..Len(got)
          PROVE  new[k].id \in opened[s]..(cursor'[s] - 1) /\ new[k] = log[new[k].id]
      <3>1. new[k] = got[k]
        BY <1>11, <2>1
      <3>2. QED BY <1>12, <1>13, <2>1, <3>1
    <2>2. /\ new[Len(got) + 1].id \in opened[s]..(cursor'[s] - 1)
          /\ new[Len(got) + 1] = log[new[Len(got) + 1].id]
      BY <1>10, <1>11, <1>13
    <2>3. QED BY <1>11, <2>1, <2>2
  <1>15. ASSUME NEW j \in 1..(Len(got) + 1), NEW k \in 1..(Len(got) + 1), j < k
         PROVE  new[j].id < new[k].id
    <2>1. j \in 1..Len(got)
      BY <1>11, <1>15
    <2>2. new[j] = got[j]
      BY <1>11, <2>1
    <2>3. CASE k = Len(got) + 1
      <3>1. got[j].id \in opened[s]..(cursor[s] - 1)
        BY <1>12, <2>1
      <3>2. new[k].id \in cursor[s]..(nextId - 1)
        BY <1>9, <1>11, <2>3
      <3>3. got[j].id \in Int /\ got[j].id < cursor[s]
        BY <1>2, <3>1
      <3>4. new[k].id \in Int /\ cursor[s] <= new[k].id
        BY <1>2, <3>2
      <3>5. QED BY <1>2, <2>2, <3>3, <3>4
    <2>4. CASE k \in 1..Len(got)
      <3>1. new[k] = got[k]
        BY <1>11, <2>4
      <3>2. got[j].id < got[k].id
        BY <1>11, <1>15, <2>1, <2>4 DEF IInv, InOrderOnce
      <3>3. QED BY <2>2, <3>1, <3>2
    <2>5. QED BY <1>11, <2>3, <2>4
  <1>16. ASSUME NEW r \in Subscribers \ {s}
         PROVE  /\ opened'[r] = opened[r] /\ cursor'[r] = cursor[r]
                /\ received'[r] = received[r]
    BY <1>2, <1>9
  <1>17. InOrderOnce'
    <2>1. ASSUME NEW r \in Subscribers
          PROVE  /\ \A k \in DOMAIN received'[r] :
                       /\ received'[r][k].id \in opened'[r] .. (cursor'[r] - 1)
                       /\ received'[r][k] = log'[received'[r][k].id]
                 /\ \A j, k \in DOMAIN received'[r] :
                       j < k => received'[r][j].id < received'[r][k].id
      <3>1. CASE r = s
        BY <1>11, <1>13, <1>14, <1>15, <3>1
      <3>2. CASE r # s
        BY <1>13, <1>16, <3>2 DEF IInv, InOrderOnce
      <3>3. QED BY <3>1, <3>2
    <2>2. QED BY <2>1 DEF InOrderOnce
  <1>18. LostOnlyByOverrun'
    <2>1. ASSUME NEW id \in opened[s] .. (cursor'[s] - 1)
          PROVE  (\E k \in DOMAIN new : new[k].id = id) \/ id < Oldest
      <3>1. CASE id = events[i].id
        <4>1. Len(got) + 1 \in DOMAIN new
          BY <1>11
        <4>2. QED BY <1>11, <3>1, <4>1
      <3>2. CASE id \in opened[s]..(cursor[s] - 1)
        <4>1. (\E k \in 1..Len(got) : got[k].id = id) \/ id < Oldest
          BY <1>11, <3>2 DEF IInv, LostOnlyByOverrun
        <4>2. \A k \in 1..Len(got) : k \in DOMAIN new /\ new[k] = got[k]
          BY <1>11
        <4>3. QED BY <4>1, <4>2
      <3>3. CASE id \in cursor[s]..(events[i].id - 1)
        BY <1>2, <1>5, <1>6, <1>8, <3>3
      <3>4. id \in Int /\ events[i].id \in Int /\ cursor'[s] = events[i].id + 1
            /\ opened[s] <= id /\ id <= events[i].id
        BY <1>2, <1>9, <1>13
      <3>5. QED BY <1>2, <3>1, <3>2, <3>3, <3>4
    <2>2. Oldest' = Oldest
      BY <1>2 DEF Oldest
    <2>3. ASSUME NEW r \in Subscribers, NEW id \in opened'[r] .. (cursor'[r] - 1)
          PROVE  (\E k \in DOMAIN received'[r] : received'[r][k].id = id) \/ id < Oldest'
      <3>1. CASE r = s
        BY <1>13, <2>1, <2>2, <2>3, <3>1
      <3>2. CASE r # s
        BY <1>16, <2>2, <2>3, <3>2 DEF IInv, LostOnlyByOverrun
      <3>3. QED BY <3>1, <3>2
    <2>4. QED BY <2>3 DEF LostOnlyByOverrun
  <1>19. CursorsInRange'
    <2>1. ASSUME NEW r \in Subscribers
          PROVE  opened'[r] <= cursor'[r] /\ cursor'[r] <= nextId'
      <3>1. CASE r = s
        BY <1>2, <1>13, <3>1
      <3>2. CASE r # s
        BY <1>2, <1>16, <3>2 DEF IInv, CursorsInRange
      <3>3. QED BY <3>1, <3>2
    <2>2. QED BY <2>1 DEF CursorsInRange
  <1>20. LogNumbered' /\ RingIsNewestSuffix'
    BY <1>2 DEF IInv, LogNumbered, RingIsNewestSuffix, Oldest
  <1>21. QED
    BY <1>19, <1>20, <1>17, <1>18 DEF IInv

\* Steps that leave ring, cursors and history alone.
LEMMA QuietIInv ==
    ASSUME IInv, UNCHANGED <<events, nextId, cursor, log, opened, received>>
    PROVE  IInv'
  BY DEF IInv, LogNumbered, RingIsNewestSuffix, CursorsInRange, InOrderOnce,
         LostOnlyByOverrun, Oldest

LEMMA SubscribeIInv ==
    ASSUME TypeOK, IInv, NEW s \in Subscribers, Subscribe(s)
    PROVE  IInv'
  <1>1. /\ UNCHANGED <<events, nextId, log>>
        /\ cursor' = [cursor EXCEPT ![s] = nextId]
        /\ opened' = [opened EXCEPT ![s] = nextId]
        /\ received' = [received EXCEPT ![s] = <<>>]
        /\ nextId \in Nat \ {0}
    BY DEF Subscribe, bus, TypeOK
  <1>2. LogNumbered' /\ RingIsNewestSuffix'
    BY <1>1 DEF IInv, LogNumbered, RingIsNewestSuffix, Oldest
  <1>3. CursorsInRange'
    BY <1>1 DEF IInv, CursorsInRange, TypeOK
  <1>4. InOrderOnce'
    <2>1. ASSUME NEW r \in Subscribers
          PROVE  \/ received'[r] = <<>>
                 \/ /\ received'[r] = received[r]
                    /\ opened'[r] = opened[r] /\ cursor'[r] = cursor[r]
      BY <1>1 DEF TypeOK
    <2>2. QED BY <1>1, <2>1 DEF IInv, InOrderOnce
  <1>5. LostOnlyByOverrun'
    <2>1. ASSUME NEW r \in Subscribers
          PROVE  \/ opened'[r] .. (cursor'[r] - 1) = {}
                 \/ /\ received'[r] = received[r]
                    /\ opened'[r] = opened[r] /\ cursor'[r] = cursor[r]
      BY <1>1 DEF TypeOK
    <2>2. Oldest' = Oldest
      BY <1>1 DEF Oldest
    <2>3. QED BY <2>1, <2>2 DEF IInv, LostOnlyByOverrun
  <1>6. QED BY <1>2, <1>3, <1>4, <1>5 DEF IInv

LEMMA NextIInv == TypeOK /\ TypeOK' /\ IInv /\ [Next]_vars => IInv'
  <1> SUFFICES ASSUME TypeOK, TypeOK', IInv, [Next]_vars PROVE IInv'
    OBVIOUS
  <1>1. ASSUME NEW p \in Publishers, Publish(p) PROVE IInv'
    BY <1>1, PublishIInv
  <1>2. ASSUME NEW p \in Publishers, NotifyAll(p) PROVE IInv'
    BY <1>2, QuietIInv DEF NotifyAll, history
  <1>3. ASSUME NEW s \in Subscribers, Subscribe(s) PROVE IInv'
    BY <1>3, SubscribeIInv
  <1>4. ASSUME NEW s \in Subscribers, TakeNext(s) PROVE IInv'
    BY <1>4, HandOutIInv DEF TakeNext
  <1>5. ASSUME NEW s \in Subscribers, FallAsleep(s) PROVE IInv'
    BY <1>5, QuietIInv DEF FallAsleep, bus, history
  <1>6. ASSUME NEW s \in Subscribers, TimeOut(s) PROVE IInv'
    <2>1. CASE HasEvent(s) /\ HandOut(s)
      BY <2>1, HandOutIInv
    <2>2. CASE UNCHANGED <<bus, cursor, history>>
      BY <2>2, QuietIInv DEF bus, history
    <2>3. QED BY <1>6, <2>1, <2>2 DEF TimeOut
  <1>7. ASSUME NEW s \in Subscribers, Close(s) PROVE IInv'
    BY <1>7, QuietIInv DEF Close, bus, history
  <1>8. CASE UNCHANGED vars
    BY <1>8, QuietIInv DEF vars, bus, subs, history
  <1>9. QED
    BY <1>1, <1>2, <1>3, <1>4, <1>5, <1>6, <1>7, <1>8 DEF Next, Reader

LEMMA Inductive == Spec => [](TypeOK /\ IInv)
  BY InitTypeOK, InitIInv, NextTypeOK, NextIInv, PTL DEF Spec

\* The ring is always the newest part of what was published (the search of
\* waitNext and the answer of recent() rely on it).
THEOREM RingShape == Spec => []RingIsNewestSuffix
  BY Inductive, PTL DEF IInv

\* A connection is handed published events from its subscription on, each at
\* most once, in the order of publication.
THEOREM InOrderDelivery == Spec => []InOrderOnce
  BY Inductive, PTL DEF IInv

\* A connection misses an event only when the ring has overrun it.
THEOREM NoOtherLoss == Spec => []LostOnlyByOverrun
  BY Inductive, PTL DEF IInv
=============================================================================

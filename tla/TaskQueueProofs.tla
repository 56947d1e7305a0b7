--------------------------- MODULE TaskQueueProofs ---------------------------
(***************************************************************************)
(* The task lane for any set of tasks, any queue and ledger size: first    *)
(* what holds whatever becomes of a write of tasks.json, then what needs   *)
(* that the store does not fail.                                           *)
(***************************************************************************)
EXTENDS TaskQueue, TLAPS, FiniteSetTheorems

USE MaxEventsAssumption, TaskQueueAssumption

-----------------------------------------------------------------------------
(* Rows and ledgers                                                        *)

LEMMA NewestFacts ==
    ASSUME NEW S, NEW log \in Seq(S)
    PROVE  /\ Newest(log) \in Seq(S)
           /\ Len(Newest(log)) = IF Len(log) > MaxEvents THEN MaxEvents ELSE Len(log)
           /\ \A i \in 1..Len(Newest(log)) :
                 Newest(log)[i] = log[Len(log) - Len(Newest(log)) + i]
  <1>1. CASE Len(log) > MaxEvents
    BY <1>1 DEF Newest
  <1>2. CASE ~(Len(log) > MaxEvents)
    BY <1>2 DEF Newest
  <1>3. QED BY <1>1, <1>2

LEMMA NoRowType == NoRow \in Row /\ NoRows \in [Tasks -> Row]
  BY DEF NoRow, NoRows, Row, Statuses, Event

LEMMA AppendEventType ==
    ASSUME NEW row \in Row, NEW type \in EventTypes, NEW status \in Statuses
    PROVE  AppendEvent(row, type, status) \in Row
  <1> DEFINE ev == [seq |-> row.nextSeq, type |-> type, status |-> status]
  <1>1. row.events \in Seq(Event) /\ row.nextSeq \in Nat \ {0}
    BY DEF Row
  <1>2. ev \in Event
    BY <1>1 DEF Event
  <1>3. Append(row.events, ev) \in Seq(Event)
    BY <1>1, <1>2
  <1>4. Newest(Append(row.events, ev)) \in Seq(Event)
    BY <1>3, NewestFacts
  <1>5. row.nextSeq + 1 \in Nat \ {0}
    BY <1>1
  <1>6. QED
    BY <1>4, <1>5 DEF AppendEvent, Row

LEMMA LoadedNextSeqType ==
    ASSUME NEW row \in Row
    PROVE  LoadedNextSeq(row) \in Nat \ {0}
  <1>1. row.events \in Seq(Event) /\ row.nextSeq \in Nat \ {0}
    BY DEF Row
  <1>2. ASSUME row.events # <<>>
        PROVE  row.events[Len(row.events)].seq + 1 \in Nat \ {0}
    <2>1. row.events[Len(row.events)] \in Event
      BY <1>1, <1>2
    <2>2. QED BY <2>1 DEF Event
  <1>3. QED BY <1>1, <1>2 DEF LoadedNextSeq

LEMMA RecoveredType ==
    ASSUME NEW row \in Row
    PROVE  Recovered(row) \in Row
  <1> DEFINE loaded == [row EXCEPT !.nextSeq = LoadedNextSeq(row)]
  <1>1. loaded \in Row
    BY LoadedNextSeqType DEF Row
  <1>2. AppendEvent(loaded, "task_recovered", "cancelled") \in Row
    BY <1>1, AppendEventType DEF EventTypes, Statuses, Terminal
  <1>3. QED BY <1>1, <1>2 DEF Recovered

-----------------------------------------------------------------------------
(* The queue                                                               *)

LEMMA WithoutType ==
    ASSUME NEW S, NEW q \in Seq(S), NEW t
    PROVE  Without(q, t) \in Seq(S)
  <1>1. ASSUME NEW i \in 1..Len(q) PROVE RemoveAt(q, i) \in Seq(S)
    BY <1>1 DEF RemoveAt
  <1>2. QED BY <1>1 DEF Without

LEMMA OrderingsType ==
    ASSUME NEW S, NEW T, S \subseteq T, NEW q \in Orderings(S), IsFiniteSet(S)
    PROVE  q \in Seq(T)
  <1>1. Cardinality(S) \in Nat
    BY FS_CardinalityType
  <1>2. q \in [1..Cardinality(S) -> T]
    BY DEF Orderings, SetToSeqs
  <1>3. QED BY <1>1, <1>2, SMT

-----------------------------------------------------------------------------
(* Types                                                                   *)

LEMMA WriteType ==
    ASSUME TypeOK, NEW t \in Tasks, NEW row \in Row, Write(t, row)
    PROVE  /\ tasks' = [tasks EXCEPT ![t] = row]
           /\ tasks' \in [Tasks -> Row]
           /\ disk' \in [ok : BOOLEAN, rows : [Tasks -> Row]]
  <1>1. tasks' = [tasks EXCEPT ![t] = row] /\ tasks' \in [Tasks -> Row]
    BY DEF Write, TypeOK
  <1>2. \/ disk' = [ok |-> TRUE, rows |-> tasks']
        \/ disk' = disk
        \/ disk' = TornFile
    BY <1>1 DEF Write, Save
  <1> DEFINE Store == [ok : BOOLEAN, rows : [Tasks -> Row]]
  <1>3. [ok |-> TRUE, rows |-> tasks'] \in Store
    BY <1>1
  <1>4. TornFile \in Store
    BY NoRowType DEF TornFile
  <1>5. disk \in Store
    BY DEF TypeOK
  <1>6. QED
    BY <1>1, <1>2, <1>3, <1>4, <1>5

LEMMA InitTypeOK == Init => TypeOK
  <1> SUFFICES ASSUME Init PROVE TypeOK
    OBVIOUS
  <1>1. disk \in [ok : BOOLEAN, rows : [Tasks -> Row]]
    BY NoRowType DEF Init
  <1>2. tasks \in [Tasks -> Row] /\ queue \in Seq(Tasks)
    BY NoRowType DEF Init
  <1>3. announced \in [Tasks -> Statuses]
    BY DEF Init, Statuses
  <1>4. executed \in [Tasks -> 0..2]
    BY DEF Init
  <1>5. promise \in [Tasks -> {"none", "accepted", "withdrawn", "stopping"}]
    BY DEF Init
  <1>6. QED
    BY <1>1, <1>2, <1>3, <1>4, <1>5 DEF Init, TypeOK, Positions

\* The memory of a process that is gone has the right types.
LEMMA MemoryLostType ==
    ASSUME TypeOK, MemoryLost, phase' = "down", UNCHANGED <<disk, history>>
    PROVE  TypeOK'
  <1>1. tasks' \in [Tasks -> Row] /\ queue' \in Seq(Tasks)
    BY NoRowType DEF MemoryLost
  <1>2. announced' \in [Tasks -> Statuses]
    BY DEF MemoryLost, Statuses
  <1>3. QED
    BY <1>1, <1>2 DEF MemoryLost, TypeOK, Positions, history

\* One step per action; the row written is of type Row in each.
LEMMA NextTypeOK == TypeOK /\ [Next]_vars => TypeOK'
  <1> SUFFICES ASSUME TypeOK, [Next]_vars PROVE TypeOK'
    OBVIOUS
  <1> USE DEF EventTypes, Statuses, Terminal, Active
  <1>1. ASSUME NEW t \in Tasks, Enqueue(t) PROVE TypeOK'
    <2>1. AppendEvent(NoRow, "task_enqueued", "queued") \in Row
      BY NoRowType, AppendEventType
    <2>2. tasks' \in [Tasks -> Row] /\ disk' \in [ok : BOOLEAN, rows : [Tasks -> Row]]
      BY <1>1, <2>1, WriteType DEF Enqueue
    <2>3. queue' \in Seq(Tasks)
      BY <1>1 DEF Enqueue, TypeOK
    <2>4. pc' \in Positions /\ pc' \in {pc, "check"}
      BY <1>1 DEF Enqueue, Notify, TypeOK, Positions
    <2>5. QED
      BY <1>1, <2>2, <2>3, <2>4 DEF Enqueue, Announce, TypeOK
  <1>2. ASSUME NEW t \in Tasks, CancelQueued(t) PROVE TypeOK'
    <2>1. AppendEvent(tasks[t], "task_cancelled", "cancelled") \in Row
      BY AppendEventType DEF TypeOK
    <2>2. tasks' \in [Tasks -> Row] /\ disk' \in [ok : BOOLEAN, rows : [Tasks -> Row]]
      BY <1>2, <2>1, WriteType DEF CancelQueued
    <2>3. queue' \in Seq(Tasks)
      BY <1>2, WithoutType DEF CancelQueued, TypeOK
    <2>4. QED
      BY <1>2, <2>2, <2>3 DEF CancelQueued, Announce, TypeOK
  <1>3. ASSUME NEW t \in Tasks, CancelRunning(t) PROVE TypeOK'
    <2>1. AppendEvent(tasks[t], "task_cancelling", "cancelling") \in Row
      BY AppendEventType DEF TypeOK
    <2>2. tasks' \in [Tasks -> Row] /\ disk' \in [ok : BOOLEAN, rows : [Tasks -> Row]]
      BY <1>3, <2>1, WriteType DEF CancelRunning
    <2>3. QED
      BY <1>3, <2>2 DEF CancelRunning, Announce, TypeOK
  <1>4. ASSUME NEW t \in Tasks, CancelAgain(t) PROVE TypeOK'
    <2>1. AppendEvent(tasks[t], "task_cancel_ignored", "cancelling") \in Row
      BY AppendEventType DEF TypeOK
    <2>2. tasks' \in [Tasks -> Row] /\ disk' \in [ok : BOOLEAN, rows : [Tasks -> Row]]
      BY <1>4, <2>1, WriteType DEF CancelAgain
    <2>3. QED
      BY <1>4, <2>2 DEF CancelAgain, Announce, TypeOK, history
  <1>5. CASE LoopTop
    BY <1>5 DEF LoopTop, WorkerAt, TypeOK, Positions, history
  <1>6. CASE Leave
    BY <1>6 DEF Leave, WorkerAt, TypeOK, Positions, history
  <1>7. CASE Block
    BY <1>7 DEF Block, WorkerAt, TypeOK, Positions, history
  <1>8. CASE Sleep
    BY <1>8 DEF Sleep, WorkerAt, TypeOK, Positions, history
  <1>9. CASE TimedOut
    BY <1>9 DEF TimedOut, WorkerAt, TypeOK, Positions, history
  <1>10. CASE Take
    <2>1. Head(queue) \in Tasks /\ Tail(queue) \in Seq(Tasks)
      BY <1>10 DEF Take, TypeOK
    <2>2. AppendEvent(tasks[Head(queue)], "task_started", "running") \in Row
      BY <2>1, AppendEventType DEF TypeOK
    <2>3. tasks' \in [Tasks -> Row] /\ disk' \in [ok : BOOLEAN, rows : [Tasks -> Row]]
      BY <1>10, <2>1, <2>2, WriteType DEF Take
    <2>4. QED
      BY <1>10, <2>1, <2>3 DEF Take, WorkerAt, TypeOK, Positions, history
  <1>11. CASE Execute
    <2>1. executed' \in [Tasks -> 0..2]
      <3>1. \A n \in 0..2 : (IF n < 2 THEN n + 1 ELSE 2) \in 0..2
        OBVIOUS
      <3>2. QED BY <1>11, <3>1 DEF Execute, WorkerAt, TypeOK
    <2>2. QED
      BY <1>11, <2>1 DEF Execute, WorkerAt, TypeOK, Positions
  <1>12. ASSUME NEW result \in {"done", "failed", "timeout"}, Return(result) PROVE TypeOK'
    BY <1>12 DEF Return, WorkerAt, TypeOK, Positions, history
  <1>13. CASE Finish
    <2>1. cur \in Tasks /\ FinalStatus \in Terminal
      BY <1>13 DEF Finish, WorkerAt, FinalStatus, TypeOK
    <2>2. AppendEvent(tasks[cur], "task_finished", FinalStatus) \in Row
      BY <2>1, AppendEventType DEF TypeOK
    <2>3. tasks' \in [Tasks -> Row] /\ disk' \in [ok : BOOLEAN, rows : [Tasks -> Row]]
      BY <1>13, <2>1, <2>2, WriteType DEF Finish
    <2>4. cancelFlags' \subseteq Tasks
      BY <1>13 DEF Finish, FlagsConsumed, TypeOK
    <2>5. QED
      BY <1>13, <2>1, <2>3, <2>4 DEF Finish, WorkerAt, TypeOK, Positions, history
  <1>14. CASE Publish
    BY <1>14 DEF Publish, WorkerAt, Announce, TypeOK, Positions, history
  <1>15. CASE Boot
    <2> DEFINE rows == [t \in Tasks |-> Recovered(disk.rows[t])]
               waiting == {t \in Tasks : rows[t].status = "queued"}
    <2>1. rows \in [Tasks -> Row]
      BY RecoveredType DEF TypeOK
    <2>2. /\ tasks' = rows /\ queue' \in Orderings(waiting)
          /\ disk' = [ok |-> TRUE, rows |-> rows] \/ disk' = TornFile
      BY <1>15 DEF Boot
    <2>3. IsFiniteSet(waiting)
      BY FS_Subset
    <2>4. queue' \in Seq(Tasks)
      BY <2>2, <2>3, OrderingsType
    <2>5. disk' \in [ok : BOOLEAN, rows : [Tasks -> Row]]
      <3>1. TornFile \in [ok : BOOLEAN, rows : [Tasks -> Row]]
        BY NoRowType DEF TornFile
      <3> HIDE DEF rows
      <3>2. [ok |-> TRUE, rows |-> rows] \in [ok : BOOLEAN, rows : [Tasks -> Row]]
        BY <2>1
      <3>3. QED BY <2>2, <3>1, <3>2
    <2>6. QED
      BY <1>15, <2>1, <2>2, <2>4, <2>5 DEF Boot, TypeOK, Positions, history
  <1>16. CASE BootRefused
    <2>1. disk' \in [ok : BOOLEAN, rows : [Tasks -> Row]]
      <3>1. disk' = disk \/ disk' = TornFile
        BY <1>16 DEF BootRefused
      <3>2. TornFile \in [ok : BOOLEAN, rows : [Tasks -> Row]]
        BY NoRowType DEF TornFile
      <3>3. QED BY <3>1, <3>2 DEF TypeOK
    <2>2. QED
      BY <1>16, <2>1 DEF BootRefused, TypeOK, memory, history
  <1>17. CASE Stop
    BY <1>17 DEF Stop, Notify, TypeOK, Positions, history
  <1>18. CASE Exit \/ Crash
    BY <1>18, MemoryLostType DEF Exit, Crash
  <1>19. CASE UNCHANGED vars
    BY <1>19 DEF vars, memory, history, TypeOK
  <1>20. QED
    BY <1>1, <1>2, <1>3, <1>4, <1>5, <1>6, <1>7, <1>8, <1>9, <1>10, <1>11, <1>12,
       <1>13, <1>14, <1>15, <1>16, <1>17, <1>18, <1>19
       DEF Next, Client, Worker, Process

\* Every variable of the task lane keeps its type (TypeOK), whatever fails.
THEOREM TypeCorrect == Spec => []TypeOK
  BY InitTypeOK, NextTypeOK, PTL DEF Spec

-----------------------------------------------------------------------------
(***************************************************************************)
(* The memory invariant: queue_, tasks_, cancelFlags_ and the worker's     *)
(* locals agree.  It holds whatever becomes of tasks.json, because a boot  *)
(* builds all of them from the same rows.                                  *)
(***************************************************************************)
DownIsEmpty ==
    ~ProcessUp => /\ tasks = NoRows /\ queue = <<>> /\ cancelFlags = {}
                  /\ pc = "exited"

MemoryInv == DownIsEmpty /\ QueueMatchesStatus /\ WorkerOwnsActive

LEMMA RangeOfQueue ==
    ASSUME NEW S, NEW q \in Seq(S)
    PROVE  DOMAIN q = 1..Len(q) /\ Range(q) = {q[i] : i \in 1..Len(q)} /\ Range(q) \subseteq S
  BY DEF Range

LEMMA PushFacts ==
    ASSUME NEW S, NEW q \in Seq(S), NEW t \in S, IsInjective(q), t \notin Range(q)
    PROVE  IsInjective(Append(q, t)) /\ Range(Append(q, t)) = Range(q) \cup {t}
  <1> DEFINE r == Append(q, t)
  <1>1. /\ r \in Seq(S) /\ Len(r) = Len(q) + 1 /\ Len(q) \in Nat
        /\ r[Len(q) + 1] = t /\ \A i \in 1..Len(q) : r[i] = q[i]
    OBVIOUS
  <1>2. DOMAIN r = 1..(Len(q) + 1) /\ DOMAIN q = 1..Len(q)
    BY <1>1
  <1>3. \A i \in 1..Len(q) : q[i] # t
    BY <1>2 DEF Range
  <1> HIDE DEF r
  <1>4. IsInjective(r)
    BY <1>1, <1>2, <1>3 DEF IsInjective
  <1>5. Range(r) = Range(q) \cup {t}
    <2>1. 1..(Len(q) + 1) = (1..Len(q)) \cup {Len(q) + 1}
      BY <1>1
    <2>2. QED BY <1>1, <1>2, <2>1 DEF Range
  <1>6. QED BY <1>4, <1>5 DEF r

LEMMA PopFacts ==
    ASSUME NEW S, NEW q \in Seq(S), q # <<>>, IsInjective(q)
    PROVE  /\ Head(q) \in S /\ Head(q) \in Range(q)
           /\ IsInjective(Tail(q)) /\ Range(Tail(q)) = Range(q) \ {Head(q)}
  <1> DEFINE r == Tail(q)
  <1>1. /\ r \in Seq(S) /\ Len(r) = Len(q) - 1 /\ Len(q) \in Nat \ {0}
        /\ Head(q) = q[1] /\ \A i \in 1..(Len(q) - 1) : r[i] = q[i + 1]
    OBVIOUS
  <1>2. DOMAIN r = 1..(Len(q) - 1) /\ DOMAIN q = 1..Len(q)
    BY <1>1
  <1> HIDE DEF r
  <1>3. \A i, j \in 1..Len(q) : q[i] = q[j] => i = j
    BY <1>2 DEF IsInjective
  <1>4. IsInjective(r)
    BY <1>1, <1>2, <1>3 DEF IsInjective
  <1>5. Range(r) \subseteq Range(q) \ {Head(q)}
    <2>1. ASSUME NEW i \in 1..(Len(q) - 1) PROVE r[i] \in Range(q) \ {Head(q)}
      <3>1. i + 1 \in 1..Len(q) /\ i + 1 # 1 /\ 1 \in 1..Len(q)
        BY <1>1
      <3>2. QED BY <1>1, <1>2, <1>3, <3>1 DEF Range
    <2>2. QED BY <1>2, <2>1 DEF Range
  <1>6. Range(q) \ {Head(q)} \subseteq Range(r)
    <2>1. ASSUME NEW i \in 1..Len(q), q[i] # q[1] PROVE q[i] \in Range(r)
      <3>1. i - 1 \in 1..(Len(q) - 1) /\ (i - 1) + 1 = i
        BY <1>1, <2>1
      <3>2. r[i - 1] = q[i]
        BY <1>1, <3>1
      <3>3. QED BY <1>2, <3>1, <3>2 DEF Range
    <2>2. QED BY <1>1, <1>2, <2>1 DEF Range
  <1>7. Head(q) \in S /\ Head(q) \in Range(q)
    BY <1>1, <1>2 DEF Range
  <1>8. QED BY <1>4, <1>5, <1>6, <1>7 DEF r

\* Taking one position out of an injective sequence.
LEMMA RemoveAtFacts ==
    ASSUME NEW S, NEW q \in Seq(S), NEW k \in 1..Len(q), IsInjective(q)
    PROVE  /\ IsInjective(RemoveAt(q, k))
           /\ Range(RemoveAt(q, k)) = Range(q) \ {q[k]}
  <1> DEFINE r == RemoveAt(q, k)
  <1>1. /\ Len(q) \in Nat \ {0} /\ k \in Nat \ {0} /\ k <= Len(q)
        /\ r \in Seq(S) /\ Len(r) = Len(q) - 1
        /\ \A i \in 1..(Len(q) - 1) : r[i] = q[IF i < k THEN i ELSE i + 1]
    <2> DEFINE a == SubSeq(q, 1, k - 1)
               b == SubSeq(q, k + 1, Len(q))
    <2>1. Len(q) \in Nat \ {0} /\ k \in Nat \ {0} /\ k <= Len(q)
      OBVIOUS
    <2>2. a \in Seq(S) /\ Len(a) = k - 1 /\ \A i \in 1..(k - 1) : a[i] = q[i]
      BY <2>1
    <2>3. /\ b \in Seq(S) /\ Len(b) = Len(q) - k
          /\ \A i \in 1..(Len(q) - k) : b[i] = q[i + k]
      BY <2>1
    <2>4. r = a \o b
      BY DEF RemoveAt
    <2> HIDE DEF a, b, r
    <2>5. r \in Seq(S) /\ Len(r) = Len(q) - 1
      BY <2>1, <2>2, <2>3, <2>4
    <2>6. ASSUME NEW i \in 1..(Len(q) - 1)
          PROVE  r[i] = q[IF i < k THEN i ELSE i + 1]
      <3>1. CASE i < k
        <4>1. i \in 1..(k - 1)
          BY <2>1, <3>1
        <4>2. r[i] = a[i]
          BY <2>1, <2>2, <2>3, <2>4, <4>1
        <4>3. QED BY <2>2, <3>1, <4>1, <4>2
      <3>2. CASE ~(i < k)
        <4>1. i - (k - 1) \in 1..(Len(q) - k) /\ (i - (k - 1)) + k = i + 1
          BY <2>1, <3>2
        <4>2. r[i] = b[i - (k - 1)]
          BY <2>1, <2>2, <2>3, <2>4, <3>2, <4>1
        <4>3. QED BY <2>3, <3>2, <4>1, <4>2
      <3>3. QED BY <3>1, <3>2
    <2>7. QED BY <2>1, <2>5, <2>6
  <1>2. DOMAIN r = 1..(Len(q) - 1) /\ DOMAIN q = 1..Len(q)
    BY <1>1
  <1> HIDE DEF r
  <1> DEFINE src(i) == IF i < k THEN i ELSE i + 1
  <1>3. \A i, j \in 1..Len(q) : q[i] = q[j] => i = j
    BY <1>2 DEF IsInjective
  <1>4. \A i \in 1..(Len(q) - 1) : src(i) \in 1..Len(q) /\ src(i) # k /\ r[i] = q[src(i)]
    BY <1>1
  <1>5. \A i, j \in 1..(Len(q) - 1) : src(i) = src(j) => i = j
    BY <1>1
  <1>6. IsInjective(r)
    BY <1>2, <1>3, <1>4, <1>5 DEF IsInjective
  <1>7. Range(r) \subseteq Range(q) \ {q[k]}
    BY <1>2, <1>3, <1>4 DEF Range
  <1>8. Range(q) \ {q[k]} \subseteq Range(r)
    <2>1. ASSUME NEW i \in 1..Len(q), q[i] # q[k] PROVE q[i] \in Range(r)
      <3>1. CASE i < k
        <4>1. i \in 1..(Len(q) - 1) /\ r[i] = q[i]
          BY <1>1, <3>1
        <4>2. QED BY <1>2, <4>1 DEF Range
      <3>2. CASE i > k
        <4>1. i - 1 \in 1..(Len(q) - 1) /\ ~(i - 1 < k) /\ (i - 1) + 1 = i
          BY <1>1, <3>2
        <4>2. r[i - 1] = q[i]
          BY <1>1, <4>1
        <4>3. QED BY <1>2, <4>1, <4>2 DEF Range
      <3>3. i # k
        BY <2>1
      <3>4. QED BY <1>1, <3>1, <3>2, <3>3
    <2>2. QED BY <1>2, <2>1 DEF Range
  <1>9. QED BY <1>6, <1>7, <1>8 DEF r

LEMMA WithoutFacts ==
    ASSUME NEW S, NEW q \in Seq(S), NEW t, IsInjective(q)
    PROVE  IsInjective(Without(q, t)) /\ Range(Without(q, t)) = Range(q) \ {t}
  <1>1. CASE \E i \in DOMAIN q : q[i] = t
    <2> DEFINE k == CHOOSE i \in DOMAIN q : q[i] = t
    <2>1. k \in 1..Len(q) /\ q[k] = t
      BY <1>1
    <2>2. Without(q, t) = RemoveAt(q, k)
      BY <1>1 DEF Without
    <2> HIDE DEF k
    <2>3. QED BY <2>1, <2>2, RemoveAtFacts
  <1>2. CASE ~\E i \in DOMAIN q : q[i] = t
    BY <1>2 DEF Without, Range
  <1>3. QED BY <1>1, <1>2

\* A boot puts every waiting row into the queue, once.
LEMMA OrderingsFacts ==
    ASSUME NEW S, IsFiniteSet(S), NEW q \in Orderings(S)
    PROVE  IsInjective(q) /\ Range(q) = S
  <1> DEFINE D == 1..Cardinality(S)
  <1>1. Cardinality(S) \in Nat
    BY FS_CardinalityType
  <1>2. q \in [D -> S] /\ \A i, j \in D : i # j => q[i] # q[j]
    BY DEF Orderings, SetToSeqs
  <1>3. IsInjective(q)
    BY <1>2 DEF IsInjective
  <1>4. q \in Injection(D, S)
    BY <1>2, <1>3 DEF Injection
  <1>5. IsFiniteSet(D) /\ Cardinality(D) = Cardinality(S)
    BY <1>1, FS_Interval
  <1>6. q \in Surjection(D, S)
    BY <1>4, <1>5, FS_Injection
  <1>7. Range(q) = S
    BY <1>2, <1>6 DEF Surjection, Range
  <1>8. QED BY <1>3, <1>7

-----------------------------------------------------------------------------
(* The memory invariant is inductive                                       *)

LEMMA WriteFrame ==
    ASSUME TypeOK, NEW t \in Tasks, NEW row, Write(t, row)
    PROVE  \A u \in Tasks : tasks'[u] = IF u = t THEN row ELSE tasks[u]
  BY DEF Write, TypeOK

LEMMA AppendEventStatus ==
    ASSUME NEW row, NEW type, NEW status
    PROVE  AppendEvent(row, type, status).status = status
  BY DEF AppendEvent

\* A step outside the worker's hands that keeps rows, queue and flags.
LEMMA IdleStep ==
    ASSUME MemoryInv, ProcessUp', ProcessUp, UNCHANGED <<tasks, queue, cancelFlags>>,
           UNCHANGED <<WorkerBusy, cur>>
    PROVE  MemoryInv'
  BY DEF MemoryInv, DownIsEmpty, QueueMatchesStatus, WorkerOwnsActive

LEMMA MemoryLostInv ==
    ASSUME MemoryLost, phase' = "down"
    PROVE  MemoryInv'
  <1>1. \A t \in Tasks : tasks'[t].status = "absent"
    BY DEF MemoryLost, NoRows, NoRow
  <1>2. queue' = <<>> /\ Range(queue') = {} /\ IsInjective(queue')
    BY DEF MemoryLost, Range, IsInjective
  <1>3. DownIsEmpty'
    BY DEF MemoryLost, DownIsEmpty
  <1>4. QueueMatchesStatus'
    BY <1>1, <1>2 DEF QueueMatchesStatus
  <1>5. WorkerOwnsActive'
    BY <1>1 DEF WorkerOwnsActive, MemoryLost, WorkerBusy, Active
  <1>6. QED BY <1>3, <1>4, <1>5 DEF MemoryInv

LEMMA InitMemoryInv == Init => MemoryInv
  <1> SUFFICES ASSUME Init PROVE MemoryInv
    OBVIOUS
  <1>1. \A t \in Tasks : tasks[t].status = "absent"
    BY DEF Init, NoRows, NoRow
  <1>2. queue = <<>> /\ Range(queue) = {} /\ IsInjective(queue)
    BY DEF Init, Range, IsInjective
  <1>3. DownIsEmpty
    BY DEF Init, DownIsEmpty
  <1>4. QueueMatchesStatus
    BY <1>1, <1>2 DEF QueueMatchesStatus
  <1>5. WorkerOwnsActive
    BY <1>1 DEF WorkerOwnsActive, Init, WorkerBusy, Active
  <1>6. QED BY <1>3, <1>4, <1>5 DEF MemoryInv

LEMMA EnqueueMemoryInv ==
    ASSUME TypeOK, MemoryInv, NEW t \in Tasks, Enqueue(t)
    PROVE  MemoryInv'
  <1>1. \A u \in Tasks : tasks'[u].status = IF u = t THEN "queued" ELSE tasks[u].status
    BY WriteFrame, AppendEventStatus DEF Enqueue
  <1>2. tasks[t].status = "absent" /\ queue' = Append(queue, t) /\ queue \in Seq(Tasks)
    BY DEF Enqueue, TypeOK
  <1>3. QueueMatchesStatus'
    <2>1. IsInjective(queue) /\ t \notin Range(queue)
      BY <1>2 DEF MemoryInv, QueueMatchesStatus
    <2>2. IsInjective(queue') /\ Range(queue') = Range(queue) \cup {t}
      BY <1>2, <2>1, PushFacts
    <2>3. QED
      BY <1>1, <2>2 DEF MemoryInv, QueueMatchesStatus
  <1>4. (WorkerBusy' <=> WorkerBusy) /\ cur' = cur /\ cancelFlags' = cancelFlags
    BY DEF Enqueue, Notify, WorkerBusy
  <1>5. WorkerOwnsActive'
    BY <1>1, <1>2, <1>4 DEF MemoryInv, WorkerOwnsActive, Active
  <1>6. DownIsEmpty'
    BY DEF Enqueue, DownIsEmpty, ProcessUp
  <1>7. QED BY <1>3, <1>5, <1>6 DEF MemoryInv

LEMMA CancelMemoryInv ==
    ASSUME TypeOK, MemoryInv, NEW t \in Tasks,
           CancelQueued(t) \/ CancelRunning(t) \/ CancelAgain(t)
    PROVE  MemoryInv'
  <1> USE DEF MemoryInv, Active
  <1>1. CASE CancelQueued(t)
    <2>1. \A u \in Tasks : tasks'[u].status = IF u = t THEN "cancelled" ELSE tasks[u].status
      BY <1>1, WriteFrame, AppendEventStatus DEF CancelQueued
    <2>2. QueueMatchesStatus'
      <3>1. queue \in Seq(Tasks) /\ IsInjective(queue) /\ queue' = Without(queue, t)
        BY <1>1 DEF CancelQueued, TypeOK, QueueMatchesStatus
      <3>2. IsInjective(queue') /\ Range(queue') = Range(queue) \ {t}
        BY <3>1, WithoutFacts
      <3>3. QED BY <2>1, <3>2 DEF QueueMatchesStatus
    <2>3. WorkerOwnsActive'
      BY <1>1, <2>1 DEF CancelQueued, WorkerOwnsActive, WorkerBusy
    <2>4. DownIsEmpty'
      BY <1>1 DEF CancelQueued, DownIsEmpty, ProcessUp
    <2>5. QED BY <2>2, <2>3, <2>4
  <1>2. CASE CancelRunning(t)
    <2>1. \A u \in Tasks : tasks'[u].status = IF u = t THEN "cancelling" ELSE tasks[u].status
      BY <1>2, WriteFrame, AppendEventStatus DEF CancelRunning
    <2>2. QueueMatchesStatus'
      BY <1>2, <2>1 DEF CancelRunning, QueueMatchesStatus
    <2>3. WorkerOwnsActive'
      BY <1>2, <2>1 DEF CancelRunning, WorkerOwnsActive, WorkerBusy
    <2>4. DownIsEmpty'
      BY <1>2 DEF CancelRunning, DownIsEmpty, ProcessUp
    <2>5. QED BY <2>2, <2>3, <2>4
  <1>3. CASE CancelAgain(t)
    <2>1. \A u \in Tasks : tasks'[u].status = tasks[u].status
      BY <1>3, WriteFrame, AppendEventStatus DEF CancelAgain
    <2>2. QueueMatchesStatus'
      BY <1>3, <2>1 DEF CancelAgain, QueueMatchesStatus
    <2>3. WorkerOwnsActive'
      BY <1>3, <2>1 DEF CancelAgain, WorkerOwnsActive, WorkerBusy
    <2>4. DownIsEmpty'
      BY <1>3 DEF CancelAgain, DownIsEmpty, ProcessUp
    <2>5. QED BY <2>2, <2>3, <2>4
  <1>4. QED BY <1>1, <1>2, <1>3

\* The worker takes a task only when it holds none, so that nothing else is
\* in progress.
LEMMA TakeMemoryInv ==
    ASSUME TypeOK, MemoryInv, Take
    PROVE  MemoryInv'
  <1> DEFINE h == Head(queue)
  <1>1. /\ queue \in Seq(Tasks) /\ queue # <<>> /\ queue' = Tail(queue)
        /\ cur' = h /\ cancelFlags' = cancelFlags /\ ProcessUp'
        /\ ~WorkerBusy /\ WorkerBusy'
    BY DEF Take, WorkerAt, TypeOK, WorkerBusy, ProcessUp
  <1>2. /\ h \in Tasks /\ h \in Range(queue) /\ IsInjective(queue')
        /\ Range(queue') = Range(queue) \ {h}
    BY <1>1, PopFacts DEF MemoryInv, QueueMatchesStatus
  <1>3. tasks[h].status = "queued"
    BY <1>2 DEF MemoryInv, QueueMatchesStatus
  <1>4. \A u \in Tasks : tasks'[u].status = IF u = h THEN "running" ELSE tasks[u].status
    BY <1>2, WriteFrame, AppendEventStatus DEF Take
  <1> HIDE DEF h
  <1>5. QueueMatchesStatus'
    BY <1>2, <1>4 DEF MemoryInv, QueueMatchesStatus
  <1>6. WorkerOwnsActive'
    BY <1>1, <1>2, <1>3, <1>4 DEF MemoryInv, WorkerOwnsActive, Active
  <1>7. QED BY <1>1, <1>5, <1>6 DEF MemoryInv, DownIsEmpty

LEMMA FinishMemoryInv ==
    ASSUME TypeOK, MemoryInv, Finish
    PROVE  MemoryInv'
  <1>1. /\ cur \in Tasks /\ cur' = cur /\ queue' = queue /\ ProcessUp'
        /\ cancelFlags' = cancelFlags \ {cur} /\ WorkerBusy /\ ~WorkerBusy'
    BY DEF Finish, FlagsConsumed, WorkerAt, TypeOK, WorkerBusy, ProcessUp
  <1>2. tasks[cur].status \in Active
    BY <1>1 DEF MemoryInv, WorkerOwnsActive
  <1>3. FinalStatus \in Terminal
    BY DEF Finish, WorkerAt, FinalStatus, TypeOK, Terminal
  <1>4. \A u \in Tasks : tasks'[u].status = IF u = cur THEN FinalStatus ELSE tasks[u].status
    BY <1>1, WriteFrame, AppendEventStatus DEF Finish
  <1>5. FinalStatus \notin Active \cup {"queued"} /\ "queued" \notin Active
    BY <1>3 DEF Terminal, Active
  <1>6. QueueMatchesStatus'
    BY <1>1, <1>2, <1>4, <1>5 DEF MemoryInv, QueueMatchesStatus
  <1>7. WorkerOwnsActive'
    BY <1>1, <1>4, <1>5 DEF MemoryInv, WorkerOwnsActive, Active
  <1>8. QED BY <1>1, <1>6, <1>7 DEF MemoryInv, DownIsEmpty

LEMMA RecoveredStatus ==
    ASSUME NEW row \in Row
    PROVE  Recovered(row).status =
             IF row.status \in Active THEN "cancelled" ELSE row.status
  BY AppendEventStatus DEF Recovered, Row

\* Recovery leaves nothing in progress, as the new worker holds nothing.
LEMMA BootMemoryInv ==
    ASSUME TypeOK, MemoryInv, Boot
    PROVE  MemoryInv'
  <1> DEFINE rows == [t \in Tasks |-> Recovered(disk.rows[t])]
             waiting == {t \in Tasks : rows[t].status = "queued"}
  <1>1. /\ tasks' = rows /\ queue' \in Orderings(waiting) /\ ProcessUp'
        /\ cancelFlags' = cancelFlags /\ ~WorkerBusy' /\ cancelFlags = {}
    BY DEF Boot, WorkerBusy, ProcessUp, MemoryInv, DownIsEmpty
  <1>2. \A t \in Tasks : disk.rows[t] \in Row
    BY DEF TypeOK
  <1>3. \A t \in Tasks : rows[t].status \notin Active
    BY <1>2, RecoveredStatus DEF Active
  <1>4. IsFiniteSet(waiting)
    BY FS_Subset
  <1> HIDE DEF rows
  <1>5. IsInjective(queue') /\ Range(queue') = waiting
    BY <1>1, <1>4, OrderingsFacts
  <1>6. QueueMatchesStatus'
    BY <1>1, <1>5 DEF QueueMatchesStatus
  <1>7. WorkerOwnsActive'
    BY <1>1, <1>3 DEF WorkerOwnsActive, Active
  <1>8. QED BY <1>1, <1>6, <1>7 DEF MemoryInv, DownIsEmpty

LEMMA NextMemoryInv == TypeOK /\ MemoryInv /\ [Next]_vars => MemoryInv'
  <1> SUFFICES ASSUME TypeOK, MemoryInv, [Next]_vars PROVE MemoryInv'
    OBVIOUS
  <1>1. ASSUME NEW t \in Tasks, Enqueue(t) PROVE MemoryInv'
    BY <1>1, EnqueueMemoryInv
  <1>2. ASSUME NEW t \in Tasks, CancelQueued(t) \/ CancelRunning(t) \/ CancelAgain(t)
        PROVE  MemoryInv'
    BY <1>2, CancelMemoryInv
  <1>3. CASE LoopTop \/ Leave \/ Block \/ Sleep \/ TimedOut
    BY <1>3, IdleStep
       DEF LoopTop, Leave, Block, Sleep, TimedOut, WorkerAt, WorkerBusy, ProcessUp
  <1>4. CASE Take
    BY <1>4, TakeMemoryInv
  <1>5. CASE Execute
    BY <1>5, IdleStep DEF Execute, WorkerAt, WorkerBusy, ProcessUp
  <1>6. ASSUME NEW result \in {"done", "failed", "timeout"}, Return(result)
        PROVE  MemoryInv'
    BY <1>6, IdleStep DEF Return, WorkerAt, WorkerBusy, ProcessUp
  <1>7. CASE Finish
    BY <1>7, FinishMemoryInv
  <1>8. CASE Publish
    <2>1. /\ UNCHANGED <<tasks, queue, cancelFlags>> /\ ProcessUp'
          /\ ~WorkerBusy /\ ~WorkerBusy'
      BY <1>8 DEF Publish, WorkerAt, WorkerBusy, ProcessUp
    <2>2. QED
      BY <2>1 DEF MemoryInv, DownIsEmpty, QueueMatchesStatus, WorkerOwnsActive
  <1>9. CASE Boot
    BY <1>9, BootMemoryInv
  <1>10. CASE BootRefused \/ UNCHANGED vars
    <2>1. /\ UNCHANGED <<tasks, queue, cancelFlags, pc, cur>>
          /\ ProcessUp' <=> ProcessUp
      BY <1>10 DEF BootRefused, vars, memory, ProcessUp
    <2>2. QED
      BY <2>1 DEF MemoryInv, DownIsEmpty, QueueMatchesStatus, WorkerOwnsActive, WorkerBusy
  <1>11. CASE Stop
    BY <1>11, IdleStep DEF Stop, Notify, WorkerBusy, ProcessUp
  <1>12. CASE Exit \/ Crash
    BY <1>12, MemoryLostInv DEF Exit, Crash
  <1>13. QED
    BY <1>1, <1>2, <1>3, <1>4, <1>5, <1>6, <1>7, <1>8, <1>9, <1>10, <1>11, <1>12
       DEF Next, Client, Worker, Process

\* The queue holds exactly the queued tasks, each once, whatever happens to
\* tasks.json and whenever the process dies (QueueMatchesStatus).
THEOREM QueueIsTheQueued == Spec => []QueueMatchesStatus
  <1>1. MemoryInv => QueueMatchesStatus
    BY DEF MemoryInv
  <1>2. QED
    BY <1>1, InitTypeOK, NextTypeOK, InitMemoryInv, NextMemoryInv, PTL DEF Spec

\* Only the task in the worker's hands is running or cancelling, and a cancel
\* flag is up exactly while a cancellation is pending (WorkerOwnsActive).
THEOREM OneTaskInProgress == Spec => []WorkerOwnsActive
  <1>1. MemoryInv => WorkerOwnsActive
    BY DEF MemoryInv
  <1>2. QED
    BY <1>1, InitTypeOK, NextTypeOK, InitMemoryInv, NextMemoryInv, PTL DEF Spec

-----------------------------------------------------------------------------
(***************************************************************************)
(* The ledger.  Memory and file hold the same kind of rows, so that the    *)
(* invariant is one about both: a restart reads back what was saved, or    *)
(* what an earlier save left.                                              *)
(***************************************************************************)
LedgerOK(row) ==
    LET log == row.events
    IN  /\ Len(log) <= MaxEvents
        /\ \A i \in DOMAIN log : log[i].seq = row.nextSeq - 1 - Len(log) + i
        /\ row.status # "absent" => log # <<>> /\ log[Len(log)].status = row.status

LedgerInv == \A t \in Tasks : LedgerOK(tasks[t]) /\ LedgerOK(disk.rows[t])

LEMMA NoRowLedger == LedgerOK(NoRow)
  BY DEF NoRow, LedgerOK

\* appendEvent keeps the numbers without a gap, also when it trims the log.
LEMMA AppendEventLedger ==
    ASSUME NEW row \in Row, LedgerOK(row), NEW type \in EventTypes, NEW status \in Statuses
    PROVE  LedgerOK(AppendEvent(row, type, status))
  <1> DEFINE ev   == [seq |-> row.nextSeq, type |-> type, status |-> status]
             full == Append(row.events, ev)
             log  == Newest(full)
             n    == Len(row.events)
  <1>1. row.events \in Seq(Event) /\ row.nextSeq \in Nat \ {0} /\ n \in Nat
    BY DEF Row
  <1>2. ev \in Event /\ ev.seq = row.nextSeq /\ ev.status = status
    BY <1>1 DEF Event
  <1> HIDE DEF ev
  <1>3. /\ full \in Seq(Event) /\ Len(full) = n + 1 /\ full[n + 1] = ev
        /\ \A i \in 1..n : full[i] = row.events[i]
    BY <1>1, <1>2
  <1>4. \A i \in 1..(n + 1) : full[i].seq = row.nextSeq - 1 - n + i
    <2>1. \A i \in 1..n : row.events[i].seq = row.nextSeq - 1 - n + i
      BY <1>1 DEF LedgerOK
    <2>2. full[n + 1].seq = row.nextSeq - 1 - n + (n + 1)
      <3>1. full[n + 1].seq = row.nextSeq
        BY <1>2, <1>3
      <3>2. \A k \in Nat : k = k - 1 - n + (n + 1)
        BY <1>1
      <3>3. QED BY <1>1, <3>1, <3>2
    <2>3. \A i \in 1..(n + 1) : i \in 1..n \/ i = n + 1
      BY <1>1
    <2>4. QED BY <1>3, <2>1, <2>2, <2>3
  <1> HIDE DEF full, n
  <1>5. /\ log \in Seq(Event)
        /\ Len(log) = IF n + 1 > MaxEvents THEN MaxEvents ELSE n + 1
        /\ \A i \in 1..Len(log) : log[i] = full[n + 1 - Len(log) + i]
    <2>1. /\ log \in Seq(Event)
          /\ Len(log) = IF Len(full) > MaxEvents THEN MaxEvents ELSE Len(full)
          /\ \A i \in 1..Len(log) : log[i] = full[Len(full) - Len(log) + i]
      BY <1>3, NewestFacts
    <2> HIDE DEF log
    <2>2. QED BY <1>1, <1>3, <2>1
  <1> DEFINE m == Len(log)
  <1>6. m \in 1..(n + 1) /\ m <= MaxEvents /\ DOMAIN log = 1..m /\ m \in Nat
    BY <1>1, <1>5
  <1> HIDE DEF log
  <1>7. ASSUME NEW i \in 1..m PROVE log[i].seq = row.nextSeq + 1 - 1 - m + i
    <2> DEFINE j == n + 1 - m + i
    <2>1. j \in 1..(n + 1) /\ log[i] = full[j]
      BY <1>1, <1>5, <1>6
    <2>2. full[j].seq = row.nextSeq - 1 - n + j
      BY <1>4, <2>1
    <2>3. row.nextSeq - 1 - n + j = row.nextSeq + 1 - 1 - m + i
      BY <1>1, <1>6
    <2> HIDE DEF j
    <2>4. QED BY <2>1, <2>2, <2>3
  <1>8. log # <<>> /\ log[m].status = status
    <2>1. m \in 1..m /\ n + 1 - m + m = n + 1
      BY <1>1, <1>6
    <2>2. log[m] = full[n + 1]
      BY <1>5, <2>1
    <2>3. log # <<>>
      BY <1>6
    <2>4. QED BY <1>2, <1>3, <2>2, <2>3
  <1> DEFINE new == AppendEvent(row, type, status)
  <1>9. new.events = log /\ new.nextSeq = row.nextSeq + 1 /\ new.status = status
    BY DEF AppendEvent, log, full, ev
  <1> HIDE DEF new
  <1>10. LedgerOK(new)
    BY <1>1, <1>6, <1>7, <1>8, <1>9 DEF LedgerOK
  <1>11. QED BY <1>10 DEF new

\* The last number of a good ledger is the one before nextEventSeq, so that
\* loading leaves nextEventSeq as it was saved.
LEMMA RecoveredLedger ==
    ASSUME NEW row \in Row, LedgerOK(row)
    PROVE  LedgerOK(Recovered(row))
  <1> DEFINE loaded == [row EXCEPT !.nextSeq = LoadedNextSeq(row)]
  <1>1. row.events \in Seq(Event) /\ row.nextSeq \in Nat \ {0}
    BY DEF Row
  <1>2. LoadedNextSeq(row) = row.nextSeq
    <2>1. CASE row.events = <<>>
      BY <2>1 DEF LoadedNextSeq
    <2>2. CASE row.events # <<>>
      <3>1. Len(row.events) \in DOMAIN row.events /\ Len(row.events) \in Nat
        BY <1>1, <2>2
      <3>2. row.events[Len(row.events)].seq
              = row.nextSeq - 1 - Len(row.events) + Len(row.events)
        BY <3>1 DEF LedgerOK
      <3>3. ~(row.events[Len(row.events)].seq >= row.nextSeq)
        BY <1>1, <3>1, <3>2
      <3>4. QED BY <3>3 DEF LoadedNextSeq
    <2>3. QED BY <2>1, <2>2
  <1>3. /\ loaded.events = row.events /\ loaded.nextSeq = row.nextSeq
        /\ loaded.status = row.status /\ loaded \in Row
    BY <1>2, LoadedNextSeqType DEF Row
  <1> HIDE DEF loaded
  <1>4. LedgerOK(loaded)
    BY <1>3 DEF LedgerOK
  <1>5. LedgerOK(AppendEvent(loaded, "task_recovered", "cancelled"))
    BY <1>3, <1>4, AppendEventLedger DEF EventTypes, Statuses, Terminal
  <1>6. QED BY <1>4, <1>5 DEF Recovered, loaded

\* Whatever becomes of a write, the file holds new rows, old rows or none.
LEMMA WriteLedger ==
    ASSUME TypeOK, LedgerInv, NEW t \in Tasks, NEW row, LedgerOK(row), Write(t, row)
    PROVE  LedgerInv'
  <1>1. \A u \in Tasks : LedgerOK(tasks'[u])
    BY WriteFrame DEF LedgerInv
  <1>2. \/ disk'.rows = tasks'
        \/ disk'.rows = disk.rows
        \/ disk'.rows = NoRows
    <2>1. \/ disk' = [ok |-> TRUE, rows |-> tasks']
          \/ disk' = disk
          \/ disk' = TornFile
      BY DEF Write, Save
    <2>2. [ok |-> TRUE, rows |-> tasks'].rows = tasks' /\ TornFile.rows = NoRows
      BY DEF TornFile
    <2>3. QED BY <2>1, <2>2
  <1>3. \A u \in Tasks : LedgerOK(NoRows[u])
    BY NoRowLedger DEF NoRows
  <1>4. QED
    BY <1>1, <1>2, <1>3 DEF LedgerInv

LEMMA InitLedgerInv == Init => LedgerInv
  BY NoRowLedger DEF Init, LedgerInv, NoRows

LEMMA NextLedgerInv == TypeOK /\ LedgerInv /\ [Next]_vars => LedgerInv'
  <1> SUFFICES ASSUME TypeOK, LedgerInv, [Next]_vars PROVE LedgerInv'
    OBVIOUS
  <1>0. \A t \in Tasks : tasks[t] \in Row /\ LedgerOK(tasks[t])
    BY DEF TypeOK, LedgerInv
  <1> USE DEF EventTypes, Statuses, Terminal, Active
  <1>1. ASSUME NEW t \in Tasks, Enqueue(t) PROVE LedgerInv'
    <2>1. LedgerOK(AppendEvent(NoRow, "task_enqueued", "queued"))
      BY NoRowType, NoRowLedger, AppendEventLedger
    <2>2. QED BY <1>1, <2>1, WriteLedger DEF Enqueue
  <1>2. ASSUME NEW t \in Tasks, CancelQueued(t) PROVE LedgerInv'
    <2>1. LedgerOK(AppendEvent(tasks[t], "task_cancelled", "cancelled"))
      BY <1>0, AppendEventLedger
    <2>2. QED BY <1>2, <2>1, WriteLedger DEF CancelQueued
  <1>3. ASSUME NEW t \in Tasks, CancelRunning(t) PROVE LedgerInv'
    <2>1. LedgerOK(AppendEvent(tasks[t], "task_cancelling", "cancelling"))
      BY <1>0, AppendEventLedger
    <2>2. QED BY <1>3, <2>1, WriteLedger DEF CancelRunning
  <1>4. ASSUME NEW t \in Tasks, CancelAgain(t) PROVE LedgerInv'
    <2>1. LedgerOK(AppendEvent(tasks[t], "task_cancel_ignored", "cancelling"))
      BY <1>0, AppendEventLedger
    <2>2. QED BY <1>4, <2>1, WriteLedger DEF CancelAgain
  <1>5. CASE Take
    <2>1. Head(queue) \in Tasks
      BY <1>5 DEF Take, TypeOK
    <2>2. LedgerOK(AppendEvent(tasks[Head(queue)], "task_started", "running"))
      BY <1>0, <2>1, AppendEventLedger
    <2>3. QED BY <1>5, <2>1, <2>2, WriteLedger DEF Take
  <1>6. CASE Finish
    <2>1. cur \in Tasks /\ FinalStatus \in Terminal
      BY <1>6 DEF Finish, WorkerAt, FinalStatus, TypeOK
    <2>2. LedgerOK(AppendEvent(tasks[cur], "task_finished", FinalStatus))
      BY <1>0, <2>1, AppendEventLedger
    <2>3. QED BY <1>6, <2>1, <2>2, WriteLedger DEF Finish
  <1>7. CASE Boot
    <2> DEFINE rows == [t \in Tasks |-> Recovered(disk.rows[t])]
    <2>1. tasks' = rows /\ (disk'.rows = rows \/ disk'.rows = NoRows)
      BY <1>7 DEF Boot, TornFile
    <2>2. \A t \in Tasks : LedgerOK(rows[t]) /\ LedgerOK(NoRows[t])
      BY RecoveredLedger, NoRowLedger DEF TypeOK, LedgerInv, NoRows
    <2> HIDE DEF rows
    <2>3. QED BY <2>1, <2>2 DEF LedgerInv
  <1>8. CASE BootRefused
    <2>1. tasks' = tasks /\ (disk' = disk \/ disk'.rows = NoRows)
      BY <1>8 DEF BootRefused, TornFile, memory
    <2>2. \A t \in Tasks : LedgerOK(NoRows[t])
      BY NoRowLedger DEF NoRows
    <2>3. QED BY <2>1, <2>2 DEF LedgerInv
  <1>9. CASE Exit \/ Crash
    <2>1. tasks' = NoRows /\ disk' = disk
      BY <1>9 DEF Exit, Crash, MemoryLost
    <2>2. \A t \in Tasks : LedgerOK(NoRows[t])
      BY NoRowLedger DEF NoRows
    <2>3. QED BY <2>1, <2>2 DEF LedgerInv
  <1>10. CASE UNCHANGED <<tasks, disk>>
    BY <1>10 DEF LedgerInv
  <1>11. ASSUME LoopTop \/ Leave \/ Block \/ Sleep \/ TimedOut \/ Execute \/ Publish \/ Stop
                \/ (\E result \in {"done", "failed", "timeout"} : Return(result))
                \/ UNCHANGED vars
         PROVE  UNCHANGED <<tasks, disk>>
    BY <1>11 DEF LoopTop, Leave, Block, Sleep, TimedOut, Execute, Publish, Stop, Return,
                 vars, memory
  <1>12. QED
    BY <1>1, <1>2, <1>3, <1>4, <1>5, <1>6, <1>7, <1>8, <1>9, <1>10, <1>11
       DEF Next, Client, Worker, Process

\* A task's ledger is bounded, numbered without a gap and ends in the event
\* that gave the task its status (LedgerConsistent), through trimming, failed
\* writes, restarts and recovery.
THEOREM LedgerHasNoGap == Spec => []LedgerConsistent
  <1>1. LedgerInv => LedgerConsistent
    BY DEF LedgerInv, LedgerOK, LedgerConsistent
  <1>2. QED
    BY <1>1, InitTypeOK, NextTypeOK, InitLedgerInv, NextLedgerInv, PTL DEF Spec

-----------------------------------------------------------------------------
(***************************************************************************)
(* What subscribers were told, and what the lane holds.  The bus may be    *)
(* behind the lane (a start is not announced, and an outcome only after    *)
(* mu_ is released), but never ahead of it.                                *)
(***************************************************************************)
AnnouncedInv ==
    \A t \in Tasks :
        /\ tasks[t].status = "absent" => announced[t] = "absent"
        /\ tasks[t].status \in {"queued", "running"} => announced[t] \in {"absent", "queued"}
        /\ tasks[t].status = "cancelling" => announced[t] = "cancelling"
        /\ pc = "publish" /\ cur = t =>
              tasks[t].status \in Terminal /\ announced[t] \notin Terminal

LEMMA InitAnnouncedInv == Init => AnnouncedInv
  BY DEF Init, AnnouncedInv, NoRows, NoRow

LEMMA MemoryLostAnnounced ==
    ASSUME MemoryLost PROVE AnnouncedInv'
  BY DEF MemoryLost, AnnouncedInv, NoRows, NoRow

\* A process that is not there has announced nothing.
LEMMA DownAnnouncedNothing ==
    ASSUME MemoryInv, AnnouncedInv, ~ProcessUp
    PROVE  \A t \in Tasks : announced[t] = "absent"
  BY DEF MemoryInv, DownIsEmpty, AnnouncedInv, NoRows, NoRow

\* A handler that moves t to a status and announces it at once.
LEMMA AnnouncedAtOnce ==
    ASSUME TypeOK, AnnouncedInv, NEW t \in Tasks, NEW status,
           \A u \in Tasks : tasks'[u].status = IF u = t THEN status ELSE tasks[u].status,
           Announce(t, status), status \in {"queued", "cancelling", "cancelled"},
           tasks[t].status \notin Terminal, UNCHANGED cur,
           pc' = "publish" => pc = "publish"
    PROVE  AnnouncedInv'
  <1>1. \A u \in Tasks : announced'[u] = IF u = t THEN status ELSE announced[u]
    BY DEF Announce, TypeOK
  <1>2. ~(pc' = "publish" /\ cur' = t)
    BY DEF AnnouncedInv
  <1>3. QED
    BY <1>1, <1>2 DEF AnnouncedInv

LEMMA NextAnnouncedInv == TypeOK /\ MemoryInv /\ AnnouncedInv /\ [Next]_vars => AnnouncedInv'
  <1> SUFFICES ASSUME TypeOK, MemoryInv, AnnouncedInv, [Next]_vars PROVE AnnouncedInv'
    OBVIOUS
  <1>1. ASSUME NEW t \in Tasks, Enqueue(t) PROVE AnnouncedInv'
    <2>1. \A u \in Tasks : tasks'[u].status = IF u = t THEN "queued" ELSE tasks[u].status
      BY <1>1, WriteFrame, AppendEventStatus DEF Enqueue
    <2>2. Announce(t, "queued") /\ UNCHANGED cur /\ (pc' = "publish" => pc = "publish")
          /\ tasks[t].status \notin Terminal
      BY <1>1 DEF Enqueue, Notify, Terminal
    <2>3. QED BY <2>1, <2>2, AnnouncedAtOnce
  <1>2. ASSUME NEW t \in Tasks, CancelQueued(t) PROVE AnnouncedInv'
    <2>1. \A u \in Tasks : tasks'[u].status = IF u = t THEN "cancelled" ELSE tasks[u].status
      BY <1>2, WriteFrame, AppendEventStatus DEF CancelQueued
    <2>2. Announce(t, "cancelled") /\ UNCHANGED <<cur, pc>> /\ tasks[t].status \notin Terminal
      BY <1>2 DEF CancelQueued, Terminal
    <2>3. QED BY <2>1, <2>2, AnnouncedAtOnce
  <1>3. ASSUME NEW t \in Tasks, CancelRunning(t) PROVE AnnouncedInv'
    <2>1. \A u \in Tasks : tasks'[u].status = IF u = t THEN "cancelling" ELSE tasks[u].status
      BY <1>3, WriteFrame, AppendEventStatus DEF CancelRunning
    <2>2. Announce(t, "cancelling") /\ UNCHANGED <<cur, pc>> /\ tasks[t].status \notin Terminal
      BY <1>3 DEF CancelRunning, Terminal
    <2>3. QED BY <2>1, <2>2, AnnouncedAtOnce
  <1>4. ASSUME NEW t \in Tasks, CancelAgain(t) PROVE AnnouncedInv'
    <2>1. \A u \in Tasks : tasks'[u].status = IF u = t THEN "cancelling" ELSE tasks[u].status
      BY <1>4, WriteFrame, AppendEventStatus DEF CancelAgain
    <2>2. Announce(t, "cancelling") /\ UNCHANGED <<cur, pc>> /\ tasks[t].status \notin Terminal
      BY <1>4 DEF CancelAgain, Terminal
    <2>3. QED BY <2>1, <2>2, AnnouncedAtOnce
  <1>5. CASE Take
    <2> DEFINE h == Head(queue)
    <2>1. /\ h \in Tasks /\ h \in Range(queue) /\ UNCHANGED announced /\ pc' = "copy"
      BY <1>5, PopFacts DEF Take, WorkerAt, TypeOK, MemoryInv, QueueMatchesStatus
    <2>2. tasks[h].status = "queued"
      BY <2>1 DEF MemoryInv, QueueMatchesStatus
    <2>3. \A u \in Tasks : tasks'[u].status = IF u = h THEN "running" ELSE tasks[u].status
      BY <1>5, <2>1, WriteFrame, AppendEventStatus DEF Take
    <2> HIDE DEF h
    <2>4. QED BY <2>1, <2>2, <2>3 DEF AnnouncedInv
  <1>6. CASE Finish
    <2>1. /\ cur \in Tasks /\ cur' = cur /\ pc' = "publish" /\ UNCHANGED announced
          /\ FinalStatus \in Terminal /\ WorkerBusy
      BY <1>6 DEF Finish, WorkerAt, FinalStatus, TypeOK, WorkerBusy, Terminal
    <2>2. tasks[cur].status \in Active
      BY <2>1 DEF MemoryInv, WorkerOwnsActive
    <2>3. \A u \in Tasks : tasks'[u].status = IF u = cur THEN FinalStatus ELSE tasks[u].status
      BY <1>6, <2>1, WriteFrame, AppendEventStatus DEF Finish
    <2>4. announced[cur] \notin Terminal
      BY <2>1, <2>2 DEF AnnouncedInv, Active, Terminal
    <2> HIDE DEF FinalStatus
    <2>5. QED BY <2>1, <2>3, <2>4 DEF AnnouncedInv, Terminal
  <1>7. CASE Publish
    <2>1. /\ cur \in Tasks /\ pc = "publish" /\ pc' = "loop" /\ UNCHANGED tasks
          /\ announced' = [announced EXCEPT ![cur] = outcome]
      BY <1>7 DEF Publish, WorkerAt, Announce, TypeOK
    <2>2. tasks[cur].status \in Terminal
      BY <2>1 DEF AnnouncedInv
    <2>3. \A u \in Tasks : u # cur => announced'[u] = announced[u]
      BY <2>1 DEF TypeOK
    <2>4. QED BY <2>1, <2>2, <2>3 DEF AnnouncedInv, Terminal
  <1>8. CASE Boot
    <2>1. \A t \in Tasks : announced'[t] = "absent"
      BY <1>8, DownAnnouncedNothing DEF Boot, ProcessUp
    <2>2. pc' = "loop" /\ tasks' = [t \in Tasks |-> Recovered(disk.rows[t])]
      BY <1>8 DEF Boot
    <2>3. \A t \in Tasks : tasks'[t].status # "cancelling"
      BY <2>2, RecoveredStatus DEF TypeOK, Active
    <2>4. QED BY <2>1, <2>2, <2>3 DEF AnnouncedInv
  <1>9. CASE Exit \/ Crash
    BY <1>9, MemoryLostAnnounced DEF Exit, Crash
  <1>10. ASSUME LoopTop \/ Leave \/ Block \/ Sleep \/ TimedOut \/ Execute \/ Stop
                \/ (\E result \in {"done", "failed", "timeout"} : Return(result))
                \/ BootRefused \/ UNCHANGED vars
         PROVE  /\ UNCHANGED <<tasks, announced, cur>>
                /\ pc' = "publish" => pc = "publish"
    BY <1>10 DEF LoopTop, Leave, Block, Sleep, TimedOut, Execute, Stop, Return, BootRefused,
                 WorkerAt, Notify, vars, memory
  <1>11. CASE UNCHANGED <<tasks, announced, cur>> /\ (pc' = "publish" => pc = "publish")
    BY <1>11 DEF AnnouncedInv
  <1>12. QED
    BY <1>1, <1>2, <1>3, <1>4, <1>5, <1>6, <1>7, <1>8, <1>9, <1>10, <1>11
       DEF Next, Client, Worker, Process

\* The ranks, for use where the table itself would only be in the way.
LEMMA RankFacts ==
    /\ Rank("absent") = 0 /\ Rank("queued") = 1 /\ Rank("cancelling") = 2
    /\ \A s \in Terminal : Rank(s) = 3
    /\ \A s \in Statuses \ Terminal : Rank(s) \in 0..2
  BY DEF Rank, Terminal, Statuses, Active

\* A subscriber never sees a task go backwards or change its outcome
\* (AnnouncedInOrder), although outcomes are published outside mu_.
THEOREM AnnouncementsGoForward == Spec => AnnouncedInOrder
  <1> DEFINE Forward(t) == \/ announced'[t] = announced[t]
                           \/ Rank(announced[t]) < Rank(announced'[t])
  <1>1. ASSUME TypeOK, MemoryInv, AnnouncedInv, [Next]_vars
        PROVE  [ProcessUp' => \A t \in Tasks : Forward(t)]_vars
    <2> SUFFICES ASSUME Next, ProcessUp', NEW u \in Tasks PROVE Forward(u)
      BY <1>1
    <2>1. ASSUME NEW t \in Tasks, NEW status, Announce(t, status),
                 t = u => Rank(announced[t]) < Rank(status)
          PROVE  Forward(u)
      <3>1. announced'[u] = IF u = t THEN status ELSE announced[u]
        BY <1>1, <2>1 DEF Announce, TypeOK
      <3>2. QED BY <2>1, <3>1
    <2>2. ASSUME NEW t \in Tasks, Enqueue(t) PROVE Forward(u)
      <3>1. announced[t] = "absent" /\ Announce(t, "queued")
        BY <1>1, <2>2 DEF AnnouncedInv, Enqueue
      <3>2. QED BY <2>1, <3>1, RankFacts
    <2>3. ASSUME NEW t \in Tasks, CancelQueued(t) PROVE Forward(u)
      <3>1. announced[t] \in {"absent", "queued"} /\ Announce(t, "cancelled")
        BY <1>1, <2>3 DEF AnnouncedInv, CancelQueued
      <3>2. Rank("cancelled") = 3
        BY RankFacts DEF Terminal
      <3>3. QED BY <2>1, <3>1, <3>2, RankFacts
    <2>4. ASSUME NEW t \in Tasks, CancelRunning(t) PROVE Forward(u)
      <3>1. announced[t] \in {"absent", "queued"} /\ Announce(t, "cancelling")
        BY <1>1, <2>4 DEF AnnouncedInv, CancelRunning
      <3>2. QED BY <2>1, <3>1, RankFacts
    <2>5. ASSUME NEW t \in Tasks, CancelAgain(t) PROVE Forward(u)
      <3>1. announced[t] = "cancelling" /\ announced' = [announced EXCEPT ![t] = "cancelling"]
        BY <1>1, <2>5 DEF AnnouncedInv, CancelAgain, Announce
      <3>2. QED BY <1>1, <3>1 DEF TypeOK
    <2>6. CASE Publish
      <3>1. cur \in Tasks /\ outcome \in Terminal /\ pc = "publish" /\ Announce(cur, outcome)
        BY <1>1, <2>6 DEF Publish, WorkerAt, TypeOK
      <3>2. announced[cur] \in Statuses \ Terminal
        BY <1>1, <3>1 DEF AnnouncedInv, TypeOK
      <3>3. Rank(outcome) = 3 /\ Rank(announced[cur]) \in 0..2
        BY <3>1, <3>2, RankFacts
      <3>4. QED BY <2>1, <3>1, <3>3
    <2>7. CASE Exit \/ Crash
      BY <2>7 DEF Exit, Crash, ProcessUp
    <2>8. CASE UNCHANGED announced
      BY <2>8
    <2>9. ASSUME LoopTop \/ Leave \/ Block \/ Sleep \/ TimedOut \/ Take \/ Execute \/ Finish
                 \/ (\E result \in {"done", "failed", "timeout"} : Return(result))
                 \/ Boot \/ BootRefused \/ Stop
          PROVE  UNCHANGED announced
      BY <2>9 DEF LoopTop, Leave, Block, Sleep, TimedOut, Take, Execute, Finish, Return,
                  Boot, BootRefused, Stop, memory
    <2>10. QED
      BY <2>2, <2>3, <2>4, <2>5, <2>6, <2>7, <2>8, <2>9 DEF Next, Client, Worker, Process
  <1>2. QED
    BY <1>1, InitTypeOK, NextTypeOK, InitMemoryInv, NextMemoryInv, InitAnnouncedInv,
       NextAnnouncedInv, PTL DEF Spec, AnnouncedInOrder

-----------------------------------------------------------------------------
(***************************************************************************)
(* The lane on a store whose writes never fail (SaveFaults = {}): what     *)
(* holds across any number of crashes and restarts, and that the lane      *)
(* implements TaskLane.                                                    *)
(***************************************************************************)
\* A file that always parses and, while a process runs, says what memory says.
StoreInv == disk.ok /\ StoreIsCurrent

\* The work of a task and the worker's position: not yet executed when the
\* worker is about to, executed once when it has.
ExecutionInv ==
    /\ AtMostOnce
    /\ pc = "copy" => executed[cur] = 0
    /\ pc \in {"executing", "finishing"} => executed[cur] = 1

\* What execute_ may have reported; "cancelled" is decided by Finish alone.
ReturnedOutcome == pc = "finishing" => outcome \in {"done", "failed", "timeout"}

IInv ==
    /\ TypeOK /\ MemoryInv /\ StoreInv
    /\ ExecutionInv /\ ReturnedOutcome /\ PromisesKept

-----------------------------------------------------------------------------
(* What a step does to the durable status                                  *)

LEMMA UpDurable ==
    ASSUME ProcessUp
    PROVE  \A u \in Tasks : Durable(u) = tasks[u].status
  BY DEF Durable

LEMMA WriteDurable ==
    ASSUME SaveFaults = {}, TypeOK, NEW t \in Tasks, NEW row, Write(t, row),
           ProcessUp, ProcessUp'
    PROVE  /\ \A u \in Tasks : Durable(u)' = IF u = t THEN row.status ELSE Durable(u)
           /\ StoreInv'
  <1>1. \A u \in Tasks : tasks'[u] = IF u = t THEN row ELSE tasks[u]
    BY WriteFrame
  <1>2. disk' = [ok |-> TRUE, rows |-> tasks']
    BY DEF Write, Save
  <1>3. QED BY <1>1, <1>2 DEF Durable, StoreInv, StoreIsCurrent

\* A step that touches neither rows nor file.
LEMMA SameDurable ==
    ASSUME StoreInv, UNCHANGED <<tasks, disk>>, ProcessUp' <=> ProcessUp
    PROVE  (\A u \in Tasks : Durable(u)' = Durable(u)) /\ StoreInv'
  BY DEF Durable, StoreInv, StoreIsCurrent

\* The death of the process loses nothing.
LEMMA DeathDurable ==
    ASSUME StoreInv, ProcessUp, phase' = "down", UNCHANGED disk
    PROVE  (\A u \in Tasks : Durable(u)' = Durable(u)) /\ StoreInv'
  BY DEF Durable, StoreInv, StoreIsCurrent, ProcessUp

\* A boot is the only step that changes the status of several tasks.
LEMMA BootDurable ==
    ASSUME SaveFaults = {}, TypeOK, Boot
    PROVE  /\ \A u \in Tasks :
                Durable(u)' = IF Durable(u) \in Active THEN "cancelled" ELSE Durable(u)
           /\ StoreInv'
  <1> DEFINE rows == [t \in Tasks |-> Recovered(disk.rows[t])]
  <1>1. /\ tasks' = rows /\ disk' = [ok |-> TRUE, rows |-> rows]
        /\ ProcessUp' /\ ~ProcessUp
    BY DEF Boot, ProcessUp
  <1>2. \A u \in Tasks : disk.rows[u] \in Row
    BY DEF TypeOK
  <1>3. \A u \in Tasks : rows[u].status =
            IF disk.rows[u].status \in Active THEN "cancelled" ELSE disk.rows[u].status
    BY <1>2, RecoveredStatus
  <1> HIDE DEF rows
  <1>4. QED BY <1>1, <1>3 DEF Durable, StoreInv, StoreIsCurrent

-----------------------------------------------------------------------------
(* The store, execution and promise invariants are inductive               *)

LEMMA InitIInv == Init => IInv
  <1> SUFFICES ASSUME Init PROVE IInv
    OBVIOUS
  <1>1. StoreInv
    BY DEF Init, StoreInv, StoreIsCurrent, ProcessUp
  <1>2. ExecutionInv
    BY DEF Init, ExecutionInv, AtMostOnce
  <1>3. PromisesKept
    BY DEF Init, PromisesKept
  <1>4. QED
    BY <1>1, <1>2, <1>3, InitTypeOK, InitMemoryInv DEF IInv, Init, ReturnedOutcome

\* The tasks that are in progress, by their durable status.
LEMMA OwnedDurable ==
    ASSUME IInv, ProcessUp
    PROVE  /\ \A u \in Tasks : Durable(u) \in Active <=> WorkerBusy /\ cur = u
           /\ \A u \in Tasks : u \in cancelFlags <=> Durable(u) = "cancelling"
  BY UpDurable DEF IInv, MemoryInv, WorkerOwnsActive

\* A step that moves one task to another status and executes nothing.
LEMMA MoveStep ==
    ASSUME IInv, NEW t \in Tasks, NEW status \in Statuses \ {"absent"},
           \A u \in Tasks : Durable(u)' = IF u = t THEN status ELSE Durable(u),
           UNCHANGED executed,
           status = "queued" => Durable(t) = "absent"
    PROVE  AtMostOnce'
  <1>1. \A u \in Tasks : executed[u] \in 0..2
    BY DEF IInv, TypeOK
  <1>2. Active \cup Terminal \cup {"queued", "absent"} = Statuses
    BY DEF Statuses
  <1>3. "absent" \notin Active \cup Terminal
    BY DEF Active, Terminal
  <1>4. QED
    BY <1>1, <1>2, <1>3 DEF IInv, ExecutionInv, AtMostOnce

LEMMA ClientIInv ==
    ASSUME SaveFaults = {}, IInv, NEW t \in Tasks,
           Enqueue(t) \/ CancelQueued(t) \/ CancelRunning(t) \/ CancelAgain(t)
    PROVE  StoreInv' /\ ExecutionInv' /\ PromisesKept'
  <1> USE DEF Statuses, Active, Terminal
  <1>1. TypeOK /\ ProcessUp /\ ProcessUp' /\ UNCHANGED <<executed, cur>>
    BY DEF IInv, Enqueue, CancelQueued, CancelRunning, CancelAgain, ProcessUp, history
  <1>2. /\ pc' = "copy" => pc = "copy"
        /\ pc' \in {"executing", "finishing"} => pc \in {"executing", "finishing"}
    BY DEF Enqueue, CancelQueued, CancelRunning, CancelAgain, Notify
  <1>3. \A u \in Tasks : promise[u] \in {"none", "accepted", "withdrawn", "stopping"}
    BY <1>1 DEF TypeOK
  <1>4. CASE Enqueue(t)
    <2>1. StoreInv' /\ \A u \in Tasks : Durable(u)' = IF u = t THEN "queued" ELSE Durable(u)
      BY <1>1, <1>4, WriteDurable, AppendEventStatus DEF Enqueue
    <2>2. Durable(t) = "absent"
      BY <1>1, <1>4, UpDurable DEF Enqueue
    <2>3. AtMostOnce'
      BY <1>1, <2>1, <2>2, MoveStep
    <2>4. \A u \in Tasks : promise'[u] = IF u = t THEN "accepted" ELSE promise[u]
      BY <1>1, <1>4 DEF Enqueue, TypeOK
    <2>5. PromisesKept'
      BY <1>1, <2>1, <2>4 DEF IInv, PromisesKept
    <2>6. QED
      BY <1>1, <1>2, <2>1, <2>3, <2>5 DEF IInv, ExecutionInv
  <1>5. CASE CancelQueued(t)
    <2>1. StoreInv' /\ \A u \in Tasks : Durable(u)' = IF u = t THEN "cancelled" ELSE Durable(u)
      BY <1>1, <1>5, WriteDurable, AppendEventStatus DEF CancelQueued
    <2>2. Durable(t) = "queued"
      BY <1>1, <1>5, UpDurable DEF CancelQueued
    <2>3. AtMostOnce'
      BY <1>1, <2>1, MoveStep
    <2>4. \A u \in Tasks : promise'[u] = IF u = t THEN "withdrawn" ELSE promise[u]
      BY <1>1, <1>5 DEF CancelQueued, TypeOK
    <2>5. executed[t] = 0
      <3>1. executed[t] \in 0..2
        BY <1>1 DEF TypeOK
      <3>2. QED BY <2>2, <3>1 DEF IInv, ExecutionInv, AtMostOnce
    <2>6. PromisesKept'
      BY <1>1, <2>1, <2>4, <2>5 DEF IInv, PromisesKept
    <2>7. QED
      BY <1>1, <1>2, <2>1, <2>3, <2>6 DEF IInv, ExecutionInv
  <1>6. CASE CancelRunning(t)
    <2>1. StoreInv' /\ \A u \in Tasks : Durable(u)' = IF u = t THEN "cancelling" ELSE Durable(u)
      BY <1>1, <1>6, WriteDurable, AppendEventStatus DEF CancelRunning
    <2>2. AtMostOnce'
      BY <1>1, <2>1, MoveStep
    <2>3. \A u \in Tasks : promise'[u] = IF u = t THEN "stopping" ELSE promise[u]
      BY <1>1, <1>6 DEF CancelRunning, TypeOK
    <2>4. PromisesKept'
      BY <1>1, <2>1, <2>3 DEF IInv, PromisesKept
    <2>5. QED
      BY <1>1, <1>2, <2>1, <2>2, <2>4 DEF IInv, ExecutionInv
  <1>7. CASE CancelAgain(t)
    <2>1. StoreInv' /\ \A u \in Tasks : Durable(u)' = IF u = t THEN "cancelling" ELSE Durable(u)
      BY <1>1, <1>7, WriteDurable, AppendEventStatus DEF CancelAgain
    <2>2. Durable(t) = "cancelling"
      BY <1>1, <1>7, UpDurable DEF CancelAgain
    <2>3. AtMostOnce'
      BY <1>1, <2>1, MoveStep
    <2>4. PromisesKept'
      BY <1>1, <1>7, <2>1, <2>2 DEF IInv, PromisesKept, CancelAgain, history
    <2>5. QED
      BY <1>1, <1>2, <2>1, <2>3, <2>4 DEF IInv, ExecutionInv
  <1>8. QED BY <1>4, <1>5, <1>6, <1>7

LEMMA TakeIInv ==
    ASSUME SaveFaults = {}, IInv, Take
    PROVE  StoreInv' /\ ExecutionInv' /\ PromisesKept'
  <1> DEFINE h == Head(queue)
  <1> USE DEF Statuses, Active, Terminal
  <1>1. /\ TypeOK /\ ProcessUp /\ ProcessUp' /\ pc' = "copy" /\ cur' = h
        /\ UNCHANGED history
    BY DEF IInv, Take, WorkerAt, ProcessUp
  <1>2. h \in Tasks /\ tasks[h].status = "queued"
    <2>1. queue \in Seq(Tasks) /\ queue # <<>> /\ IsInjective(queue)
      BY DEF Take, IInv, TypeOK, MemoryInv, QueueMatchesStatus
    <2>2. h \in Tasks /\ h \in Range(queue)
      BY <2>1, PopFacts
    <2>3. QED BY <2>2 DEF IInv, MemoryInv, QueueMatchesStatus
  <1>3. Durable(h) = "queued"
    BY <1>1, <1>2, UpDurable
  <1>4. Write(h, AppendEvent(tasks[h], "task_started", "running"))
    BY DEF Take
  <1> HIDE DEF h
  <1>5. StoreInv' /\ \A u \in Tasks : Durable(u)' = IF u = h THEN "running" ELSE Durable(u)
    BY <1>1, <1>2, <1>4, WriteDurable, AppendEventStatus
  <1>6. AtMostOnce'
    BY <1>1, <1>2, <1>5, MoveStep DEF history
  <1>7. executed[h] = 0
    <2>1. executed[h] \in 0..2
      BY <1>1, <1>2 DEF TypeOK
    <2>2. QED BY <1>2, <1>3, <2>1 DEF IInv, ExecutionInv, AtMostOnce
  <1>8. ExecutionInv'
    BY <1>1, <1>6, <1>7 DEF ExecutionInv, history
  <1>9. PromisesKept'
    BY <1>1, <1>2, <1>3, <1>5 DEF IInv, PromisesKept, history
  <1>10. QED BY <1>5, <1>8, <1>9

\* The task in the worker's hands is in progress, hence neither absent, nor
\* queued, nor withdrawn.
LEMMA ExecuteIInv ==
    ASSUME IInv, Execute
    PROVE  StoreInv' /\ ExecutionInv' /\ PromisesKept'
  <1>1. /\ TypeOK /\ ProcessUp /\ ProcessUp' /\ pc = "copy" /\ pc' = "executing"
        /\ cur' = cur /\ cur \in Tasks /\ UNCHANGED <<tasks, disk, promise>>
    BY DEF IInv, TypeOK, Execute, WorkerAt, ProcessUp
  <1>2. StoreInv' /\ \A u \in Tasks : Durable(u)' = Durable(u)
    BY <1>1, SameDurable DEF IInv
  <1>3. executed[cur] = 0
    BY <1>1 DEF IInv, ExecutionInv
  <1>4. \A u \in Tasks : executed'[u] = IF u = cur THEN 1 ELSE executed[u]
    BY <1>1, <1>3 DEF Execute, TypeOK
  <1>5. Durable(cur) \in Active
    BY <1>1, OwnedDurable DEF WorkerBusy
  <1>6. ExecutionInv'
    BY <1>1, <1>2, <1>4, <1>5 DEF IInv, ExecutionInv, AtMostOnce
  <1>7. PromisesKept'
    BY <1>1, <1>2, <1>4, <1>5 DEF IInv, PromisesKept, Active
  <1>8. QED BY <1>2, <1>6, <1>7

\* What Finish records.  A pending cancellation is never overruled.
LEMMA FinishFacts ==
    ASSUME SaveFaults = {}, IInv, Finish
    PROVE  /\ ProcessUp /\ ProcessUp' /\ cur \in Tasks /\ executed[cur] = 1
           /\ \A u \in Tasks : Durable(u)' = IF u = cur THEN FinalStatus ELSE Durable(u)
           /\ \/ Durable(cur) = "cancelling" /\ FinalStatus = "cancelled"
              \/ Durable(cur) = "running" /\ FinalStatus = outcome
           /\ FinalStatus \in Terminal
           /\ StoreInv'
  <1>1. TypeOK /\ ProcessUp /\ ProcessUp' /\ pc = "finishing" /\ cur \in Tasks
    BY DEF IInv, TypeOK, Finish, WorkerAt, ProcessUp
  <1>2. StoreInv' /\ \A u \in Tasks : Durable(u)' = IF u = cur THEN FinalStatus ELSE Durable(u)
    BY <1>1, WriteDurable, AppendEventStatus DEF Finish
  <1>3. Durable(cur) \in Active /\ (cur \in cancelFlags <=> Durable(cur) = "cancelling")
    BY <1>1, OwnedDurable DEF WorkerBusy
  <1>4. FinalStatus \in Terminal
    BY <1>1 DEF FinalStatus, TypeOK, Terminal
  <1>5. executed[cur] = 1
    BY <1>1 DEF IInv, ExecutionInv
  <1>6. QED
    BY <1>1, <1>2, <1>3, <1>4, <1>5 DEF FinalStatus, Active

LEMMA FinishIInv ==
    ASSUME SaveFaults = {}, IInv, Finish
    PROVE  StoreInv' /\ ExecutionInv' /\ PromisesKept'
  <1>1. UNCHANGED history /\ pc' = "publish"
    BY DEF Finish, WorkerAt
  <1>2. AtMostOnce'
    <2>1. FinalStatus \in Statuses \ {"absent"} /\ FinalStatus # "queued"
      BY FinishFacts DEF Statuses, Terminal
    <2>2. QED BY <1>1, <2>1, FinishFacts, MoveStep DEF history
  <1>3. PromisesKept'
    BY <1>1, FinishFacts DEF IInv, PromisesKept, history, Terminal
  <1>4. QED BY <1>1, <1>2, <1>3, FinishFacts DEF ExecutionInv

LEMMA BootIInv ==
    ASSUME SaveFaults = {}, IInv, Boot
    PROVE  StoreInv' /\ ExecutionInv' /\ PromisesKept'
  <1>1. TypeOK /\ UNCHANGED history /\ pc' = "loop"
    BY DEF IInv, Boot
  <1>2. StoreInv'
    BY <1>1, BootDurable
  <1>3. ExecutionInv'
    BY <1>1, BootDurable DEF IInv, ExecutionInv, AtMostOnce, history, Active, Terminal
  <1>4. PromisesKept'
    BY <1>1, BootDurable DEF IInv, PromisesKept, history, Active
  <1>5. QED BY <1>2, <1>3, <1>4

\* A step that keeps every durable status and executes nothing.
LEMMA QuietIInv ==
    ASSUME IInv, StoreInv', UNCHANGED history,
           \A u \in Tasks : Durable(u)' = Durable(u),
           pc' = "copy" => pc = "copy" /\ cur' = cur,
           pc' \in {"executing", "finishing"} => pc \in {"executing", "finishing"} /\ cur' = cur
    PROVE  StoreInv' /\ ExecutionInv' /\ PromisesKept'
  BY DEF IInv, ExecutionInv, AtMostOnce, PromisesKept, history

\* The steps that only move the worker, the process or the announcements.
Quiet ==
    \/ LoopTop \/ Leave \/ Block \/ Sleep \/ TimedOut \/ Publish
    \/ \E result \in {"done", "failed", "timeout"} : Return(result)
    \/ BootRefused \/ Stop \/ Exit \/ Crash \/ UNCHANGED vars

LEMMA QuietDurable ==
    ASSUME SaveFaults = {}, IInv, Quiet
    PROVE  /\ \A u \in Tasks : Durable(u)' = Durable(u)
           /\ StoreInv' /\ UNCHANGED history
           /\ pc' = "copy" => pc = "copy" /\ cur' = cur
           /\ pc' \in {"executing", "finishing"}
                => pc \in {"executing", "finishing"} /\ cur' = cur
  <1> USE DEF history, WorkerAt, ProcessUp
  <1>0. StoreInv
    BY DEF IInv
  <1>1. CASE LoopTop \/ Leave \/ Block \/ Sleep \/ TimedOut \/ Publish
    <2>1. /\ UNCHANGED <<tasks, disk, history>> /\ (ProcessUp' <=> ProcessUp)
          /\ pc' \notin {"copy", "executing", "finishing"}
      BY <1>1 DEF LoopTop, Leave, Block, Sleep, TimedOut, Publish
    <2>2. QED BY <1>0, <2>1, SameDurable
  <1>2. ASSUME NEW result \in {"done", "failed", "timeout"}, Return(result)
        PROVE  /\ UNCHANGED <<tasks, disk, history, cur>> /\ (ProcessUp' <=> ProcessUp)
               /\ pc = "executing" /\ pc' = "finishing"
    BY <1>2 DEF Return
  <1>3. CASE BootRefused \/ UNCHANGED vars
    <2>1. /\ UNCHANGED <<tasks, disk, history, pc, cur>> /\ (ProcessUp' <=> ProcessUp)
      BY <1>3 DEF BootRefused, vars, memory
    <2>2. QED BY <1>0, <2>1, SameDurable
  <1>4. CASE Stop
    <2>1. /\ UNCHANGED <<tasks, disk, history, cur>> /\ (ProcessUp' <=> ProcessUp)
          /\ pc' \in {pc, "check"}
      BY <1>4 DEF Stop, Notify
    <2>2. QED BY <1>0, <2>1, SameDurable
  <1>5. CASE Exit \/ Crash
    <2>1. /\ UNCHANGED <<disk, history>> /\ ProcessUp /\ phase' = "down" /\ pc' = "exited"
      BY <1>5 DEF Exit, Crash, MemoryLost
    <2>2. QED BY <1>0, <2>1, DeathDurable
  <1>6. QED
    BY <1>0, <1>1, <1>2, <1>3, <1>4, <1>5, SameDurable DEF Quiet

LEMMA NextReturnedOutcome == ReturnedOutcome /\ [Next]_vars => ReturnedOutcome'
  <1> SUFFICES ASSUME ReturnedOutcome, [Next]_vars, pc' = "finishing"
               PROVE  outcome' \in {"done", "failed", "timeout"}
    BY DEF ReturnedOutcome
  <1> USE DEF ReturnedOutcome, history
  <1>1. CASE Client
    BY <1>1 DEF Client, Enqueue, CancelQueued, CancelRunning, CancelAgain, Notify
  <1>2. CASE Worker
    BY <1>2 DEF Worker, LoopTop, Leave, Block, Sleep, TimedOut, Take, Execute, Return,
                Finish, Publish, WorkerAt
  <1>3. CASE Process
    BY <1>3 DEF Process, Boot, BootRefused, Stop, Exit, Crash, MemoryLost, Notify, memory
  <1>4. CASE UNCHANGED vars
    BY <1>4 DEF vars, memory
  <1>5. QED BY <1>1, <1>2, <1>3, <1>4 DEF Next

LEMMA NextIInv ==
    ASSUME SaveFaults = {}
    PROVE  IInv /\ [Next]_vars => IInv'
  <1> SUFFICES ASSUME IInv, [Next]_vars PROVE IInv'
    OBVIOUS
  <1>1. TypeOK' /\ MemoryInv'
    BY NextTypeOK, NextMemoryInv DEF IInv
  <1>2. StoreInv' /\ ExecutionInv' /\ PromisesKept'
    <2>1. CASE Quiet
      BY <2>1, QuietDurable, QuietIInv
    <2>2. CASE ~Quiet
      BY <2>2, ClientIInv, TakeIInv, ExecuteIInv, FinishIInv, BootIInv
         DEF Quiet, Next, Client, Worker, Process
    <2>3. QED BY <2>1, <2>2
  <1>3. ReturnedOutcome'
    BY NextReturnedOutcome DEF IInv
  <1>4. QED BY <1>1, <1>2, <1>3 DEF IInv

\* With a reliable store tasks.json is current at every point where the
\* process can die (StoreIsCurrent).
THEOREM FileIsCurrent ==
    ASSUME SaveFaults = {}
    PROVE  Spec => []StoreIsCurrent
  <1>1. IInv => StoreIsCurrent
    BY DEF IInv, StoreInv
  <1>2. QED BY <1>1, InitIInv, NextIInv, PTL DEF Spec

\* With a reliable store the work of a task is executed at most once, across
\* any number of crashes and restarts (AtMostOnce).
THEOREM ExecutedAtMostOnce ==
    ASSUME SaveFaults = {}
    PROVE  Spec => []AtMostOnce
  <1>1. IInv => AtMostOnce
    BY DEF IInv, ExecutionInv
  <1>2. QED BY <1>1, InitIInv, NextIInv, PTL DEF Spec

\* With a reliable store every ok reply stays true across restarts
\* (PromisesKept).
THEOREM RepliesStayTrue ==
    ASSUME SaveFaults = {}
    PROVE  Spec => []PromisesKept
  <1>1. IInv => PromisesKept
    BY DEF IInv
  <1>2. QED BY <1>1, InitIInv, NextIInv, PTL DEF Spec

-----------------------------------------------------------------------------
(***************************************************************************)
(* The lane implements TaskLane: every handler and worker step is one of   *)
(* its steps or stutters, and a boot is its Interrupt.                     *)
(***************************************************************************)

\* The abstract capacity counts tasks, the code counts entries of queue_.
LEMMA QueueLength ==
    ASSUME TypeOK, MemoryInv, ProcessUp
    PROVE  Cardinality(Lane!Waiting) = Len(queue)
  <1> DEFINE W == {t \in Tasks : tasks[t].status = "queued"}
             D == 1..Len(queue)
  <1>1. queue \in Seq(Tasks) /\ Len(queue) \in Nat /\ IsInjective(queue) /\ W = Range(queue)
    BY RangeOfQueue DEF TypeOK, MemoryInv, QueueMatchesStatus
  <1>2. Lane!Waiting = W
    BY UpDurable DEF Lane!Waiting
  <1> HIDE DEF W
  <1>3. DOMAIN queue = D /\ queue \in [D -> W] /\ W = {queue[i] : i \in D}
    BY <1>1, RangeOfQueue DEF Range
  <1>4. queue \in Bijection(D, W)
    <2>1. \A a, b \in D : queue[a] = queue[b] => a = b
      BY <1>1, <1>3 DEF IsInjective
    <2>2. \A w \in W : \E i \in D : queue[i] = w
      BY <1>3
    <2>3. QED BY <1>3, <2>1, <2>2 DEF Bijection, Injection, Surjection, IsInjective
  <1>5. IsFiniteSet(D) /\ Cardinality(D) = Len(queue)
    BY <1>1, FS_Interval
  <1>6. Cardinality(W) = Cardinality(D)
    BY <1>4, <1>5, FS_Bijection DEF ExistsBijection
  <1>7. QED BY <1>2, <1>5, <1>6

\* TaskLane's Cardinality is the one of FiniteSets.
LEMMA LaneCardinality ==
    ASSUME NEW S
    PROVE  Lane!Cardinality(S) = Cardinality(S)
  BY DEF Lane!Cardinality, Cardinality

\* The abstract move of one task.
LEMMA LaneMove ==
    ASSUME NEW t \in Tasks, NEW status,
           \A u \in Tasks : Durable(u)' = IF u = t THEN status ELSE Durable(u)
    PROVE  Lane!Move(t, status)
  BY DEF Lane!Move

LEMMA LaneStutter ==
    ASSUME \A u \in Tasks : Durable(u)' = Durable(u), UNCHANGED executed
    PROVE  UNCHANGED Lane!vars
  BY DEF Lane!vars

LEMMA LaneStep ==
    ASSUME SaveFaults = {}, IInv, [Next]_vars
    PROVE  [Lane!Next]_(Lane!vars)
  <1>0. TypeOK /\ MemoryInv
    BY DEF IInv
  <1>1. ASSUME NEW t \in Tasks, Enqueue(t) PROVE Lane!Admit(t)
    <2>1. ProcessUp /\ ProcessUp' /\ Len(queue) < MaxQueue /\ tasks[t].status = "absent"
      BY <1>1 DEF Enqueue, ProcessUp
    <2>2. \A u \in Tasks : Durable(u)' = IF u = t THEN "queued" ELSE Durable(u)
      BY <1>0, <1>1, <2>1, WriteDurable, AppendEventStatus DEF Enqueue
    <2>3. Durable(t) = "absent" /\ Cardinality(Lane!Waiting) < MaxQueue
      BY <1>0, <2>1, UpDurable, QueueLength
    <2>4. QED
      BY <1>1, <2>2, <2>3, LaneMove, LaneCardinality DEF Lane!Admit, Enqueue
  <1>2. ASSUME NEW t \in Tasks, CancelQueued(t) PROVE Lane!Withdraw(t)
    <2>1. ProcessUp /\ ProcessUp' /\ tasks[t].status = "queued"
      BY <1>2 DEF CancelQueued, ProcessUp
    <2>2. \A u \in Tasks : Durable(u)' = IF u = t THEN "cancelled" ELSE Durable(u)
      BY <1>0, <1>2, <2>1, WriteDurable, AppendEventStatus DEF CancelQueued
    <2>3. QED
      BY <1>2, <2>1, <2>2, UpDurable, LaneMove DEF Lane!Withdraw, CancelQueued
  <1>3. ASSUME NEW t \in Tasks, CancelRunning(t) PROVE Lane!AcceptCancel(t)
    <2>1. ProcessUp /\ ProcessUp' /\ tasks[t].status = "running"
      BY <1>3 DEF CancelRunning, ProcessUp
    <2>2. \A u \in Tasks : Durable(u)' = IF u = t THEN "cancelling" ELSE Durable(u)
      BY <1>0, <1>3, <2>1, WriteDurable, AppendEventStatus DEF CancelRunning
    <2>3. QED
      BY <1>3, <2>1, <2>2, UpDurable, LaneMove DEF Lane!AcceptCancel, CancelRunning
  <1>4. ASSUME NEW t \in Tasks, CancelAgain(t) PROVE UNCHANGED Lane!vars
    <2>1. ProcessUp /\ ProcessUp' /\ tasks[t].status = "cancelling"
      BY <1>4 DEF CancelAgain, ProcessUp
    <2>2. \A u \in Tasks : Durable(u)' = Durable(u)
      BY <1>0, <1>4, <2>1, WriteDurable, AppendEventStatus, UpDurable DEF CancelAgain
    <2>3. QED BY <1>4, <2>2, LaneStutter DEF CancelAgain, history
  <1>5. ASSUME Take PROVE Lane!Begin(Head(queue))
    <2> DEFINE h == Head(queue)
    <2>1. ProcessUp /\ ProcessUp' /\ ~WorkerBusy /\ UNCHANGED executed
      BY <1>5 DEF Take, WorkerAt, WorkerBusy, ProcessUp, history
    <2>2. h \in Tasks /\ tasks[h].status = "queued"
      <3>1. queue \in Seq(Tasks) /\ queue # <<>> /\ IsInjective(queue)
        BY <1>0, <1>5 DEF Take, TypeOK, MemoryInv, QueueMatchesStatus
      <3>2. h \in Tasks /\ h \in Range(queue)
        BY <3>1, PopFacts
      <3>3. QED BY <1>0, <3>2 DEF MemoryInv, QueueMatchesStatus
    <2>3. Write(h, AppendEvent(tasks[h], "task_started", "running"))
      BY <1>5 DEF Take
    <2> HIDE DEF h
    <2>4. \A u \in Tasks : Durable(u)' = IF u = h THEN "running" ELSE Durable(u)
      BY <1>0, <2>1, <2>2, <2>3, WriteDurable, AppendEventStatus
    <2>5. Durable(h) = "queued" /\ Lane!InProgress = {}
      BY <2>1, <2>2, UpDurable, OwnedDurable DEF Lane!InProgress, Active
    <2>6. Lane!Begin(h)
      BY <2>1, <2>2, <2>4, <2>5, LaneMove DEF Lane!Begin
    <2>7. QED BY <2>6 DEF h
  <1>6. ASSUME Execute PROVE Lane!Execute(cur)
    <2>1. /\ ProcessUp /\ (ProcessUp' <=> ProcessUp) /\ cur \in Tasks
          /\ pc = "copy" /\ UNCHANGED <<tasks, disk>>
      BY <1>0, <1>6 DEF Execute, WorkerAt, TypeOK, ProcessUp
    <2>2. \A u \in Tasks : Durable(u)' = Durable(u)
      BY <2>1, SameDurable DEF IInv
    <2>3. cur \in Lane!InProgress
      BY <2>1, OwnedDurable DEF WorkerBusy, Lane!InProgress, Active
    <2>4. executed[cur] = 0 /\ executed' = [executed EXCEPT ![cur] = 1]
      BY <1>0, <1>6, <2>1 DEF Execute, IInv, ExecutionInv, TypeOK
    <2>5. QED BY <2>2, <2>3, <2>4 DEF Lane!Execute
  <1>7. ASSUME Finish PROVE Lane!Complete(cur)
    <2>1. Lane!Move(cur, FinalStatus) /\ executed[cur] = 1 /\ UNCHANGED executed
      BY <1>7, FinishFacts, LaneMove DEF Finish, history
    <2>2. CASE Durable(cur) = "cancelling" /\ FinalStatus = "cancelled"
      BY <2>1, <2>2, FinishFacts, <1>7 DEF Lane!Complete
    <2>3. CASE Durable(cur) = "running" /\ FinalStatus = outcome
      <3>1. FinalStatus \in {"done", "failed", "timeout"}
        BY <1>7, <2>3 DEF IInv, ReturnedOutcome, Finish, WorkerAt
      <3>2. QED BY <2>1, <2>3, <3>1, FinishFacts, <1>7 DEF Lane!Complete
    <2>4. QED BY <1>7, <2>2, <2>3, FinishFacts
  <1>8. ASSUME Boot PROVE Lane!Interrupt
    BY <1>0, <1>8, BootDurable DEF Boot, Lane!Interrupt, Lane!InProgress, Active, history
  <1>9. ASSUME Quiet PROVE UNCHANGED Lane!vars
    BY <1>9, QuietDurable, LaneStutter DEF history
  <1>10. CASE Quiet
    BY <1>9, <1>10
  <1>11. CASE ~Quiet
    <2>1. Execute \/ Finish => cur \in Tasks
      BY <1>0 DEF Execute, Finish, WorkerAt, TypeOK
    <2>2. Take => Head(queue) \in Tasks
      BY <1>0 DEF Take, TypeOK
    <2>3. QED
      BY <1>1, <1>2, <1>3, <1>4, <1>5, <1>6, <1>7, <1>8, <1>11, <2>1, <2>2
         DEF Quiet, Next, Client, Worker, Process, Lane!Next
  <1>12. QED BY <1>10, <1>11

\* With a reliable store the task lane implements TaskLane
\* (ImplementsTaskLane): queue, file, threads and restarts do not show.
THEOREM LaneIsImplemented ==
    ASSUME SaveFaults = {}
    PROVE  Spec => ImplementsTaskLane
  <1>1. Init => Lane!Init
    BY DEF Init, Lane!Init, Durable, ProcessUp, NoRows, NoRow
  <1>2. IInv /\ [Next]_vars => [Lane!Next]_(Lane!vars)
    BY LaneStep
  <1>3. QED
    BY <1>1, <1>2, InitIInv, NextIInv, PTL DEF Spec, ImplementsTaskLane, Lane!Spec
=============================================================================

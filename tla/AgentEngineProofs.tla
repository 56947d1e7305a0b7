-------------------------- MODULE AgentEngineProofs --------------------------
(***************************************************************************)
(* The agent engine for any callers, sessions, policies and number of      *)
(* messages: turns are never mixed and given replies are recorded.         *)
(***************************************************************************)
EXTENDS AgentEngine, PickProofs

USE AgentEngineAssumption, SessionStoreAssumption

-----------------------------------------------------------------------------
(* Transcripts                                                             *)

\* Every reply comes behind its message, with no line of a turn in between.
Whole(f) ==
    \A j \in DOMAIN f : f[j].role = "assistant" =>
        \E i \in 1 .. j - 1 :
            /\ f[i].turn = f[j].turn /\ f[i].role # "assistant"
            /\ \A m \in i + 1 .. j - 1 : ~f[m].locked

\* The message of turn t is the last line that a turn has written.
Pending(f, t) ==
    \E i \in DOMAIN f :
        /\ f[i].turn = t /\ f[i].role # "assistant"
        /\ \A m \in i + 1 .. Len(f) : ~f[m].locked

Replied(f, t) ==
    \E i, j \in DOMAIN f :
        /\ i < j /\ f[i].turn = t /\ f[j].turn = t
        /\ f[i].role # "assistant" /\ f[j].role = "assistant"

LEMMA AppendFacts ==
    ASSUME NEW S, NEW f \in Seq(S), NEW line \in S
    PROVE  /\ Append(f, line) \in Seq(S) /\ Len(f) \in Nat
           /\ DOMAIN f = 1 .. Len(f) /\ DOMAIN Append(f, line) = 1 .. Len(f) + 1
           /\ Len(Append(f, line)) = Len(f) + 1
           /\ \A i \in 1 .. Len(f) : Append(f, line)[i] = f[i]
           /\ Append(f, line)[Len(f) + 1] = line
  OBVIOUS

LEMMA WholeKept ==
    ASSUME NEW f \in Seq(Message), NEW line \in Message, Whole(f),
           line.role = "assistant" => Pending(f, line.turn)
    PROVE  Whole(Append(f, line))
  <1> DEFINE g == Append(f, line)
  <1>1. Len(f) \in Nat /\ DOMAIN f = 1 .. Len(f) /\ DOMAIN g = 1 .. Len(f) + 1
        /\ (\A i \in 1 .. Len(f) : g[i] = f[i]) /\ g[Len(f) + 1] = line
    BY AppendFacts
  <1> HIDE DEF g
  <1>2. ASSUME NEW j \in DOMAIN g, g[j].role = "assistant"
        PROVE  \E i \in 1 .. j - 1 :
                  /\ g[i].turn = g[j].turn /\ g[i].role # "assistant"
                  /\ \A m \in i + 1 .. j - 1 : ~g[m].locked
    <2>1. CASE j \in DOMAIN f
      <3>1. PICK i \in 1 .. j - 1 :
                /\ f[i].turn = f[j].turn /\ f[i].role # "assistant"
                /\ \A m \in i + 1 .. j - 1 : ~f[m].locked
        BY <1>1, <1>2, <2>1 DEF Whole
      <3>2. \A m \in 1 .. j : g[m] = f[m]
        BY <1>1, <2>1
      <3>3. QED BY <1>1, <2>1, <3>1, <3>2
    <2>2. CASE j = Len(f) + 1
      <3>1. PICK i \in DOMAIN f :
                /\ f[i].turn = line.turn /\ f[i].role # "assistant"
                /\ \A m \in i + 1 .. Len(f) : ~f[m].locked
        BY <1>1, <1>2, <2>2 DEF Pending
      <3>2. i \in 1 .. j - 1 /\ g[i] = f[i] /\ g[j] = line
        BY <1>1, <2>2, <3>1
      <3>3. \A m \in i + 1 .. j - 1 : ~g[m].locked
        BY <1>1, <2>2, <3>1
      <3>4. QED BY <3>1, <3>2, <3>3
    <2>3. QED BY <1>1, <2>1, <2>2
  <1>3. QED BY <1>2 DEF Whole, g

\* A line that is written past the mutex leaves a pending message pending.
LEMMA PendingKept ==
    ASSUME NEW f \in Seq(Message), NEW line \in Message, NEW t, Pending(f, t), ~line.locked
    PROVE  Pending(Append(f, line), t)
  <1> DEFINE g == Append(f, line)
  <1>1. Len(f) \in Nat /\ DOMAIN f = 1 .. Len(f) /\ DOMAIN g = 1 .. Len(f) + 1
        /\ Len(g) = Len(f) + 1
        /\ (\A i \in 1 .. Len(f) : g[i] = f[i]) /\ g[Len(f) + 1] = line
    BY AppendFacts
  <1> HIDE DEF g
  <1>2. PICK i \in DOMAIN f :
            /\ f[i].turn = t /\ f[i].role # "assistant"
            /\ \A m \in i + 1 .. Len(f) : ~f[m].locked
    BY DEF Pending
  <1>3. \A m \in i + 1 .. Len(g) : ~g[m].locked
    <2>1. ASSUME NEW m \in i + 1 .. Len(g) PROVE ~g[m].locked
      <3>1. CASE m = Len(f) + 1
        BY <1>1, <3>1
      <3>2. CASE m # Len(f) + 1
        <4>1. m \in i + 1 .. Len(f) /\ m \in 1 .. Len(f)
          BY <1>1, <1>2, <2>1, <3>2
        <4>2. g[m] = f[m] /\ ~f[m].locked
          BY <1>1, <1>2, <4>1
        <4>3. QED BY <4>2
      <3>3. QED BY <3>1, <3>2
    <2>2. QED BY <2>1
  <1>4. i \in DOMAIN g /\ g[i] = f[i]
    BY <1>1, <1>2
  <1>5. Pending(g, t)
    BY <1>2, <1>3, <1>4 DEF Pending
  <1>6. QED BY <1>5 DEF g

LEMMA PendingNow ==
    ASSUME NEW f \in Seq(Message), NEW line \in Message, line.role # "assistant"
    PROVE  Pending(Append(f, line), line.turn)
  <1> DEFINE g == Append(f, line)
  <1>1. Len(f) \in Nat /\ DOMAIN g = 1 .. Len(f) + 1 /\ Len(g) = Len(f) + 1
        /\ g[Len(f) + 1] = line
    BY AppendFacts
  <1> HIDE DEF g
  <1>2. \A m \in (Len(f) + 1) + 1 .. Len(g) : ~g[m].locked
    BY <1>1
  <1>3. QED BY <1>1, <1>2 DEF Pending, g

LEMMA RepliedKept ==
    ASSUME NEW f \in Seq(Message), NEW line \in Message, NEW t, Replied(f, t)
    PROVE  Replied(Append(f, line), t)
  <1>1. QED BY AppendFacts DEF Replied

LEMMA RepliedNow ==
    ASSUME NEW f \in Seq(Message), NEW line \in Message,
           line.role = "assistant", Pending(f, line.turn)
    PROVE  Replied(Append(f, line), line.turn)
  <1>1. PICK i \in DOMAIN f : f[i].turn = line.turn /\ f[i].role # "assistant"
    BY DEF Pending
  <1>2. QED BY <1>1, AppendFacts DEF Replied

-----------------------------------------------------------------------------
(* Indexes                                                                 *)

Fresh(n, idx) == \A k \in Keys : idx[k] # n

\* Two sessions never share a transcript.
Apart(idx) == \A k, l \in Keys : idx[k] = idx[l] /\ idx[k] # NoId => k = l

LEMMA EnsuredFacts ==
    ASSUME NEW idx \in Index, NEW k \in Keys, NEW n \in Ids, Apart(idx),
           idx[k] = NoId => Fresh(n, idx)
    PROVE  /\ Ensured(idx, k, n) \in Index
           /\ Apart(Ensured(idx, k, n))
           /\ Ensured(idx, k, n)[k] \in Ids
           /\ idx[k] # NoId => Ensured(idx, k, n) = idx
           /\ \A l \in Keys \ {k} : /\ Ensured(idx, k, n)[l] = idx[l]
                                    /\ Ensured(idx, k, n)[k] # idx[l]
           /\ \A l \in Keys : Ensured(idx, k, n)[l] \in {idx[l], n}
  <1>1. NoId \notin Ids
    BY DEF NoId, Ids
  <1>2. CASE idx[k] # NoId
    BY <1>1, <1>2 DEF Ensured, Index, Apart
  <1>3. CASE idx[k] = NoId
    <2>1. Ensured(idx, k, n) = [idx EXCEPT ![k] = n]
      BY <1>3 DEF Ensured
    <2>2. idx \in [Keys -> Ids \cup {NoId}]
      BY DEF Index
    <2> DEFINE e == [idx EXCEPT ![k] = n]
    <2>3. e \in Index /\ e[k] = n /\ \A l \in Keys \ {k} : e[l] = idx[l]
      BY <2>2 DEF Index
    <2>4. \A l \in Keys : idx[l] # n
      BY <1>3 DEF Fresh
    <2> HIDE DEF e
    <2>5. Apart(e)
      BY <2>3, <2>4 DEF Apart
    <2>6. QED BY <1>3, <2>1, <2>3, <2>4, <2>5 DEF e
  <1>4. QED BY <1>2, <1>3
-----------------------------------------------------------------------------
(* Callers, mutexes and turns                                              *)

\* A call in progress; what its prompt, limit and mode are does not matter.
Running(r) == [at : {"waiting", "locked", "recorded", "asking"}, turn : Ids, key : Keys,
               kind : Kinds, mode : {r.mode}, limit : {r.limit}, prompt : {r.prompt}]

Inside(c) == call[c].at \in {"locked", "recorded", "asking"}

Types ==
    /\ up \in BOOLEAN /\ messages \in 0 .. MaxMessages /\ answered \subseteq Ids
    /\ index \in Index /\ saved \in Index /\ files \in [Ids -> Seq(Message)]
    /\ holder \in [Keys -> Callers \cup {NoOne}]
    /\ call = [c \in Callers |-> call[c]]
    /\ \A c \in Callers : call[c] = NoCall \/ call[c] \in Running(call[c])
    /\ cli \in CliRun \cup {NoCli}

\* A caller inside a turn holds the mutex of its session; nobody is inside when
\* the gateway is down; and turns are numbered apart.
LockInv ==
    /\ Types
    /\ \A c \in Callers : Inside(c) => holder[call[c].key] = c
    /\ \A c \in Callers : ~up => call[c] = NoCall
    /\ \A c \in Callers : call[c] # NoCall => call[c].turn <= messages
    /\ cli # NoCli => cli.turn <= messages
    /\ \A c, d \in Callers : c # d /\ call[c] # NoCall /\ call[d] # NoCall => call[c].turn # call[d].turn
    /\ \A c \in Callers : call[c] # NoCall /\ cli # NoCli => call[c].turn # cli.turn

LEMMA CallFacts ==
    ASSUME LockInv, NEW c \in Callers, call[c].at # "idle"
    PROVE  /\ call[c] # NoCall /\ call[c] \in Running(call[c])
           /\ call[c].turn \in Ids /\ call[c].key \in Keys /\ call[c].kind \in Kinds
           /\ up
  <1>1. call[c] # NoCall
    BY DEF NoCall
  <1>2. call[c] \in Running(call[c]) /\ up
    BY <1>1 DEF LockInv, Types
  <1>3. QED BY <1>1, <1>2 DEF Running

\* Two callers inside are in two sessions.
LEMMA OneInside ==
    ASSUME LockInv, NEW c \in Callers, NEW d \in Callers, c # d, Inside(c), Inside(d)
    PROVE  call[c].key # call[d].key
  BY DEF LockInv

LEMMA LineType ==
    ASSUME LockInv, NEW c \in Callers, call[c].at # "idle", NEW role \in Roles
    PROVE  /\ Line(c, role) \in Message /\ Line(c, role).turn = call[c].turn
           /\ Line(c, role).role = role /\ Line(c, role).locked
           /\ InboundRole(c) \in Roles \ {"assistant"}
  BY CallFacts DEF Line, Message, InboundRole, Roles

\* What Record leaves of the types of the store.
LEMMA RecordTypes ==
    ASSUME Types, NEW k \in Keys, NEW line \in Message, Record(k, line)
    PROVE  index' \in Index /\ saved' \in Index /\ files' \in [Ids -> Seq(Message)]
  <1> DEFINE e == Ensured(index, k, line.turn)
  <1>1. line.turn \in Ids
    BY DEF Message
  <1>2. e \in Index
    BY <1>1 DEF Ensured, Index, Types
  <1>3. index' = e /\ saved' = e /\ files' = [files EXCEPT ![e[k]] = Append(@, line)]
    BY DEF Record, WithLine
  <1> HIDE DEF e
  <1>4. ASSUME e[k] \in Ids PROVE Append(files[e[k]], line) \in Seq(Message)
    BY <1>4, AppendFacts DEF Types
  <1>5. files' \in [Ids -> Seq(Message)]
    BY <1>3, <1>4 DEF Types
  <1>6. QED BY <1>2, <1>3, <1>5

\* The messages and turns of a step in which a caller stays in its turn.
LEMMA StepType ==
    ASSUME LockInv, NEW c \in Callers, call[c].at # "idle",
           NEW to \in {"waiting", "locked", "recorded", "asking"}, Step(c, to)
    PROVE  /\ call' = [d \in Callers |-> call'[d]]
           /\ call'[c] \in Running(call'[c]) /\ call'[c].at = to
           /\ call'[c].turn = call[c].turn /\ call'[c].key = call[c].key /\ call'[c].kind = call[c].kind
           /\ \A d \in Callers \ {c} : call'[d] = call[d]
  <1>1. call[c] \in Running(call[c])
    BY CallFacts
  <1>2. call = [d \in Callers |-> call[d]]
    BY DEF LockInv, Types
  <1>3. call' = [call EXCEPT ![c].at = to]
    BY DEF Step
  <1>4. call' = [d \in Callers |-> call'[d]] /\ \A d \in Callers \ {c} : call'[d] = call[d]
    BY <1>2, <1>3
  <1>5. call'[c] = [call[c] EXCEPT !.at = to]
    BY <1>2, <1>3
  <1>6. QED BY <1>1, <1>4, <1>5 DEF Running

\* The end of a call.
LEMMA LeaveType ==
    ASSUME LockInv, NEW c \in Callers, call[c].at # "idle", call' = [call EXCEPT ![c] = NoCall]
    PROVE  /\ call' = [d \in Callers |-> call'[d]] /\ call'[c] = NoCall
           /\ \A d \in Callers \ {c} : call'[d] = call[d]
  <1>1. call = [d \in Callers |-> call[d]]
    BY DEF LockInv, Types
  <1>2. QED BY <1>1

\* A step of caller c only.
LEMMA LockKept ==
    ASSUME LockInv, Types', UNCHANGED <<up, messages, cli>>, NEW c \in Callers, call[c].at # "idle",
           \A d \in Callers \ {c} : call'[d] = call[d],
           \/ call'[c] = NoCall
           \/ call'[c].turn = call[c].turn /\ call'[c].key = call[c].key,
           (\A d \in Callers : Inside(d) => holder[call[d].key] = d)'
    PROVE  LockInv'
  <1>1. call[c] # NoCall /\ up
    BY CallFacts
  <1>2. ASSUME NEW d \in Callers, call'[d] # NoCall
        PROVE  call[d] # NoCall /\ call'[d].turn = call[d].turn
    BY <1>1, <1>2
  <1>3. (\A d \in Callers : ~up => call[d] = NoCall)'
    BY <1>1
  <1>4. (\A d \in Callers : call[d] # NoCall => call[d].turn <= messages)'
    BY <1>2 DEF LockInv
  <1>5. (cli # NoCli => cli.turn <= messages)'
    BY DEF LockInv
  <1>6. (\A b, d \in Callers : b # d /\ call[b] # NoCall /\ call[d] # NoCall => call[b].turn # call[d].turn)'
    BY <1>2 DEF LockInv
  <1>7. (\A d \in Callers : call[d] # NoCall /\ cli # NoCli => call[d].turn # cli.turn)'
    BY <1>2 DEF LockInv
  <1>8. QED BY <1>3, <1>4, <1>5, <1>6, <1>7 DEF LockInv

LEMMA InitLock == Init => LockInv
  <1> SUFFICES ASSUME Init PROVE LockInv
    OBVIOUS
  <1>1. NoSessions \in Index
    BY DEF NoSessions, Index
  <1>2. Types
    BY <1>1 DEF Init, Types
  <1>3. \A c \in Callers : call[c] = NoCall /\ ~Inside(c)
    BY DEF Init, Inside, NoCall
  <1>4. cli = NoCli
    BY DEF Init
  <1>5. QED BY <1>2, <1>3, <1>4 DEF LockInv

\* Entering the queue for a session.
LEMMA ArriveLock == LockInv /\ (\E c \in Callers : Arrive(c)) => LockInv'
  <1> SUFFICES ASSUME LockInv, NEW c \in Callers, Arrive(c) PROVE LockInv'
    OBVIOUS
  <1>1. PICK k \in Keys, kind \in Kinds, policy \in Policies :
            call' = [call EXCEPT ![c] =
                       [at |-> "waiting", turn |-> messages + 1, key |-> k, kind |-> kind,
                        mode |-> policy.mode, limit |-> HistoryLimit(policy.limit),
                        prompt |-> <<>>]]
    BY DEF Arrive
  <1> DEFINE new == [at |-> "waiting", turn |-> messages + 1, key |-> k, kind |-> kind,
                     mode |-> policy.mode, limit |-> HistoryLimit(policy.limit), prompt |-> <<>>]
  <1>2. up /\ call[c] = NoCall /\ messages < MaxMessages /\ messages' = messages + 1
        /\ UNCHANGED <<up, store, holder, cli, answered>>
    BY DEF Arrive
  <1>3. messages \in Nat /\ messages + 1 \in Ids /\ messages + 1 \in 0 .. MaxMessages
    BY <1>2 DEF LockInv, Types, Ids
  <1>4. call' = [d \in Callers |-> call'[d]] /\ call'[c] = new
        /\ \A d \in Callers \ {c} : call'[d] = call[d]
    BY <1>1 DEF LockInv, Types
  <1>5. new \in Running(new) /\ new.at = "waiting" /\ new.turn = messages + 1
    BY <1>3 DEF Running
  <1> HIDE DEF new
  <1>6. \A d \in Callers : call'[d] = NoCall \/ call'[d] \in Running(call'[d])
    BY <1>4, <1>5 DEF LockInv, Types
  <1>7. Types'
    BY <1>2, <1>3, <1>4, <1>6 DEF LockInv, Types, store
  <1>8. ASSUME NEW d \in Callers, call[d] # NoCall
        PROVE  call[d].turn \in Int /\ call[d].turn <= messages /\ call[d].turn # messages + 1
    <2>1. call[d].turn \in Ids /\ call[d].turn <= messages
      BY <1>8 DEF LockInv, Types, Running
    <2>2. QED BY <1>3, <2>1 DEF Ids
  <1>9. cli # NoCli => cli.turn \in Int /\ cli.turn <= messages /\ cli.turn # messages + 1
    <2>1. cli # NoCli => cli.turn \in Ids /\ cli.turn <= messages
      BY DEF LockInv, Types, CliRun
    <2>2. QED BY <1>3, <2>1 DEF Ids
  <1>10. (\A d \in Callers : Inside(d) => holder[call[d].key] = d)'
    BY <1>2, <1>4, <1>5 DEF LockInv, Inside
  <1>11. (\A d \in Callers : call[d] # NoCall => call[d].turn <= messages)'
    <2>1. \A d \in Callers : call'[d] # NoCall => call'[d].turn <= messages + 1
      BY <1>3, <1>4, <1>5, <1>8
    <2>2. QED BY <1>2, <2>1
  <1>12. (cli # NoCli => cli.turn <= messages)'
    <2>1. cli # NoCli => cli.turn <= messages + 1
      BY <1>3, <1>9
    <2>2. QED BY <1>2, <2>1
  <1>13. (\A b, d \in Callers : b # d /\ call[b] # NoCall /\ call[d] # NoCall => call[b].turn # call[d].turn)'
    BY <1>4, <1>5, <1>8 DEF LockInv
  <1>14. (\A d \in Callers : call[d] # NoCall /\ cli # NoCli => call[d].turn # cli.turn)'
    BY <1>2, <1>4, <1>5, <1>9 DEF LockInv
  <1>15. QED BY <1>2, <1>7, <1>10, <1>11, <1>12, <1>13, <1>14 DEF LockInv

\* A turn, from the mutex to the end of the call.
LEMMA TurnLock == LockInv /\ (\E c \in Callers : Turn(c)) => LockInv'
  <1> SUFFICES ASSUME LockInv, NEW c \in Callers, Turn(c) PROVE LockInv'
    OBVIOUS
  <1> DEFINE others == \A d \in Callers \ {c} : call'[d] = call[d]
             held   == (\A d \in Callers : Inside(d) => holder[call[d].key] = d)'
  <1>1. CASE Lock(c)
    <2>1. call[c].at = "waiting" /\ Step(c, "locked") /\ holder[call[c].key] = NoOne
          /\ holder' = [holder EXCEPT ![call[c].key] = c]
          /\ UNCHANGED <<up, store, cli, messages, answered>>
      BY <1>1 DEF Lock, Unlocked
    <2>2. /\ call' = [d \in Callers |-> call'[d]] /\ call'[c] \in Running(call'[c])
          /\ call'[c].turn = call[c].turn /\ call'[c].key = call[c].key /\ others
      BY <2>1, StepType
    <2>3. call[c].key \in Keys /\ holder \in [Keys -> Callers \cup {NoOne}]
      BY <2>1, CallFacts DEF LockInv, Types
    <2>4. Types'
      BY <2>1, <2>2, <2>3 DEF LockInv, Types, store
    <2>5. ASSUME NEW d \in Callers \ {c}, Inside(d)
          PROVE  holder[call[d].key] = d /\ call[d].key \in Keys /\ call[d].key # call[c].key
      <3>1. holder[call[d].key] = d /\ call[d].key \in Keys
        BY <2>5, CallFacts DEF LockInv, Inside
      <3>2. QED BY <2>1, <3>1
    <2>6. held
      BY <2>1, <2>2, <2>3, <2>5 DEF Inside
    <2>7. QED BY <2>1, <2>2, <2>4, <2>6, LockKept
  <1>2. CASE GiveUp(c)
    <2>1. call[c].at = "waiting" /\ call' = [call EXCEPT ![c] = NoCall]
          /\ UNCHANGED <<up, store, holder, cli, messages, answered>>
      BY <1>2 DEF GiveUp
    <2>2. call' = [d \in Callers |-> call'[d]] /\ call'[c] = NoCall /\ others
      BY <2>1, LeaveType
    <2>3. Types'
      BY <2>1, <2>2 DEF LockInv, Types, store
    <2>4. held
      BY <2>1, <2>2 DEF LockInv, Inside, NoCall
    <2>5. QED BY <2>1, <2>2, <2>3, <2>4, LockKept
  <1>3. CASE Open(c)
    <2>1. PICK to \in {"asking", "recorded"} : Step(c, to)
      BY <1>3 DEF Open
    <2>2. call[c].at = "locked" /\ Record(call[c].key, Line(c, InboundRole(c)))
          /\ UNCHANGED <<up, holder, cli, messages, answered>>
      BY <1>3 DEF Open
    <2>3. /\ call' = [d \in Callers |-> call'[d]] /\ call'[c] \in Running(call'[c])
          /\ call'[c].turn = call[c].turn /\ call'[c].key = call[c].key /\ others
      BY <2>1, <2>2, StepType
    <2>4. call[c].key \in Keys /\ Line(c, InboundRole(c)) \in Message
      <3>1. InboundRole(c) \in Roles
        BY DEF InboundRole, Roles
      <3>2. QED BY <2>2, <3>1, CallFacts, LineType
    <2>5. index' \in Index /\ saved' \in Index /\ files' \in [Ids -> Seq(Message)]
      BY <2>2, <2>4, RecordTypes DEF LockInv
    <2>6. Types'
      BY <2>2, <2>3, <2>5 DEF LockInv, Types
    <2>7. held
      BY <2>2, <2>3 DEF LockInv, Inside
    <2>8. QED BY <2>2, <2>3, <2>6, <2>7, LockKept
  <1>4. CASE Load(c)
    <2>1. call[c].at = "recorded" /\ UNCHANGED <<up, store, holder, cli, messages, answered>>
      BY <1>4 DEF Load
    <2>2. PICK prompt : call' = [call EXCEPT ![c].at = "asking", ![c].prompt = prompt]
      BY <1>4 DEF Load
    <2>3. call[c] \in Running(call[c])
      BY <2>1, CallFacts
    <2>4. call = [d \in Callers |-> call[d]]
      BY DEF LockInv, Types
    <2>5. call'[c] = [call[c] EXCEPT !.at = "asking", !.prompt = prompt]
          /\ call' = [d \in Callers |-> call'[d]] /\ others
      BY <2>2, <2>4
    <2>6. /\ call'[c] \in Running(call'[c])
          /\ call'[c].turn = call[c].turn /\ call'[c].key = call[c].key
      BY <2>3, <2>5 DEF Running
    <2>7. Types'
      BY <2>1, <2>5, <2>6 DEF LockInv, Types, store
    <2>8. held
      <3>1. others /\ UNCHANGED holder /\ call'[c].key = call[c].key
        BY <2>1, <2>5, <2>6
      <3>2. \A d \in Callers : Inside(d) => holder[call[d].key] = d
        BY DEF LockInv
      <3>3. holder[call[c].key] = c
        BY <2>1, <3>2 DEF Inside
      <3>4. ASSUME NEW d \in Callers, call'[d].at \in {"locked", "recorded", "asking"}
            PROVE  holder'[call'[d].key] = d
        <4>1. CASE d = c
          BY <3>1, <3>3, <4>1
        <4>2. CASE d # c
          BY <3>1, <3>2, <3>4, <4>2 DEF Inside
        <4>3. QED BY <4>1, <4>2
      <3>5. QED BY <3>4 DEF Inside
    <2>9. QED BY <2>1, <2>5, <2>6, <2>7, <2>8, LockKept
  <1>5. CASE Answer(c) \/ Fail(c)
    <2>1. call[c].at = "asking" /\ Leave(c) /\ UNCHANGED <<up, cli, messages>>
      BY <1>5 DEF Answer, Fail
    <2>2. call' = [d \in Callers |-> call'[d]] /\ call'[c] = NoCall /\ others
      BY <2>1, LeaveType DEF Leave
    <2>3. call[c].key \in Keys /\ call[c].turn \in Ids /\ Line(c, "assistant") \in Message
      BY <2>1, CallFacts, LineType DEF Roles
    <2>4. index' \in Index /\ saved' \in Index /\ files' \in [Ids -> Seq(Message)]
      <3>1. CASE Answer(c)
        BY <2>3, <3>1, RecordTypes DEF Answer, LockInv
      <3>2. CASE Fail(c)
        BY <3>2 DEF Fail, store, LockInv, Types
      <3>3. QED BY <1>5, <3>1, <3>2
    <2>5. answered' \subseteq Ids
      BY <1>5, <2>3 DEF Answer, Fail, LockInv, Types
    <2>6. holder' = [holder EXCEPT ![call[c].key] = NoOne]
          /\ holder \in [Keys -> Callers \cup {NoOne}]
      BY <2>1 DEF Leave, LockInv, Types
    <2>7. Types'
      BY <2>1, <2>2, <2>4, <2>5, <2>6 DEF LockInv, Types
    <2>8. ASSUME NEW d \in Callers \ {c}, Inside(d)
          PROVE  holder'[call[d].key] = d
      <3>1. Inside(c)
        BY <2>1 DEF Inside
      <3>2. call[d].key # call[c].key
        BY <2>8, <3>1, OneInside
      <3>3. holder[call[d].key] = d /\ call[d].key \in Keys
        BY <2>8, CallFacts DEF LockInv, Inside
      <3>4. QED BY <2>3, <2>6, <3>2, <3>3
    <2>9. held
      BY <2>2, <2>8 DEF Inside, NoCall
    <2>10. QED BY <2>1, <2>2, <2>7, <2>9, LockKept
  <1>6. QED BY <1>1, <1>2, <1>3, <1>4, <1>5 DEF Turn

\* Steps of the gateway as a whole and of the CLI.
LEMMA ReadFacts ==
    ASSUME NEW other \in BOOLEAN
    PROVE  /\ Read(other) \subseteq {saved, NoSessions}
           /\ saved \in Index => Read(other) \subseteq Index
  BY DEF Read, NoSessions, Index

LEMMA GoneFacts ==
    ASSUME Gone
    PROVE  /\ up' = FALSE /\ index' = NoSessions /\ holder' = [k \in Keys |-> NoOne]
           /\ call' = [c \in Callers |-> call'[c]] /\ NoSessions \in Index
           /\ \A c \in Callers : call'[c] = NoCall /\ NoCall.at = "idle"
  BY DEF Gone, NoSessions, Index, NoCall

\* The gateway is gone; whatever it left in the files.
LEMMA GoneLock ==
    ASSUME LockInv, Gone, UNCHANGED <<cli, messages, answered>>,
           saved' \in Index, files' \in [Ids -> Seq(Message)]
    PROVE  LockInv'
  <1>1. Types'
    BY GoneFacts DEF LockInv, Types
  <1>2. (\A c \in Callers : ~Inside(c))'
    BY GoneFacts DEF Inside
  <1>3. (cli # NoCli => cli.turn <= messages)'
    BY DEF LockInv
  <1>4. QED BY <1>1, <1>2, <1>3, GoneFacts DEF LockInv

LEMMA CrashInSaveFacts ==
    ASSUME LockInv, CrashInSave
    PROVE  /\ Gone /\ UNCHANGED <<files, cli, messages, answered>>
           /\ \E c \in Callers :
                 /\ call[c].at \in {"locked", "asking"}
                 /\ call[c].key \in Keys /\ call[c].turn \in Ids /\ call[c].turn <= messages
                 /\ saved' \in {Ensured(index, call[c].key, call[c].turn), NoSessions}
  <1>1. PICK c \in Callers :
            /\ call[c].at \in {"locked", "asking"}
            /\ saved' \in {Ensured(index, call[c].key, call[c].turn), NoSessions}
    BY DEF CrashInSave
  <1>2. call[c].key \in Keys /\ call[c].turn \in Ids /\ call[c].turn <= messages
    BY <1>1, CallFacts DEF LockInv
  <1>3. QED BY <1>1, <1>2 DEF CrashInSave

\* The transcripts after a line is written, whatever names the transcript.
LEMMA WithLineType ==
    ASSUME NEW fs \in [Ids -> Seq(Message)], NEW id, NEW line \in Message
    PROVE  /\ WithLine(fs, id, line) \in [Ids -> Seq(Message)]
           /\ id \in Ids => WithLine(fs, id, line)[id] = Append(fs[id], line)
           /\ \A other \in Ids \ {id} : WithLine(fs, id, line)[other] = fs[other]
  <1>1. ASSUME id \in Ids PROVE Append(fs[id], line) \in Seq(Message)
    BY <1>1, AppendFacts
  <1>2. QED BY <1>1 DEF WithLine

LEMMA NextLock == LockInv /\ [Next]_vars => LockInv'
  <1> SUFFICES ASSUME LockInv, [Next]_vars PROVE LockInv'
    OBVIOUS
  <1>1. CASE \E c \in Callers : Arrive(c) \/ Turn(c)
    BY <1>1, ArriveLock, TurnLock
  <1>2. ASSUME messages < MaxMessages, messages' = messages + 1, UNCHANGED <<up, holder, call, answered>>,
               index' \in Index, saved' \in Index, files' \in [Ids -> Seq(Message)],
               cli' = cli \/ (cli' \in CliRun /\ cli'.turn = messages + 1)
        PROVE  LockInv'
    <2>1. messages \in Nat /\ messages + 1 \in 0 .. MaxMessages
      BY <1>2 DEF LockInv, Types
    <2>2. Types'
      BY <1>2, <2>1 DEF LockInv, Types
    <2>3. ASSUME NEW c \in Callers, call[c] # NoCall
          PROVE  call[c].turn <= messages + 1 /\ call[c].turn # messages + 1
      <3>1. call[c].turn \in Ids /\ call[c].turn <= messages
        BY <2>3 DEF LockInv, Types, Running
      <3>2. QED BY <2>1, <3>1 DEF Ids
    <2>4. cli # NoCli => cli.turn <= messages + 1
      <3>1. cli # NoCli => cli.turn \in Ids /\ cli.turn <= messages
        BY DEF LockInv, Types, CliRun
      <3>2. QED BY <2>1, <3>1 DEF Ids
    <2>5. cli' # NoCli => cli'.turn <= messages + 1
      BY <1>2, <2>1, <2>4
    <2>6. \A c \in Callers : call[c] # NoCall /\ cli' # NoCli => call[c].turn # cli'.turn
      BY <1>2, <2>3 DEF LockInv
    <2>7. (\A c \in Callers : call[c] # NoCall => call[c].turn <= messages)'
      BY <1>2, <2>3
    <2>8. (cli # NoCli => cli.turn <= messages)'
      BY <1>2, <2>5
    <2>9. (\A c \in Callers : Inside(c) => holder[call[c].key] = c)'
      BY <1>2 DEF LockInv, Inside
    <2>10. QED BY <1>2, <2>2, <2>6, <2>7, <2>8, <2>9 DEF LockInv
  <1>3. CASE Note
    <2> DEFINE line == [turn |-> messages + 1, role |-> "system", locked |-> FALSE]
    <2>1. messages < MaxMessages /\ Record(Main, line) /\ messages' = messages + 1
          /\ UNCHANGED <<up, holder, call, cli, answered>>
      BY <1>3 DEF Note
    <2>2. messages + 1 \in Ids
      BY <2>1 DEF LockInv, Types, Ids
    <2>3. line \in Message
      BY <2>2 DEF Message, Roles
    <2> HIDE DEF line
    <2>4. index' \in Index /\ saved' \in Index /\ files' \in [Ids -> Seq(Message)]
      BY <2>1, <2>3, RecordTypes DEF LockInv
    <2>5. QED BY <1>2, <2>1, <2>4
  <1>4. CASE CliOpen
    <2>1. messages < MaxMessages /\ messages' = messages + 1
          /\ UNCHANGED <<up, store, holder, call, answered>>
      BY <1>4 DEF CliOpen
    <2>2. PICK k \in Keys, role \in {"user", "system"}, read \in Read(up) :
              cli' = [turn |-> messages + 1, key |-> k, role |-> role, index |-> read]
      BY <1>4 DEF CliOpen
    <2>3. messages + 1 \in Ids /\ read \in Index
      BY <2>1, ReadFacts DEF LockInv, Types, Ids
    <2>4. cli' \in CliRun /\ cli'.turn = messages + 1
      BY <2>2, <2>3 DEF CliRun
    <2>5. index' \in Index /\ saved' \in Index /\ files' \in [Ids -> Seq(Message)]
      BY <2>1 DEF store, LockInv, Types
    <2>6. QED BY <1>2, <2>1, <2>4, <2>5
  <1>5. CASE CliWrite \/ CliDies
    <2> DEFINE line == [turn |-> cli.turn, role |-> cli.role, locked |-> FALSE]
               e    == Ensured(cli.index, cli.key, cli.turn)
    <2>1. cli # NoCli /\ cli' = NoCli /\ saved' \in {e, NoSessions}
          /\ (files' = files \/ files' = WithLine(files, e[cli.key], line))
          /\ UNCHANGED <<up, index, holder, call, messages, answered>>
      BY <1>5 DEF CliWrite, CliDies
    <2>2. cli \in CliRun
      BY <2>1 DEF LockInv, Types
    <2>3. e \in Index /\ line \in Message /\ NoSessions \in Index
      BY <2>2 DEF CliRun, Ensured, Index, Message, Roles, NoSessions
    <2> HIDE DEF e, line
    <2>4. files' \in [Ids -> Seq(Message)]
      BY <2>1, <2>3, WithLineType DEF LockInv, Types
    <2>5. Types'
      BY <2>1, <2>3, <2>4 DEF LockInv, Types
    <2>6. (\A c \in Callers : Inside(c) => holder[call[c].key] = c)'
      BY <2>1 DEF LockInv, Inside
    <2>7. QED BY <2>1, <2>5, <2>6 DEF LockInv
  <1>6. CASE Crash
    BY <1>6, GoneLock DEF Crash, LockInv, Types
  <1>7. CASE CrashInSave
    <2>1. PICK c \in Callers :
              /\ call[c].key \in Keys /\ call[c].turn \in Ids
              /\ saved' \in {Ensured(index, call[c].key, call[c].turn), NoSessions}
      BY <1>7, CrashInSaveFacts
    <2>2. Ensured(index, call[c].key, call[c].turn) \in Index
      BY <2>1 DEF LockInv, Types, Ensured, Index
    <2>3. Gone /\ NoSessions \in Index /\ UNCHANGED <<files, cli, messages, answered>>
      BY <1>7, CrashInSaveFacts, GoneFacts
    <2>4. files' \in [Ids -> Seq(Message)]
      BY <2>3 DEF LockInv, Types
    <2>5. QED BY <2>1, <2>2, <2>3, <2>4, GoneLock
  <1>8. CASE Boot
    <2>1. up' /\ index' \in Index /\ UNCHANGED <<saved, files, holder, call, cli, messages, answered>>
          /\ up' \in BOOLEAN
      BY <1>8, ReadFacts DEF Boot, LockInv, Types
    <2>2. Types'
      BY <2>1 DEF LockInv, Types
    <2>3. (\A c \in Callers : Inside(c) => holder[call[c].key] = c)'
      BY <2>1 DEF LockInv, Inside
    <2>4. QED BY <2>1, <2>2, <2>3 DEF LockInv
  <1>9. CASE UNCHANGED vars
    <2>1. UNCHANGED <<up, index, saved, files, holder, call, cli, messages, answered>>
      BY <1>9 DEF vars, store
    <2>2. Types' /\ (\A c \in Callers : Inside(c) => holder[call[c].key] = c)'
      BY <2>1 DEF LockInv, Types, Inside
    <2>3. QED BY <2>1, <2>2 DEF LockInv
  <1>10. QED
    BY <1>1, <1>3, <1>4, <1>5, <1>6, <1>7, <1>8, <1>9 DEF Next

-----------------------------------------------------------------------------
(* Indexes and the callers that use them                                   *)

Old(idx) == \A k \in Keys : idx[k] <= messages

\* The number n is in none of the indexes.
Unused(n) == /\ Fresh(n, index) /\ Fresh(n, saved)
             /\ cli # NoCli => Fresh(n, cli.index)

\* Whoever is to open a session has a number of its own for it, whichever copy
\* of the index it is going to look into.
IndexInv ==
    /\ Apart(index) /\ Apart(saved) /\ Old(index) /\ Old(saved)
    /\ cli # NoCli => Apart(cli.index) /\ Old(cli.index) /\ Fresh(cli.turn, cli.index)
    /\ \A c \in Callers : call[c].at \in {"waiting", "locked"} => Unused(call[c].turn)
    /\ \A c \in Callers : call[c].at \in {"recorded", "asking"} => index[call[c].key] # NoId

\* A line of the gateway: one transcript grows, and no other session has it.
LEMMA RecordFacts ==
    ASSUME LockInv, IndexInv, NEW k \in Keys, NEW line \in Message, Record(k, line),
           index[k] = NoId => Fresh(line.turn, index)
    PROVE  /\ Apart(index') /\ saved' = index' /\ index'[k] \in Ids
           /\ files'[index'[k]] = Append(files[index'[k]], line)
           /\ \A id \in Ids \ {index'[k]} : files'[id] = files[id]
           /\ index[k] # NoId => index' = index
           /\ \A l \in Keys \ {k} : index'[l] = index[l] /\ index'[k] # index[l]
           /\ \A l \in Keys : index'[l] \in {index[l], line.turn}
  <1> DEFINE e == Ensured(index, k, line.turn)
  <1>1. line.turn \in Ids
    BY DEF Message
  <1>2. index \in Index /\ Apart(index) /\ files \in [Ids -> Seq(Message)]
    BY DEF LockInv, Types, IndexInv
  <1>3. index' = e /\ saved' = e /\ files' = WithLine(files, e[k], line)
    BY DEF Record
  <1>4. /\ Apart(e) /\ e[k] \in Ids
        /\ index[k] # NoId => e = index
        /\ \A l \in Keys \ {k} : e[l] = index[l] /\ e[k] # index[l]
        /\ \A l \in Keys : e[l] \in {index[l], line.turn}
    BY <1>1, <1>2, EnsuredFacts
  <1> HIDE DEF e
  <1>5. /\ files'[e[k]] = Append(files[e[k]], line)
        /\ \A id \in Ids \ {e[k]} : files'[id] = files[id]
    BY <1>2, <1>3, <1>4, WithLineType
  <1>6. QED BY <1>3, <1>4, <1>5

\* A caller that may write has a session, or a number for it.
LEMMA MayRecord ==
    ASSUME LockInv, IndexInv, NEW c \in Callers, call[c].at \in {"locked", "asking"}
    PROVE  index[call[c].key] = NoId => Fresh(call[c].turn, index)
  BY DEF IndexInv, Unused

LEMMA OldTypes ==
    ASSUME Types, NEW idx \in Index, Old(idx)
    PROVE  \A k \in Keys : idx[k] \in Int /\ idx[k] <= messages + 1 /\ idx[k] # messages + 1
  <1>1. ASSUME NEW k \in Keys PROVE idx[k] \in Int /\ idx[k] <= messages /\ messages \in Int
    BY DEF Index, Ids, NoId, Old, Types
  <1>2. QED BY <1>1

LEMMA NoSessionsFacts ==
    ASSUME Types
    PROVE  /\ Apart(NoSessions) /\ \A l \in Keys : NoSessions[l] <= messages
           /\ \A n \in Ids : Fresh(n, NoSessions)
  <1>1. \A l \in Keys : NoSessions[l] = 0
    BY DEF NoSessions, NoId
  <1>2. messages \in Nat /\ \A n \in Ids : n # 0
    BY DEF Types, Ids
  <1>3. QED BY <1>1, <1>2 DEF Apart, NoId, Fresh

LEMMA InitIndex == Init => IndexInv
  <1> SUFFICES ASSUME Init PROVE IndexInv
    OBVIOUS
  <1>1. cli = NoCli /\ index = NoSessions /\ saved = NoSessions /\ messages = 0
        /\ \A c \in Callers : call[c].at = "idle"
    BY DEF Init, NoCall
  <1>2. Apart(NoSessions) /\ \A k \in Keys : NoSessions[k] = 0
    BY DEF Apart, NoSessions, NoId
  <1>3. QED BY <1>1, <1>2 DEF IndexInv, Old

\* The gateway's index after a line, as the others see it.
LEMMA RecordIndex ==
    ASSUME LockInv, IndexInv, UNCHANGED cli, NEW k \in Keys, NEW line \in Message, Record(k, line),
           index[k] = NoId => Fresh(line.turn, index),
           NEW top \in Int, top = messages', line.turn <= top, messages <= top
    PROVE  /\ Apart(index') /\ Apart(saved') /\ Old(index)' /\ Old(saved)'
           /\ (cli # NoCli => Apart(cli.index) /\ Old(cli.index) /\ Fresh(cli.turn, cli.index))'
           /\ \A n : n # line.turn /\ Unused(n) => Unused(n)'
  <1>1. Types /\ index \in Index /\ messages \in Int /\ line.turn \in Int
    <2>1. Types
      BY DEF LockInv
    <2>2. index \in Index /\ messages \in Int
      BY <2>1 DEF Types
    <2>3. line.turn \in Int
      BY DEF Message, Ids
    <2>4. QED BY <2>1, <2>2, <2>3
  <1>2. \A l \in Keys : index[l] \in Int /\ index[l] <= messages
    BY <1>1, OldTypes DEF IndexInv, Old
  <1>3. saved' = index' /\ Apart(index') /\ \A l \in Keys : index'[l] \in {index[l], line.turn}
    BY RecordFacts
  <1>4. \A l \in Keys : index'[l] <= top
    BY <1>1, <1>2, <1>3
  <1>5. ASSUME cli # NoCli
        PROVE  Apart(cli.index) /\ Fresh(cli.turn, cli.index) /\ \A l \in Keys : cli.index[l] <= top
    <2>1. cli.index \in Index /\ Old(cli.index)
      BY <1>5 DEF LockInv, Types, CliRun, IndexInv
    <2>2. \A l \in Keys : cli.index[l] \in Int /\ cli.index[l] <= messages
      BY <1>1, <2>1, OldTypes DEF Old
    <2>3. QED BY <1>1, <1>5, <2>2 DEF IndexInv
  <1>6. ASSUME NEW n, n # line.turn, Unused(n) PROVE Unused(n)'
    BY <1>3, <1>6 DEF Unused, Fresh
  <1>7. Old(index)' /\ Old(saved)'
    BY <1>3, <1>4 DEF Old
  <1>8. (cli # NoCli => Apart(cli.index) /\ Old(cli.index) /\ Fresh(cli.turn, cli.index))'
    <2>1. ASSUME cli' # NoCli PROVE Apart(cli'.index) /\ Old(cli.index)' /\ Fresh(cli'.turn, cli'.index)
      BY <1>5, <2>1 DEF Old
    <2>2. QED BY <2>1 DEF Apart, Fresh
  <1>9. QED BY <1>3, <1>6, <1>7, <1>8

\* A line that caller c writes in its turn.
LEMMA TurnRecordIndex ==
    ASSUME LockInv, IndexInv, UNCHANGED <<cli, messages>>, NEW c \in Callers, NEW role \in Roles,
           call[c].at \in {"locked", "asking"}, Record(call[c].key, Line(c, role)),
           \A d \in Callers \ {c} : call'[d] = call[d],
           \/ call'[c] = NoCall
           \/ call'[c].at \in {"recorded", "asking"} /\ call'[c].key = call[c].key
    PROVE  IndexInv'
  <1> DEFINE line == Line(c, role)
             k    == call[c].key
  <1>1. line \in Message /\ line.turn = call[c].turn /\ call[c].turn \in Ids
        /\ k \in Keys /\ call[c].turn <= messages /\ messages \in Int
    <2>1. call[c] # NoCall
      BY CallFacts
    <2>2. QED BY <2>1, CallFacts, LineType DEF LockInv, Types
  <1>2. index[k] = NoId => Fresh(line.turn, index)
    BY <1>1, MayRecord
  <1> HIDE DEF line
  <1>3. /\ Apart(index') /\ Apart(saved') /\ Old(index)' /\ Old(saved)'
        /\ (cli # NoCli => Apart(cli.index) /\ Old(cli.index) /\ Fresh(cli.turn, cli.index))'
        /\ \A n : n # line.turn /\ Unused(n) => Unused(n)'
    <2>1. Record(k, line)
      BY DEF line
    <2>2. messages = messages' /\ line.turn <= messages /\ messages <= messages
      BY <1>1
    <2>3. QED BY <1>1, <1>2, <2>1, <2>2, RecordIndex
  <1>4. index'[k] \in Ids /\ \A l \in Keys \ {k} : index'[l] = index[l]
    <2>1. Record(k, line)
      BY DEF line
    <2>2. QED BY <1>1, <1>2, <2>1, RecordFacts
  <1>5. (\A d \in Callers : call[d].at \in {"waiting", "locked"} => Unused(call[d].turn))'
    <2>1. ASSUME NEW d \in Callers, call'[d].at \in {"waiting", "locked"}
          PROVE  Unused(call[d].turn)' /\ call'[d].turn = call[d].turn
      <3>1. d # c /\ call'[d] = call[d]
        BY <2>1 DEF NoCall
      <3>2. call[d] # NoCall /\ call[c] # NoCall
        BY <2>1, <3>1, CallFacts
      <3>3. call[d].turn # line.turn
        BY <1>1, <3>1, <3>2 DEF LockInv
      <3>4. Unused(call[d].turn)
        BY <2>1, <3>1 DEF IndexInv
      <3>5. Unused(call[d].turn)'
        <4>1. PICK n : n = call[d].turn
          OBVIOUS
        <4>2. Unused(n)'
          BY <1>3, <3>3, <3>4, <4>1
        <4>3. n = call'[d].turn
          BY <3>1, <4>1
        <4>4. QED BY <4>2, <4>3
      <3>6. QED BY <3>1, <3>5
    <2>2. QED BY <2>1
  <1>6. (\A d \in Callers : call[d].at \in {"recorded", "asking"} => index[call[d].key] # NoId)'
    <2>1. ASSUME NEW d \in Callers, call'[d].at \in {"recorded", "asking"}
          PROVE  index'[call'[d].key] # NoId
      <3>1. CASE d = c
        BY <1>4, <2>1, <3>1 DEF NoCall, NoId, Ids
      <3>2. CASE d # c
        <4>1. call'[d] = call[d] /\ Inside(c) /\ Inside(d) /\ call[d].key \in Keys
          BY <2>1, <3>2, CallFacts DEF Inside
        <4>2. call[d].key # k
          BY <3>2, <4>1, OneInside
        <4>3. index[call[d].key] # NoId
          BY <2>1, <4>1 DEF IndexInv
        <4>4. QED BY <1>4, <4>1, <4>2, <4>3
      <3>3. QED BY <3>1, <3>2
    <2>2. QED BY <2>1
  <1>7. QED BY <1>3, <1>5, <1>6 DEF IndexInv

\* A step that leaves the store and the CLI alone.
LEMMA QuietIndex ==
    ASSUME LockInv, IndexInv, UNCHANGED <<index, saved, cli>>,
           NEW top \in Int, top = messages', messages <= top,
           \A d \in Callers : call'[d].at \in {"waiting", "locked"} => Unused(call'[d].turn),
           \A d \in Callers : call'[d].at \in {"recorded", "asking"} => index[call'[d].key] # NoId
    PROVE  IndexInv'
  <1>1. Types /\ index \in Index /\ saved \in Index /\ messages \in Int
    BY DEF LockInv, Types
  <1>2. \A l \in Keys : index[l] <= top /\ saved[l] <= top
    <2>1. \A l \in Keys : index[l] \in Int /\ saved[l] \in Int /\ index[l] <= messages /\ saved[l] <= messages
      BY <1>1, OldTypes DEF IndexInv, Old
    <2>2. QED BY <1>1, <2>1
  <1>3. ASSUME cli # NoCli
        PROVE  \A l \in Keys : cli.index[l] <= top
    <2>1. cli.index \in Index /\ Old(cli.index)
      BY <1>3 DEF LockInv, Types, CliRun, IndexInv
    <2>2. \A l \in Keys : cli.index[l] \in Int /\ cli.index[l] <= messages
      BY <1>1, <2>1, OldTypes DEF Old
    <2>3. QED BY <1>1, <2>2
  <1>4. Old(index)' /\ Old(saved)' /\ (cli # NoCli => Old(cli.index))'
    BY <1>2, <1>3 DEF Old
  <1>5. (\A d \in Callers : call[d].at \in {"waiting", "locked"} => Unused(call[d].turn))'
    BY DEF Unused, Fresh
  <1>6. QED BY <1>4, <1>5 DEF IndexInv, Apart, Fresh

LEMMA TurnIndex == LockInv /\ IndexInv /\ (\E c \in Callers : Turn(c)) => IndexInv'
  <1> SUFFICES ASSUME LockInv, IndexInv, NEW c \in Callers, Turn(c) PROVE IndexInv'
    OBVIOUS
  <1>1. messages \in Int
    BY DEF LockInv, Types
  <1>2. ASSUME UNCHANGED <<index, saved, cli, messages>>, \A d \in Callers \ {c} : call'[d] = call[d],
               \/ call'[c] = NoCall
               \/ call'[c].at = "locked" /\ call[c].at = "waiting" /\ call'[c].turn = call[c].turn
               \/ call'[c].at = "asking" /\ call[c].at = "recorded" /\ call'[c].key = call[c].key
        PROVE  IndexInv'
    <2>1. ASSUME NEW d \in Callers, call'[d].at \in {"waiting", "locked"} PROVE Unused(call'[d].turn)
      BY <1>2, <2>1 DEF IndexInv, NoCall
    <2>2. ASSUME NEW d \in Callers, call'[d].at \in {"recorded", "asking"} PROVE index[call'[d].key] # NoId
      BY <1>2, <2>2 DEF IndexInv, NoCall
    <2>3. messages = messages' /\ messages <= messages
      BY <1>1, <1>2
    <2>4. QED BY <1>1, <1>2, <2>1, <2>2, <2>3, QuietIndex
  <1>3. CASE Lock(c)
    <2>1. call[c].at = "waiting" /\ Step(c, "locked") /\ UNCHANGED <<index, saved, cli, messages>>
      BY <1>3 DEF Lock, store
    <2>2. QED BY <1>2, <2>1, StepType
  <1>4. CASE GiveUp(c)
    <2>1. call[c].at = "waiting" /\ call' = [call EXCEPT ![c] = NoCall]
          /\ UNCHANGED <<index, saved, cli, messages>>
      BY <1>4 DEF GiveUp, store
    <2>2. QED BY <1>2, <2>1, LeaveType
  <1>5. CASE Open(c)
    <2> DEFINE to == IF call[c].kind = "command" THEN "asking" ELSE "recorded"
    <2>1. call[c].at = "locked" /\ Record(call[c].key, Line(c, InboundRole(c))) /\ Step(c, to)
          /\ UNCHANGED <<cli, messages>>
      BY <1>5 DEF Open
    <2>2. InboundRole(c) \in Roles
      BY DEF InboundRole, Roles
    <2>3. to \in {"recorded", "asking"}
      OBVIOUS
    <2> HIDE DEF to
    <2>4. QED BY <2>1, <2>2, <2>3, StepType, TurnRecordIndex
  <1>6. CASE Load(c)
    <2>1. call[c].at = "recorded" /\ UNCHANGED <<index, saved, cli, messages>>
      BY <1>6 DEF Load, store
    <2>2. PICK p : call' = [call EXCEPT ![c].at = "asking", ![c].prompt = p]
      BY <1>6 DEF Load
    <2>3. call = [d \in Callers |-> call[d]] /\ call[c] \in Running(call[c])
      BY <2>1, CallFacts DEF LockInv, Types
    <2>4. \A d \in Callers \ {c} : call'[d] = call[d]
      BY <2>2, <2>3
    <2>5. call'[c] = [[call[c] EXCEPT !.at = "asking"] EXCEPT !.prompt = p]
      BY <2>2, <2>3
    <2>6. call'[c].at = "asking" /\ call'[c].key = call[c].key
      BY <2>3, <2>5 DEF Running
    <2>7. QED BY <1>2, <2>1, <2>4, <2>6
  <1>7. CASE Answer(c)
    <2>1. call[c].at = "asking" /\ Record(call[c].key, Line(c, "assistant")) /\ Leave(c)
          /\ UNCHANGED <<cli, messages>>
      BY <1>7 DEF Answer
    <2>2. "assistant" \in Roles
      BY DEF Roles
    <2>3. call'[c] = NoCall /\ \A d \in Callers \ {c} : call'[d] = call[d]
      BY <2>1, LeaveType DEF Leave
    <2>4. QED BY <2>1, <2>2, <2>3, TurnRecordIndex
  <1>8. CASE Fail(c)
    <2>1. call[c].at = "asking" /\ Leave(c) /\ UNCHANGED <<index, saved, cli, messages>>
      BY <1>8 DEF Fail, store
    <2>2. QED BY <1>2, <2>1, LeaveType DEF Leave
  <1>9. QED BY <1>3, <1>4, <1>5, <1>6, <1>7, <1>8 DEF Turn

LEMMA ArriveIndex == LockInv /\ IndexInv /\ (\E c \in Callers : Arrive(c)) => IndexInv'
  <1> SUFFICES ASSUME LockInv, IndexInv, NEW c \in Callers, Arrive(c) PROVE IndexInv'
    OBVIOUS
  <1>1. Types /\ messages \in Int /\ index \in Index /\ saved \in Index
    BY DEF LockInv, Types
  <1>2. messages' = messages + 1 /\ UNCHANGED <<index, saved, cli>>
    BY DEF Arrive, store
  <1>3. call'[c].at = "waiting" /\ call'[c].turn = messages + 1 /\ \A d \in Callers \ {c} : call'[d] = call[d]
    BY DEF Arrive, LockInv, Types
  <1>4. Unused(messages + 1)
    <2>1. Fresh(messages + 1, index) /\ Fresh(messages + 1, saved)
      BY <1>1, OldTypes DEF IndexInv, Fresh
    <2>2. cli # NoCli => Fresh(messages + 1, cli.index)
      BY <1>1, OldTypes DEF IndexInv, Fresh, LockInv, Types, CliRun
    <2>3. QED BY <2>1, <2>2 DEF Unused
  <1>5. ASSUME NEW d \in Callers, call'[d].at \in {"waiting", "locked"} PROVE Unused(call'[d].turn)
    BY <1>3, <1>4, <1>5 DEF IndexInv
  <1>6. ASSUME NEW d \in Callers, call'[d].at \in {"recorded", "asking"} PROVE index[call'[d].key] # NoId
    BY <1>3, <1>6 DEF IndexInv
  <1>7. messages + 1 \in Int /\ messages <= messages + 1
    BY <1>1
  <1>8. QED BY <1>2, <1>5, <1>6, <1>7, QuietIndex

\* No caller's turn, and no transcript, has the number of the next message.
LEMMA NextUnused ==
    ASSUME LockInv, IndexInv
    PROVE  /\ Unused(messages + 1) /\ messages + 1 \in Int /\ messages <= messages + 1
           /\ \A c \in Callers : call[c] # NoCall => call[c].turn # messages + 1
  <1>1. Types /\ messages \in Int /\ index \in Index /\ saved \in Index
    BY DEF LockInv, Types
  <1>2. Fresh(messages + 1, index) /\ Fresh(messages + 1, saved)
    BY <1>1, OldTypes DEF IndexInv, Fresh
  <1>3. cli # NoCli => Fresh(messages + 1, cli.index)
    BY <1>1, OldTypes DEF IndexInv, Fresh, LockInv, Types, CliRun
  <1>4. ASSUME NEW c \in Callers, call[c] # NoCall PROVE call[c].turn # messages + 1
    <2>1. call[c].turn \in Int /\ call[c].turn <= messages
      BY <1>4 DEF LockInv, Types, Running, Ids
    <2>2. QED BY <1>1, <2>1
  <1>5. QED BY <1>1, <1>2, <1>3, <1>4 DEF Unused

LEMMA NoteIndex == LockInv /\ IndexInv /\ Note => IndexInv'
  <1> SUFFICES ASSUME LockInv, IndexInv, Note PROVE IndexInv'
    OBVIOUS
  <1> DEFINE line == [turn |-> messages + 1, role |-> "system", locked |-> FALSE]
  <1>1. messages < MaxMessages /\ Record(Main, line) /\ messages' = messages + 1 /\ UNCHANGED <<call, cli>>
    BY DEF Note
  <1>2. line \in Message /\ line.turn = messages + 1
    <2>1. messages + 1 \in Ids
      BY <1>1 DEF LockInv, Types, Ids
    <2>2. QED BY <2>1 DEF Message, Roles
  <1>3. Unused(line.turn) /\ line.turn \in Int /\ messages <= line.turn /\ line.turn <= line.turn
        /\ line.turn = messages'
        /\ \A c \in Callers : call[c] # NoCall => call[c].turn # line.turn
    BY <1>1, <1>2, NextUnused
  <1> HIDE DEF line
  <1>4. Main \in Keys /\ (index[Main] = NoId => Fresh(line.turn, index))
    BY <1>3 DEF Unused
  <1>5. /\ Apart(index') /\ Apart(saved') /\ Old(index)' /\ Old(saved)'
        /\ (cli # NoCli => Apart(cli.index) /\ Old(cli.index) /\ Fresh(cli.turn, cli.index))'
        /\ \A n : n # line.turn /\ Unused(n) => Unused(n)'
    BY <1>1, <1>2, <1>3, <1>4, RecordIndex
  <1>6. (\A d \in Callers : call[d].at \in {"waiting", "locked"} => Unused(call[d].turn))'
    <2>1. ASSUME NEW d \in Callers, call[d].at \in {"waiting", "locked"} PROVE Unused(call[d].turn)'
      <3>1. PICK n : n = call[d].turn
        OBVIOUS
      <3>2. call[d] # NoCall /\ Unused(n)
        BY <2>1, <3>1 DEF IndexInv, NoCall
      <3>3. Unused(n)'
        BY <1>3, <1>5, <3>1, <3>2
      <3>4. n = call'[d].turn
        BY <1>1, <3>1
      <3>5. QED BY <3>3, <3>4
    <2>2. QED BY <1>1, <2>1
  <1>7. (\A d \in Callers : call[d].at \in {"recorded", "asking"} => index[call[d].key] # NoId)'
    <2>1. ASSUME NEW d \in Callers, call[d].at \in {"recorded", "asking"} PROVE index'[call[d].key] # NoId
      <3>1. call[d].key \in Keys /\ index[call[d].key] # NoId
        BY <2>1, CallFacts DEF IndexInv
      <3>2. /\ index'[Main] \in Ids /\ \A l \in Keys \ {Main} : index'[l] = index[l]
        BY <1>1, <1>2, <1>4, RecordFacts
      <3>3. QED BY <3>1, <3>2 DEF Ids, NoId
    <2>2. QED BY <1>1, <2>1
  <1>8. QED BY <1>5, <1>6, <1>7 DEF IndexInv

LEMMA CliOpenIndex == LockInv /\ IndexInv /\ CliOpen => IndexInv'
  <1> SUFFICES ASSUME LockInv, IndexInv, CliOpen PROVE IndexInv'
    OBVIOUS
  <1>1. messages' = messages + 1 /\ UNCHANGED <<index, saved, call>> /\ cli'.turn = messages + 1
        /\ cli'.index \in {saved, NoSessions} /\ cli'.turn \in Ids
    BY ReadFacts DEF CliOpen, store, LockInv, Types, Ids
  <1>0. Apart(NoSessions) /\ (\A l \in Keys : NoSessions[l] <= messages)
        /\ \A n \in Ids : Fresh(n, NoSessions)
    BY NoSessionsFacts DEF LockInv
  <1>2. Types /\ index \in Index /\ saved \in Index /\ messages \in Int
    BY DEF LockInv, Types
  <1>2a. Old(NoSessions) /\ NoSessions \in Index
    BY <1>0 DEF Old, NoSessions, Index
  <1>3. \A l \in Keys : /\ index[l] <= messages + 1 /\ saved[l] <= messages + 1
                         /\ NoSessions[l] <= messages + 1
    BY <1>2, <1>2a, OldTypes DEF IndexInv
  <1>4. Old(index)' /\ Old(saved)' /\ Old(cli.index)'
    <2>1. PICK top : top = messages + 1
      OBVIOUS
    <2>2. \A l \in Keys : index'[l] <= top /\ saved'[l] <= top /\ cli'.index[l] <= top
      <3>1. \A l \in Keys : index[l] <= top /\ saved[l] <= top /\ NoSessions[l] <= top
        BY <1>3, <2>1
      <3>2. QED BY <1>1, <3>1
    <2>3. messages' = top
      BY <1>1, <2>1
    <2>4. QED BY <2>2, <2>3 DEF Old
  <1>5. Fresh(cli'.turn, cli'.index) /\ Apart(cli'.index)
    BY <1>0, <1>1, NextUnused DEF Unused, IndexInv
  <1>6. (\A d \in Callers : call[d].at \in {"waiting", "locked"} => Unused(call[d].turn))'
    <2>1. ASSUME NEW d \in Callers, call[d].at \in {"waiting", "locked"}
          PROVE  Fresh(call[d].turn, index) /\ Fresh(call[d].turn, saved) /\ Fresh(call[d].turn, NoSessions)
      <3>1. call[d].turn \in Ids
        BY <2>1, CallFacts
      <3>2. QED BY <1>0, <2>1, <3>1 DEF IndexInv, Unused
    <2>2. ASSUME NEW d \in Callers, call'[d].at \in {"waiting", "locked"}
          PROVE  /\ Fresh(call'[d].turn, index') /\ Fresh(call'[d].turn, saved')
                 /\ Fresh(call'[d].turn, cli'.index)
      BY <1>1, <2>1, <2>2
    <2>3. QED BY <2>2 DEF Unused, Fresh
  <1>7. (Apart(index) /\ Apart(saved) /\ Apart(cli.index) /\ Fresh(cli.turn, cli.index))'
    BY <1>1, <1>5 DEF IndexInv, Apart, Fresh
  <1>8. QED BY <1>1, <1>4, <1>6, <1>7 DEF IndexInv

LEMMA CliWriteIndex == LockInv /\ IndexInv /\ (CliWrite \/ CliDies) => IndexInv'
  <1> SUFFICES ASSUME LockInv, IndexInv, CliWrite \/ CliDies PROVE IndexInv'
    OBVIOUS
  <1> DEFINE e == Ensured(cli.index, cli.key, cli.turn)
  <1>1. cli # NoCli /\ cli' = NoCli /\ saved' \in {e, NoSessions} /\ UNCHANGED <<index, call, messages>>
    BY DEF CliWrite, CliDies
  <1>2. cli.index \in Index /\ cli.key \in Keys /\ cli.turn \in Ids /\ cli.turn \in Int /\ cli.turn <= messages
    <2>1. cli \in CliRun
      BY <1>1 DEF LockInv, Types
    <2>2. QED BY <1>1, <2>1 DEF CliRun, LockInv, Ids
  <1>3. Apart(cli.index) /\ Old(cli.index) /\ Fresh(cli.turn, cli.index)
    BY <1>1 DEF IndexInv
  <1>4. Apart(e) /\ \A l \in Keys : e[l] \in {cli.index[l], cli.turn}
    BY <1>2, <1>3, EnsuredFacts
  <1> HIDE DEF e
  <1>5. \A l \in Keys : e[l] <= messages
    BY <1>2, <1>3, <1>4 DEF Old
  <1>5a. Apart(NoSessions) /\ (\A l \in Keys : NoSessions[l] <= messages)
         /\ \A n \in Ids : Fresh(n, NoSessions)
    BY NoSessionsFacts DEF LockInv
  <1>6. Apart(saved') /\ Old(saved)' /\ Old(index)'
    <2>1. Apart(saved')
      BY <1>1, <1>4, <1>5a
    <2>2. \A l \in Keys : saved'[l] <= messages
      BY <1>1, <1>5, <1>5a
    <2>3. QED BY <1>1, <2>1, <2>2 DEF Old, IndexInv
  <1>7. ASSUME NEW d \in Callers, call[d].at \in {"waiting", "locked"}
        PROVE  Fresh(call[d].turn, index) /\ Fresh(call[d].turn, saved')
    <2>1. Unused(call[d].turn) /\ call[d] # NoCall
      BY <1>7 DEF IndexInv, NoCall
    <2>2. call[d].turn # cli.turn
      BY <1>1, <2>1 DEF LockInv
    <2>3. Fresh(call[d].turn, index) /\ Fresh(call[d].turn, e)
      BY <1>1, <1>4, <2>1, <2>2 DEF Unused, Fresh
    <2>4. call[d].turn \in Ids
      BY <1>7, CallFacts
    <2>5. QED BY <1>1, <1>5a, <2>3, <2>4
  <1>8. (\A d \in Callers : call[d].at \in {"waiting", "locked"} => Unused(call[d].turn))'
    BY <1>1, <1>7 DEF Unused, Fresh
  <1>9. (\A d \in Callers : call[d].at \in {"recorded", "asking"} => index[call[d].key] # NoId)'
    BY <1>1 DEF IndexInv
  <1>10. (Apart(index))' /\ cli' = NoCli
    BY <1>1 DEF IndexInv, Apart
  <1>11. QED BY <1>6, <1>8, <1>9, <1>10 DEF IndexInv

\* A gateway that is gone, whatever it left of sessions.json.
LEMMA GoneIndex ==
    ASSUME LockInv, IndexInv, Gone, UNCHANGED <<cli, messages>>,
           Apart(saved'), \A l \in Keys : saved'[l] <= messages
    PROVE  IndexInv'
  <1>1. Apart(NoSessions) /\ \A l \in Keys : NoSessions[l] <= messages
    BY NoSessionsFacts DEF LockInv
  <1>2. index' = NoSessions /\ \A c \in Callers : call'[c].at = "idle"
    BY GoneFacts DEF Gone, NoCall
  <1>3. Apart(index') /\ Apart(saved')
    BY <1>1, <1>2 DEF IndexInv
  <1>4. \A l \in Keys : index'[l] <= messages /\ saved'[l] <= messages
    BY <1>1, <1>2 DEF IndexInv, Old
  <1>5. Old(index)' /\ Old(saved)'
    BY <1>4 DEF Old
  <1>6. (cli # NoCli => Apart(cli.index) /\ Old(cli.index) /\ Fresh(cli.turn, cli.index))'
    BY DEF IndexInv, Apart, Old, Fresh
  <1>7. QED BY <1>2, <1>3, <1>5, <1>6 DEF IndexInv

LEMMA NextIndex == LockInv /\ IndexInv /\ [Next]_vars => IndexInv'
  <1> SUFFICES ASSUME LockInv, IndexInv, [Next]_vars PROVE IndexInv'
    OBVIOUS
  <1>0. Apart(NoSessions) /\ \A l \in Keys : NoSessions[l] <= messages
    BY NoSessionsFacts DEF LockInv
  <1>1. CASE Crash
    <2>1. Gone /\ saved' = saved /\ UNCHANGED <<cli, messages>>
      BY <1>1 DEF Crash
    <2>2. Apart(saved') /\ \A l \in Keys : saved'[l] <= messages
      BY <2>1 DEF IndexInv, Old
    <2>3. QED BY <2>1, <2>2, GoneIndex
  <1>2. CASE CrashInSave
    <2>1. PICK c \in Callers :
              /\ call[c].at \in {"locked", "asking"}
              /\ call[c].key \in Keys /\ call[c].turn \in Ids /\ call[c].turn <= messages
              /\ saved' \in {Ensured(index, call[c].key, call[c].turn), NoSessions}
      BY <1>2, CrashInSaveFacts
    <2> DEFINE e == Ensured(index, call[c].key, call[c].turn)
    <2>2. index \in Index
      BY DEF LockInv, Types
    <2>3. index[call[c].key] = NoId => Fresh(call[c].turn, index)
      BY <2>1, MayRecord
    <2>4. Apart(e) /\ \A l \in Keys : e[l] \in {index[l], call[c].turn}
      BY <2>1, <2>2, <2>3, EnsuredFacts DEF IndexInv
    <2>5. saved' \in {e, NoSessions}
      BY <2>1
    <2> HIDE DEF e
    <2>6. \A l \in Keys : e[l] <= messages
      BY <2>1, <2>4 DEF IndexInv, Old
    <2>7. Gone /\ UNCHANGED <<cli, messages>>
      BY <1>2, CrashInSaveFacts
    <2>8. Apart(saved') /\ \A l \in Keys : saved'[l] <= messages
      BY <1>0, <2>4, <2>5, <2>6
    <2>9. QED BY <2>7, <2>8, GoneIndex
  <1>3. CASE Boot
    <2>1. ~up /\ index' \in {saved, NoSessions} /\ UNCHANGED <<saved, call, cli, messages>>
      BY <1>3, ReadFacts DEF Boot
    <2>2. \A c \in Callers : call[c].at = "idle"
      BY <2>1 DEF LockInv, NoCall
    <2>3. Apart(index') /\ \A l \in Keys : index'[l] <= messages
      BY <1>0, <2>1 DEF IndexInv, Old
    <2>4. QED BY <2>1, <2>2, <2>3 DEF IndexInv, Apart, Old, Fresh
  <1>4. CASE UNCHANGED vars
    <2>1. UNCHANGED <<index, saved, call, cli, messages>>
      BY <1>4 DEF vars, store
    <2>2. QED BY <2>1 DEF IndexInv, Apart, Old, Fresh, Unused
  <1>5. QED
    BY <1>1, <1>2, <1>3, <1>4, TurnIndex, ArriveIndex, NoteIndex, CliOpenIndex, CliWriteIndex DEF Next

-----------------------------------------------------------------------------
(* Transcripts and the callers that write them                             *)

AllWhole    == \A id \in Ids : Whole(files[id])
AllRecorded == \A t \in answered : \E id \in Ids : Replied(files[id], t)

\* Whoever waits for the model has its message at the end of its transcript.
FileInv ==
    /\ AllWhole /\ AllRecorded
    /\ \A c \in Callers : call[c].at \in {"recorded", "asking"} =>
          Pending(files[index[call[c].key]], call[c].turn)

\* A line in one transcript, which answers what is pending there if it is a reply.
LEMMA LineFiles ==
    ASSUME LockInv, FileInv, NEW id \in Ids, NEW line \in Message,
           files'[id] = Append(files[id], line), \A i \in Ids \ {id} : files'[i] = files[i],
           line.role = "assistant" => Pending(files[id], line.turn)
    PROVE  /\ \A i \in Ids : Whole(files'[i])
           /\ \A t \in answered : \E i \in Ids : Replied(files'[i], t)
           /\ line.role = "assistant" => Replied(files'[id], line.turn)
           /\ line.role # "assistant" => Pending(files'[id], line.turn)
           /\ \A i \in Ids : \A t : ~line.locked /\ Pending(files[i], t) => Pending(files'[i], t)
  <1>1. \A i \in Ids : files[i] \in Seq(Message)
    BY DEF LockInv, Types
  <1>2. \A i \in Ids : Whole(files[i])
    BY DEF FileInv, AllWhole
  <1>3. \A i \in Ids : Whole(files'[i])
    BY <1>1, <1>2, WholeKept
  <1>4. ASSUME NEW t \in answered PROVE \E i \in Ids : Replied(files'[i], t)
    <2>1. PICK i \in Ids : Replied(files[i], t)
      BY DEF FileInv, AllRecorded
    <2>2. Replied(files'[i], t)
      BY <1>1, <2>1, RepliedKept
    <2>3. QED BY <2>2
  <1>5. line.role = "assistant" => Replied(files'[id], line.turn)
    BY <1>1, RepliedNow
  <1>6. line.role # "assistant" => Pending(files'[id], line.turn)
    BY <1>1, PendingNow
  <1>7. ASSUME NEW i \in Ids, NEW t, ~line.locked, Pending(files[i], t) PROVE Pending(files'[i], t)
    <2>1. CASE i = id
      BY <1>1, <1>7, <2>1, PendingKept
    <2>2. CASE i # id
      BY <1>7, <2>2
    <2>3. QED BY <2>1, <2>2
  <1>8. QED BY <1>3, <1>4, <1>5, <1>6, <1>7

\* Transcripts and replies stay; a caller that waits for the model waited before.
LEMMA QuietFiles ==
    ASSUME FileInv, UNCHANGED <<files, answered>>,
           \A d \in Callers : call'[d].at \in {"recorded", "asking"} =>
              /\ call[d].at \in {"recorded", "asking"} /\ call'[d].turn = call[d].turn
              /\ index'[call'[d].key] = index[call[d].key]
    PROVE  FileInv'
  <1>1. AllWhole' /\ AllRecorded'
    BY DEF FileInv, AllWhole, AllRecorded
  <1>2. ASSUME NEW d \in Callers, call'[d].at \in {"recorded", "asking"}
        PROVE  Pending(files'[index'[call'[d].key]], call'[d].turn)
    BY <1>2 DEF FileInv
  <1>3. QED BY <1>1, <1>2 DEF FileInv, Pending

\* A line that caller c writes in its turn.
LEMMA TurnRecordFiles ==
    ASSUME LockInv, IndexInv, FileInv, NEW c \in Callers, NEW role \in Roles,
           Record(call[c].key, Line(c, role)), \A d \in Callers \ {c} : call'[d] = call[d],
           \/ /\ call[c].at = "locked" /\ role # "assistant" /\ answered' = answered
              /\ call'[c].key = call[c].key /\ call'[c].turn = call[c].turn
           \/ /\ call[c].at = "asking" /\ role = "assistant"
              /\ answered' = answered \cup {call[c].turn} /\ call'[c] = NoCall
    PROVE  FileInv'
  <1> DEFINE line == Line(c, role)
             k    == call[c].key
             id   == index'[k]
  <1>1. line \in Message /\ line.turn = call[c].turn /\ line.role = role /\ k \in Keys
    BY CallFacts, LineType
  <1>2. index[k] = NoId => Fresh(line.turn, index)
    BY <1>1, MayRecord
  <1>3. /\ id \in Ids
        /\ files'[id] = Append(files[id], line) /\ \A i \in Ids \ {id} : files'[i] = files[i]
        /\ index[k] # NoId => index' = index
        /\ \A l \in Keys \ {k} : index'[l] = index[l] /\ id # index[l]
    BY <1>1, <1>2, RecordFacts
  <1>4. role = "assistant" => Pending(files[id], call[c].turn)
    <2>1. ASSUME role = "assistant" PROVE Pending(files[id], call[c].turn)
      <3>1. call[c].at = "asking"
        BY <2>1
      <3>2. index' = index
        BY <1>3, <3>1 DEF IndexInv
      <3>3. QED BY <3>1, <3>2 DEF FileInv
    <2>2. QED BY <2>1
  <1> HIDE DEF line, id
  <1>5. /\ \A i \in Ids : Whole(files'[i])
        /\ \A t \in answered : \E i \in Ids : Replied(files'[i], t)
        /\ role = "assistant" => Replied(files'[id], call[c].turn)
        /\ role # "assistant" => Pending(files'[id], call[c].turn)
    BY <1>1, <1>3, <1>4, LineFiles
  <1>6. AllWhole'
    BY <1>5 DEF AllWhole
  <1>7. AllRecorded'
    <2>1. \A t \in answered' : \E i \in Ids : Replied(files'[i], t)
      BY <1>3, <1>5
    <2>2. QED BY <2>1 DEF AllRecorded, Replied
  <1>8. ASSUME NEW d \in Callers, call'[d].at \in {"recorded", "asking"}
        PROVE  Pending(files'[index'[call'[d].key]], call'[d].turn)
    <2>1. CASE d = c
      BY <1>5, <1>8, <2>1 DEF NoCall, id
    <2>2. CASE d # c
      <3>1. call'[d] = call[d] /\ Inside(d) /\ Inside(c) /\ call[d].key \in Keys
        BY <1>8, <2>2, CallFacts DEF Inside
      <3>2. call[d].key # k
        BY <2>2, <3>1, OneInside
      <3>3. index'[call[d].key] = index[call[d].key] /\ id # index[call[d].key]
        BY <1>3, <3>1, <3>2
      <3>4. index[call[d].key] \in Ids
        BY <1>8, <3>1 DEF IndexInv, LockInv, Types, Index
      <3>5. files'[index[call[d].key]] = files[index[call[d].key]]
        BY <1>3, <3>3, <3>4
      <3>6. Pending(files[index[call[d].key]], call[d].turn)
        BY <1>8, <3>1 DEF FileInv
      <3>7. QED BY <3>1, <3>3, <3>5, <3>6
    <2>3. QED BY <2>1, <2>2
  <1>9. QED BY <1>6, <1>7, <1>8 DEF FileInv, Pending

LEMMA TurnFiles == LockInv /\ IndexInv /\ FileInv /\ (\E c \in Callers : Turn(c)) => FileInv'
  <1> SUFFICES ASSUME LockInv, IndexInv, FileInv, NEW c \in Callers, Turn(c) PROVE FileInv'
    OBVIOUS
  <1>1. ASSUME UNCHANGED <<index, files, answered>>, \A d \in Callers \ {c} : call'[d] = call[d],
               \/ call'[c].at \notin {"recorded", "asking"}
               \/ /\ call'[c].at = "asking" /\ call[c].at = "recorded"
                  /\ call'[c].turn = call[c].turn /\ call'[c].key = call[c].key
        PROVE  FileInv'
    <2>1. ASSUME NEW d \in Callers, call'[d].at \in {"recorded", "asking"}
          PROVE  /\ call[d].at \in {"recorded", "asking"} /\ call'[d].turn = call[d].turn
                 /\ index'[call'[d].key] = index[call[d].key]
      BY <1>1, <2>1
    <2>2. QED BY <1>1, <2>1, QuietFiles
  <1>2. CASE Lock(c)
    <2>1. call[c].at = "waiting" /\ Step(c, "locked") /\ UNCHANGED <<index, files, answered>>
      BY <1>2 DEF Lock, store
    <2>2. QED BY <1>1, <2>1, StepType
  <1>3. CASE GiveUp(c)
    <2>1. call[c].at = "waiting" /\ call' = [call EXCEPT ![c] = NoCall]
          /\ UNCHANGED <<index, files, answered>>
      BY <1>3 DEF GiveUp, store
    <2>2. call'[c].at = "idle" /\ \A d \in Callers \ {c} : call'[d] = call[d]
      BY <2>1, LeaveType DEF NoCall
    <2>3. QED BY <1>1, <2>1, <2>2
  <1>4. CASE Open(c)
    <2> DEFINE to == IF call[c].kind = "command" THEN "asking" ELSE "recorded"
    <2>1. call[c].at = "locked" /\ Record(call[c].key, Line(c, InboundRole(c))) /\ Step(c, to)
          /\ answered' = answered
      BY <1>4 DEF Open
    <2>2. InboundRole(c) \in Roles /\ InboundRole(c) # "assistant"
      BY DEF InboundRole, Roles
    <2>3. to \in {"recorded", "asking"}
      OBVIOUS
    <2> HIDE DEF to
    <2>4. QED BY <2>1, <2>2, <2>3, StepType, TurnRecordFiles
  <1>5. CASE Load(c)
    <2>1. call[c].at = "recorded" /\ UNCHANGED <<index, files, answered>>
      BY <1>5 DEF Load, store
    <2>2. PICK p : call' = [call EXCEPT ![c].at = "asking", ![c].prompt = p]
      BY <1>5 DEF Load
    <2>3. call = [d \in Callers |-> call[d]] /\ call[c] \in Running(call[c])
      BY <2>1, CallFacts DEF LockInv, Types
    <2>4. \A d \in Callers \ {c} : call'[d] = call[d]
      BY <2>2, <2>3
    <2>5. call'[c] = [[call[c] EXCEPT !.at = "asking"] EXCEPT !.prompt = p]
      BY <2>2, <2>3
    <2>6. call'[c].at = "asking" /\ call'[c].key = call[c].key /\ call'[c].turn = call[c].turn
      BY <2>3, <2>5 DEF Running
    <2>7. QED BY <1>1, <2>1, <2>4, <2>6
  <1>6. CASE Answer(c)
    <2>1. call[c].at = "asking" /\ Record(call[c].key, Line(c, "assistant")) /\ Leave(c)
          /\ answered' = answered \cup {call[c].turn}
      BY <1>6 DEF Answer
    <2>2. "assistant" \in Roles
      BY DEF Roles
    <2>3. call'[c] = NoCall /\ \A d \in Callers \ {c} : call'[d] = call[d]
      BY <2>1, LeaveType DEF Leave
    <2>4. QED BY <2>1, <2>2, <2>3, TurnRecordFiles
  <1>7. CASE Fail(c)
    <2>1. call[c].at = "asking" /\ Leave(c) /\ UNCHANGED <<index, files, answered>>
      BY <1>7 DEF Fail, store
    <2>2. call'[c].at = "idle" /\ \A d \in Callers \ {c} : call'[d] = call[d]
      BY <2>1, LeaveType DEF NoCall, Leave
    <2>3. QED BY <1>1, <2>1, <2>2
  <1>8. QED BY <1>2, <1>3, <1>4, <1>5, <1>6, <1>7 DEF Turn

\* A line that is written past the mutex.
LEMMA PastMutexFiles ==
    ASSUME LockInv, IndexInv, FileInv, UNCHANGED <<call, answered>>, NEW id \in Ids, NEW line \in Message,
           ~line.locked, line.role # "assistant",
           files'[id] = Append(files[id], line), \A i \in Ids \ {id} : files'[i] = files[i],
           \A k \in Keys : index[k] # NoId => index'[k] = index[k]
    PROVE  FileInv'
  <1>1. /\ \A i \in Ids : Whole(files'[i])
        /\ \A t \in answered : \E i \in Ids : Replied(files'[i], t)
        /\ \A i \in Ids : \A t : Pending(files[i], t) => Pending(files'[i], t)
    BY LineFiles
  <1>2. AllWhole' /\ AllRecorded'
    BY <1>1 DEF AllWhole, AllRecorded
  <1>3. ASSUME NEW d \in Callers, call[d].at \in {"recorded", "asking"}
        PROVE  Pending(files'[index'[call[d].key]], call[d].turn)
    <2>1. call[d].key \in Keys /\ index[call[d].key] # NoId
      BY <1>3, CallFacts DEF IndexInv
    <2>2. index'[call[d].key] = index[call[d].key] /\ index[call[d].key] \in Ids
      BY <2>1 DEF LockInv, Types, Index
    <2>3. Pending(files[index[call[d].key]], call[d].turn)
      BY <1>3 DEF FileInv
    <2>4. QED BY <1>1, <2>2, <2>3
  <1>4. (\A d \in Callers : call[d].at \in {"recorded", "asking"} =>
            Pending(files[index[call[d].key]], call[d].turn))'
    BY <1>3
  <1>5. QED BY <1>2, <1>4 DEF FileInv

\* The note of a cron job goes into one transcript.
LEMMA NoteLine ==
    ASSUME LockInv, IndexInv, Note
    PROVE  \E id \in Ids, line \in Message :
              /\ ~line.locked /\ line.role # "assistant" /\ UNCHANGED <<call, answered>>
              /\ files'[id] = Append(files[id], line) /\ \A i \in Ids \ {id} : files'[i] = files[i]
              /\ \A k \in Keys : index[k] # NoId => index'[k] = index[k]
  <1> DEFINE line == [turn |-> messages + 1, role |-> "system", locked |-> FALSE]
  <1>1. messages < MaxMessages /\ Record(Main, line) /\ UNCHANGED <<call, answered>>
    BY DEF Note
  <1>2. line \in Message /\ line.turn = messages + 1 /\ ~line.locked /\ line.role # "assistant"
    <2>1. messages + 1 \in Ids
      BY <1>1 DEF LockInv, Types, Ids
    <2>2. QED BY <2>1 DEF Message, Roles
  <1>3. Main \in Keys /\ (index[Main] = NoId => Fresh(line.turn, index))
    BY <1>2, NextUnused DEF Unused
  <1> HIDE DEF line
  <1>4. /\ index'[Main] \in Ids
        /\ files'[index'[Main]] = Append(files[index'[Main]], line)
        /\ \A id \in Ids \ {index'[Main]} : files'[id] = files[id]
        /\ index[Main] # NoId => index' = index
        /\ \A l \in Keys \ {Main} : index'[l] = index[l]
    BY <1>1, <1>2, <1>3, RecordFacts
  <1>5. \A k \in Keys : index[k] # NoId => index'[k] = index[k]
    BY <1>4
  <1>6. QED BY <1>1, <1>2, <1>4, <1>5

\* So does the line of the CLI, whatever index it has read.
LEMMA CliLine ==
    ASSUME LockInv, IndexInv, CliWrite
    PROVE  \E id \in Ids, line \in Message :
              /\ ~line.locked /\ line.role # "assistant" /\ UNCHANGED <<index, call, answered>>
              /\ files'[id] = Append(files[id], line) /\ \A i \in Ids \ {id} : files'[i] = files[i]
  <1> DEFINE line == [turn |-> cli.turn, role |-> cli.role, locked |-> FALSE]
             e    == Ensured(cli.index, cli.key, cli.turn)
  <1>1. cli # NoCli /\ files' = WithLine(files, e[cli.key], line) /\ UNCHANGED <<index, call, answered>>
    BY DEF CliWrite
  <1>2. cli \in CliRun
    BY <1>1 DEF LockInv, Types
  <1>3. line \in Message /\ ~line.locked /\ line.role # "assistant"
    BY <1>2 DEF CliRun, Message, Roles
  <1>4. e[cli.key] \in Ids
    <2>1. cli.index \in Index /\ cli.key \in Keys /\ cli.turn \in Ids
      BY <1>2 DEF CliRun
    <2>2. Apart(cli.index) /\ Fresh(cli.turn, cli.index)
      BY <1>1 DEF IndexInv
    <2>3. QED BY <2>1, <2>2, EnsuredFacts
  <1> HIDE DEF line, e
  <1>5. PICK id \in Ids : id = e[cli.key]
    BY <1>4
  <1>6. files'[id] = Append(files[id], line) /\ \A i \in Ids \ {id} : files'[i] = files[i]
    <2>1. files \in [Ids -> Seq(Message)]
      BY DEF LockInv, Types
    <2>2. /\ WithLine(files, id, line)[id] = Append(files[id], line)
          /\ \A i \in Ids \ {id} : WithLine(files, id, line)[i] = files[i]
      BY <1>3, <2>1, WithLineType
    <2>3. QED BY <1>1, <1>5, <2>2
  <1>7. QED BY <1>1, <1>3, <1>6

LEMMA NoteFiles == LockInv /\ IndexInv /\ FileInv /\ Note => FileInv'
  <1> SUFFICES ASSUME LockInv, IndexInv, FileInv, Note PROVE FileInv'
    OBVIOUS
  <1>1. PICK id \in Ids, line \in Message :
            /\ ~line.locked /\ line.role # "assistant" /\ UNCHANGED <<call, answered>>
            /\ files'[id] = Append(files[id], line) /\ \A i \in Ids \ {id} : files'[i] = files[i]
            /\ \A k \in Keys : index[k] # NoId => index'[k] = index[k]
    BY NoteLine
  <1>2. QED BY <1>1, PastMutexFiles

LEMMA CliWriteFiles == LockInv /\ IndexInv /\ FileInv /\ CliWrite => FileInv'
  <1> SUFFICES ASSUME LockInv, IndexInv, FileInv, CliWrite PROVE FileInv'
    OBVIOUS
  <1>1. PICK id \in Ids, line \in Message :
            /\ ~line.locked /\ line.role # "assistant" /\ UNCHANGED <<index, call, answered>>
            /\ files'[id] = Append(files[id], line) /\ \A i \in Ids \ {id} : files'[i] = files[i]
    BY CliLine
  <1>2. QED BY <1>1, PastMutexFiles

LEMMA NextFiles == LockInv /\ IndexInv /\ FileInv /\ [Next]_vars => FileInv'
  <1> SUFFICES ASSUME LockInv, IndexInv, FileInv, [Next]_vars PROVE FileInv'
    OBVIOUS
  <1>1. CASE \E c \in Callers : Arrive(c)
    <2>1. PICK c \in Callers : Arrive(c)
      BY <1>1
    <2>2. UNCHANGED <<index, files, answered>>
      BY <2>1 DEF Arrive, store
    <2>3. call'[c].at = "waiting" /\ \A d \in Callers \ {c} : call'[d] = call[d]
      BY <2>1 DEF Arrive, LockInv, Types
    <2>4. QED BY <2>2, <2>3, QuietFiles
  <1>2. CASE CliOpen \/ CliDies
    <2>1. UNCHANGED <<index, files, call, answered>>
      BY <1>2 DEF CliOpen, CliDies, store
    <2>2. QED BY <2>1, QuietFiles
  <1>3. CASE Crash \/ CrashInSave
    <2>1. UNCHANGED <<files, answered>> /\ \A c \in Callers : call'[c].at = "idle"
      BY <1>3 DEF Crash, CrashInSave, Gone, NoCall
    <2>2. QED BY <2>1, QuietFiles
  <1>4. CASE Boot
    <2>1. ~up /\ UNCHANGED <<files, call, answered>>
      BY <1>4 DEF Boot
    <2>2. \A c \in Callers : call[c].at = "idle"
      BY <2>1 DEF LockInv, NoCall
    <2>3. QED BY <2>1, <2>2, QuietFiles
  <1>5. CASE UNCHANGED vars
    <2>1. UNCHANGED <<index, files, call, answered>>
      BY <1>5 DEF vars, store
    <2>2. QED BY <2>1, QuietFiles
  <1>6. QED
    BY <1>1, <1>2, <1>3, <1>4, <1>5, TurnFiles, NoteFiles, CliWriteFiles DEF Next

LEMMA InitFiles == Init => FileInv
  <1> SUFFICES ASSUME Init PROVE FileInv
    OBVIOUS
  <1>1. answered = {} /\ (\A id \in Ids : files[id] = <<>>) /\ \A c \in Callers : call[c].at = "idle"
    BY DEF Init, NoCall
  <1>2. Whole(<<>>)
    BY DEF Whole
  <1>3. QED BY <1>1, <1>2 DEF FileInv, AllWhole, AllRecorded

-----------------------------------------------------------------------------
(* Prompts                                                                 *)

\* A line of f is this one, and no turn has written behind it.
Own(f, line) ==
    \E i \in DOMAIN f : f[i] = line /\ \A m \in i + 1 .. Len(f) : ~f[m].locked

\* The prompt p ends with this line of f, or with one from past the mutex
\* behind it.
Ends(f, line, p) ==
    /\ p # <<>>
    /\ \E i \in DOMAIN f, j \in DOMAIN f :
          /\ f[i] = line /\ i <= j
          /\ f[j] = p[Len(p)] /\ (j = i \/ ~f[j].locked)

\* The line that the call r has written.
Inbound(r) == [turn |-> r.turn, role |-> IF r.kind = "system" THEN "system" ELSE "user",
               locked |-> TRUE]

Prompted(f, r) ==
    /\ r.at = "recorded" => Own(f, Inbound(r))
    /\ r.at = "asking" /\ r.kind # "command" => Ends(f, Inbound(r), r.prompt)

\* What a prompt is cut by, and the prompt; empty before it is cut.
Cut(r) ==
    r.limit \in 1 .. 200 /\ r.mode \in {"inherit", "minimal", "none"} /\ r.prompt \in Seq(Message)

\* What a caller is going to ask with, or asks with, ends with its own message.
PromptInv ==
    /\ \A c \in Callers : call[c] # NoCall => Cut(call[c])
    /\ \A c \in Callers : Prompted(files[index[call[c].key]], call[c])

LEMMA OwnNow ==
    ASSUME NEW f \in Seq(Message), NEW line \in Message
    PROVE  Own(Append(f, line), line)
  <1> DEFINE g == Append(f, line)
  <1>1. Len(f) \in Nat /\ DOMAIN g = 1 .. Len(f) + 1 /\ Len(g) = Len(f) + 1
        /\ g[Len(f) + 1] = line
    BY AppendFacts
  <1> HIDE DEF g
  <1>2. \A m \in (Len(f) + 1) + 1 .. Len(g) : ~g[m].locked
    BY <1>1
  <1>3. QED BY <1>1, <1>2 DEF Own, g

LEMMA OwnKept ==
    ASSUME NEW f \in Seq(Message), NEW line \in Message, NEW own, Own(f, own), ~line.locked
    PROVE  Own(Append(f, line), own)
  <1> DEFINE g == Append(f, line)
  <1>1. Len(f) \in Nat /\ DOMAIN f = 1 .. Len(f) /\ DOMAIN g = 1 .. Len(f) + 1
        /\ Len(g) = Len(f) + 1
        /\ (\A i \in 1 .. Len(f) : g[i] = f[i]) /\ g[Len(f) + 1] = line
    BY AppendFacts
  <1> HIDE DEF g
  <1>2. PICK i \in DOMAIN f : f[i] = own /\ \A m \in i + 1 .. Len(f) : ~f[m].locked
    BY DEF Own
  <1>3. ASSUME NEW m \in i + 1 .. Len(g) PROVE ~g[m].locked
    <2>1. CASE m = Len(f) + 1
      BY <1>1, <2>1
    <2>2. CASE m # Len(f) + 1
      <3>1. m \in i + 1 .. Len(f) /\ m \in 1 .. Len(f)
        BY <1>1, <1>2, <1>3, <2>2
      <3>2. g[m] = f[m] /\ ~f[m].locked
        BY <1>1, <1>2, <3>1
      <3>3. QED BY <3>2
    <2>3. QED BY <2>1, <2>2
  <1>4. i \in DOMAIN g /\ g[i] = own
    BY <1>1, <1>2
  <1>5. Own(g, own)
    BY <1>3, <1>4 DEF Own
  <1>6. QED BY <1>5 DEF g

LEMMA EndsKept ==
    ASSUME NEW f \in Seq(Message), NEW line \in Message, NEW own, NEW p, Ends(f, own, p)
    PROVE  Ends(Append(f, line), own, p)
  <1> DEFINE g == Append(f, line)
  <1>1. Len(f) \in Nat /\ DOMAIN f = 1 .. Len(f) /\ DOMAIN g = 1 .. Len(f) + 1
        /\ \A i \in 1 .. Len(f) : g[i] = f[i]
    BY AppendFacts
  <1> HIDE DEF g
  <1>2. PICK i \in DOMAIN f, j \in DOMAIN f :
            /\ f[i] = own /\ i <= j
            /\ f[j] = p[Len(p)] /\ (j = i \/ ~f[j].locked)
    BY DEF Ends
  <1>3. i \in DOMAIN g /\ j \in DOMAIN g /\ g[i] = f[i] /\ g[j] = f[j] /\ p # <<>>
    BY <1>1, <1>2 DEF Ends
  <1>4. Ends(g, own, p)
    BY <1>2, <1>3 DEF Ends
  <1>5. QED BY <1>4 DEF g

\* Whatever the limit, the newest element is kept.
LEMMA NewestFacts ==
    ASSUME NEW S, NEW s \in Seq(S), s # <<>>, NEW limit \in Nat \ {0}
    PROVE  /\ Newest(s, limit) \in Seq(S) /\ Newest(s, limit) # <<>>
           /\ Newest(s, limit)[Len(Newest(s, limit))] = s[Len(s)]
  <1> DEFINE first == IF Len(s) > limit THEN Len(s) - limit + 1 ELSE 1
             n     == SubSeq(s, first, Len(s))
  <1>1. Len(s) \in Nat \ {0} /\ first \in 1 .. Len(s)
    OBVIOUS
  <1>2. Newest(s, limit) = n
    BY DEF Newest
  <1> HIDE DEF first
  <1>3. n \in Seq(S) /\ Len(n) = Len(s) - first + 1
    BY <1>1
  <1>4. Len(n) \in 1 .. Len(s) /\ n[Len(n)] = s[first + Len(n) - 1]
    BY <1>1, <1>3
  <1>5. first + Len(n) - 1 = Len(s)
    BY <1>1, <1>3
  <1> HIDE DEF n
  <1>6. n # <<>>
    BY <1>3, <1>4
  <1>7. QED BY <1>2, <1>3, <1>4, <1>5, <1>6

\* Carryover "minimal" keeps the newest message.
LEMMA CarriedFacts ==
    ASSUME NEW h \in Seq(Message), h # <<>>
    PROVE  /\ Picked(h, Carried(h)) \in Seq(Message) /\ Picked(h, Carried(h)) # <<>>
           /\ Picked(h, Carried(h))[Len(Picked(h, Carried(h)))] = h[Len(h)]
  <1> DEFINE C == Carried(h)
  <1>1. Len(h) \in Nat \ {0} /\ DOMAIN h = 1 .. Len(h)
    OBVIOUS
  <1>2. C \subseteq 1 .. Len(h)
    BY <1>1 DEF Carried
  <1>3. Len(h) \in C
    <2> DEFINE later(sys) == {j \in Len(h) + 1 .. Len(h) : (h[j].role = "system") = sys}
    <2>1. later(TRUE) = {} /\ later(FALSE) = {}
      BY <1>1
    <2>2. Cardinality({}) = 0 /\ 0 < 3
      BY FS_EmptySet
    <2>3. Len(h) \in DOMAIN h
      BY <1>1
    <2>4. QED BY <2>1, <2>2, <2>3 DEF Carried
  <1> HIDE DEF C
  <1>4. C \subseteq DOMAIN h /\ \A j \in C : j <= Len(h)
    BY <1>1, <1>2
  <1>5. /\ Picked(h, C) \in Seq(Message) /\ Picked(h, C) # <<>>
        /\ Picked(h, C)[Len(Picked(h, C))] = h[Len(h)]
    BY <1>3, <1>4, PickedLast
  <1>6. QED BY <1>5 DEF C

\* The newest message of a history is carried over in every mode.
LEMMA CarryoverLast ==
    ASSUME NEW h \in Seq(Message), h # <<>>, NEW mode \in {"inherit", "minimal", "none"},
           NEW limit \in 1 .. 200
    PROVE  /\ Carryover(h, mode, limit) # <<>>
           /\ Carryover(h, mode, limit)[Len(Carryover(h, mode, limit))] = h[Len(h)]
  <1>1. limit \in Nat \ {0} /\ 1 \in Nat \ {0}
    OBVIOUS
  <1>2. CASE mode = "none"
    <2>1. Carryover(h, mode, limit) = Newest(h, 1)
      BY <1>2 DEF Carryover
    <2>2. QED BY <1>1, <2>1, NewestFacts
  <1>3. CASE mode = "inherit"
    BY <1>3 DEF Carryover
  <1>4. CASE mode = "minimal"
    <2>1. Carryover(h, mode, limit) = Newest(Picked(h, Carried(h)), limit)
      BY <1>4 DEF Carryover
    <2>2. QED BY <1>1, <2>1, CarriedFacts, NewestFacts
  <1>5. QED BY <1>2, <1>3, <1>4

LEMMA CarryoverType ==
    ASSUME NEW h \in Seq(Message), h # <<>>, NEW mode \in {"inherit", "minimal", "none"},
           NEW limit \in 1 .. 200
    PROVE  Carryover(h, mode, limit) \in Seq(Message)
  <1>1. \A s \in Seq(Message) : s # <<>> => Newest(s, 1) \in Seq(Message) /\ Newest(s, limit) \in Seq(Message)
    BY NewestFacts
  <1>2. QED BY <1>1, CarriedFacts DEF Carryover

\* The prompt that is cut from a transcript ends where the transcript does.
LEMMA CutEnds ==
    ASSUME NEW f \in Seq(Message), NEW line, Own(f, line),
           NEW mode \in {"inherit", "minimal", "none"}, NEW limit \in 1 .. 200
    PROVE  /\ Carryover(Newest(f, limit), mode, limit) \in Seq(Message)
           /\ Ends(f, line, Carryover(Newest(f, limit), mode, limit))
  <1> DEFINE h == Newest(f, limit)
             p == Carryover(h, mode, limit)
  <1>1. PICK i \in DOMAIN f : f[i] = line /\ \A m \in i + 1 .. Len(f) : ~f[m].locked
    BY DEF Own
  <1>2. Len(f) \in Nat /\ DOMAIN f = 1 .. Len(f) /\ f # <<>>
    BY <1>1
  <1>3. h \in Seq(Message) /\ h # <<>> /\ h[Len(h)] = f[Len(f)]
    BY <1>2, NewestFacts
  <1> HIDE DEF h
  <1>4. p # <<>> /\ p[Len(p)] = f[Len(f)]
    BY <1>3, CarryoverLast
  <1>5. p \in Seq(Message)
    BY <1>3, CarryoverType
  <1> HIDE DEF p
  <1>6. Len(f) \in DOMAIN f /\ i <= Len(f) /\ (Len(f) = i \/ Len(f) \in i + 1 .. Len(f))
    BY <1>1, <1>2
  <1>7. Ends(f, line, p)
    BY <1>1, <1>4, <1>6 DEF Ends
  <1>8. QED BY <1>5, <1>7 DEF p, h

\* A step that leaves the calls that have a message in a transcript alone.
LEMMA QuietPrompt ==
    ASSUME PromptInv, UNCHANGED files,
           \A d \in Callers :
              \/ call'[d] = NoCall
              \/ /\ Cut(call'[d])
                 /\ \/ call'[d].at \notin {"recorded", "asking"}
                    \/ call'[d] = call[d] /\ index'[call[d].key] = index[call[d].key]
    PROVE  PromptInv'
  <1>1. ASSUME NEW d \in Callers PROVE Prompted(files'[index'[call'[d].key]], call'[d])
    <2>1. CASE call'[d].at \notin {"recorded", "asking"}
      BY <2>1 DEF Prompted
    <2>2. CASE call'[d] = call[d] /\ index'[call[d].key] = index[call[d].key]
      BY <2>2 DEF PromptInv
    <2>3. QED BY <2>1, <2>2 DEF NoCall
  <1>2. \A d \in Callers : call'[d] # NoCall => Cut(call'[d])
    OBVIOUS
  <1>3. QED BY <1>1, <1>2 DEF PromptInv

\* A line of one session: its own callers know what it does to their prompt,
\* the callers that have a message in another transcript do not see it.
LEMMA GrownPrompt ==
    ASSUME LockInv, IndexInv, PromptInv, NEW id \in Ids, NEW line \in Message,
           files'[id] = Append(files[id], line), \A i \in Ids \ {id} : files'[i] = files[i],
           NEW d \in Callers, call'[d] = call[d],
           Inside(d) /\ index[call[d].key] # NoId => index'[call[d].key] = index[call[d].key],
           \/ ~line.locked
           \/ Inside(d) => index[call[d].key] # id
    PROVE  Prompted(files'[index'[call'[d].key]], call'[d])
  <1> DEFINE f == files[index[call[d].key]]
  <1>1. CASE call[d].at \notin {"recorded", "asking"}
    BY <1>1 DEF Prompted
  <1>2. CASE call[d].at \in {"recorded", "asking"}
    <2>1. Inside(d) /\ call[d].key \in Keys /\ index[call[d].key] # NoId
      BY <1>2, CallFacts DEF Inside, IndexInv
    <2>2. index[call[d].key] \in Ids /\ index'[call[d].key] = index[call[d].key]
      BY <2>1 DEF LockInv, Types, Index
    <2>3. f \in Seq(Message) /\ Prompted(f, call[d])
      BY <2>2 DEF LockInv, Types, PromptInv
    <2>4. CASE index[call[d].key] = id
      <3>1. ~line.locked /\ files'[id] = Append(f, line)
        BY <2>1, <2>4
      <3> HIDE DEF f
      <3>2. Prompted(Append(f, line), call[d])
        BY <2>3, <3>1, OwnKept, EndsKept DEF Prompted
      <3>3. QED BY <2>2, <2>4, <3>1, <3>2
    <2>5. CASE index[call[d].key] # id
      BY <2>2, <2>3, <2>5
    <2>6. QED BY <2>4, <2>5
  <1>3. QED BY <1>1, <1>2

\* A line that caller c writes in its turn.
LEMMA TurnRecordPrompt ==
    ASSUME LockInv, IndexInv, PromptInv, NEW c \in Callers, NEW role \in Roles,
           call[c].at \in {"locked", "asking"},
           Record(call[c].key, Line(c, role)), \A d \in Callers \ {c} : call'[d] = call[d],
           \/ call'[c] = NoCall
           \/ /\ role = InboundRole(c) /\ Cut(call'[c])
              /\ call'[c].key = call[c].key /\ call'[c].turn = call[c].turn /\ call'[c].kind = call[c].kind
              /\ call'[c].at = (IF call[c].kind = "command" THEN "asking" ELSE "recorded")
    PROVE  PromptInv'
  <1> DEFINE line == Line(c, role)
             k    == call[c].key
             id   == index'[k]
  <1>1. line \in Message /\ line.turn = call[c].turn /\ k \in Keys
    BY CallFacts, LineType
  <1>2. index[k] = NoId => Fresh(line.turn, index)
    BY <1>1, MayRecord
  <1>3. /\ id \in Ids
        /\ files'[id] = Append(files[id], line) /\ \A i \in Ids \ {id} : files'[i] = files[i]
        /\ index[k] # NoId => index' = index
        /\ \A l \in Keys \ {k} : index'[l] = index[l] /\ id # index[l]
    BY <1>1, <1>2, RecordFacts
  <1> HIDE DEF id
  <1>4. ASSUME NEW d \in Callers PROVE Prompted(files'[index'[call'[d].key]], call'[d])
    <2>1. CASE d = c
      <3>1. CASE call'[c] = NoCall
        BY <2>1, <3>1 DEF Prompted, NoCall
      <3>2. CASE call'[c] # NoCall
        <4>1. Inbound(call'[c]) = line
          BY <3>2 DEF Inbound, Line, InboundRole
        <4>2. files[id] \in Seq(Message)
          BY <1>3 DEF LockInv, Types
        <4> HIDE DEF line
        <4>3. Own(files'[id], line)
          BY <1>1, <1>3, <4>2, OwnNow
        <4>4. index'[call'[c].key] = id
          BY <3>2 DEF id
        <4>5. call'[c].at = "asking" => call'[c].kind = "command"
          BY <3>2
        <4>6. QED BY <2>1, <4>1, <4>3, <4>4, <4>5 DEF Prompted
      <3>3. QED BY <3>1, <3>2
    <2>2. CASE d # c
      <3>1. call'[d] = call[d]
        BY <2>2
      <3>2. ASSUME Inside(d)
            PROVE  index'[call[d].key] = index[call[d].key] /\ index[call[d].key] # id
        <4>1. Inside(c) /\ call[d].key \in Keys
          BY <3>2, CallFacts DEF Inside
        <4>2. call[d].key # k
          BY <2>2, <3>2, <4>1, OneInside
        <4>3. QED BY <1>3, <4>1, <4>2
      <3> HIDE DEF line
      <3>3. QED BY <1>1, <1>3, <3>1, <3>2, GrownPrompt
    <2>3. QED BY <2>1, <2>2
  <1>5. \A d \in Callers : call'[d] # NoCall => Cut(call'[d])
    BY DEF PromptInv
  <1>6. QED BY <1>4, <1>5 DEF PromptInv

LEMMA TurnPrompt ==
    LockInv /\ IndexInv /\ PromptInv /\ (\E c \in Callers : Turn(c)) => PromptInv'
  <1> SUFFICES ASSUME LockInv, IndexInv, PromptInv, NEW c \in Callers, Turn(c) PROVE PromptInv'
    OBVIOUS
  <1>1. \A d \in Callers : call[d] = NoCall \/ Cut(call[d])
    BY DEF PromptInv
  <1>2. CASE Lock(c)
    <2>1. call[c].at = "waiting" /\ Step(c, "locked") /\ UNCHANGED <<index, files>>
      BY <1>2 DEF Lock, store
    <2>2. call'[c].at = "locked" /\ Cut(call'[c]) /\ \A d \in Callers \ {c} : call'[d] = call[d]
      <3>1. call[c] \in Running(call[c]) /\ call = [d \in Callers |-> call[d]] /\ Cut(call[c])
        BY <1>1, <2>1, CallFacts DEF LockInv, Types
      <3>2. call'[c] = [call[c] EXCEPT !.at = "locked"] /\ \A d \in Callers \ {c} : call'[d] = call[d]
        BY <2>1, <3>1 DEF Step
      <3>3. QED BY <3>1, <3>2 DEF Running, Cut
    <2>3. QED BY <1>1, <2>1, <2>2, QuietPrompt
  <1>3. CASE GiveUp(c) \/ Fail(c)
    <2>1. call[c].at # "idle" /\ call' = [call EXCEPT ![c] = NoCall] /\ UNCHANGED <<index, files>>
      BY <1>3 DEF GiveUp, Fail, Leave, store
    <2>2. call'[c] = NoCall /\ \A d \in Callers \ {c} : call'[d] = call[d]
      BY <2>1, LeaveType
    <2>3. QED BY <1>1, <2>1, <2>2, QuietPrompt
  <1>4. CASE Open(c)
    <2> DEFINE to == IF call[c].kind = "command" THEN "asking" ELSE "recorded"
    <2>1. call[c].at = "locked" /\ Record(call[c].key, Line(c, InboundRole(c))) /\ Step(c, to)
      BY <1>4 DEF Open
    <2>2. InboundRole(c) \in Roles
      BY DEF InboundRole, Roles
    <2>3. /\ call'[c].at = to /\ call'[c].turn = call[c].turn /\ call'[c].key = call[c].key
          /\ call'[c].kind = call[c].kind
          /\ \A d \in Callers \ {c} : call'[d] = call[d]
      <3>1. to \in {"recorded", "asking"}
        OBVIOUS
      <3> HIDE DEF to
      <3>2. QED BY <2>1, <3>1, StepType
    <2>4. Cut(call'[c])
      <3>1. call[c] \in Running(call[c]) /\ call = [d \in Callers |-> call[d]] /\ Cut(call[c])
        BY <1>1, <2>1, CallFacts DEF LockInv, Types
      <3> HIDE DEF to
      <3>2. call'[c] = [call[c] EXCEPT !.at = to]
        BY <2>1, <3>1 DEF Step
      <3>3. QED BY <3>1, <3>2 DEF Running, Cut
    <2>5. QED BY <2>1, <2>2, <2>3, <2>4, TurnRecordPrompt
  <1>5. CASE Load(c)
    <2> DEFINE f == files[index[call[c].key]]
               p == Carryover(Newest(f, call[c].limit), call[c].mode, call[c].limit)
    <2>1. call[c].at = "recorded" /\ UNCHANGED <<index, files>>
      BY <1>5 DEF Load, store
    <2>2. call[c].key \in Keys /\ index[call[c].key] # NoId /\ index[call[c].key] \in Ids
      BY <2>1, CallFacts DEF IndexInv, LockInv, Types, Index
    <2>3. call' = [call EXCEPT ![c].at = "asking", ![c].prompt = p]
      BY <1>5, <2>2 DEF Load, LoadMessages
    <2>4. f \in Seq(Message) /\ Own(f, Inbound(call[c])) /\ Cut(call[c])
      BY <1>1, <2>1, <2>2 DEF LockInv, Types, PromptInv, Prompted, NoCall
    <2>5. p \in Seq(Message) /\ Ends(f, Inbound(call[c]), p)
      <3> HIDE DEF f
      <3>1. QED BY <2>4, CutEnds DEF Cut
    <2> HIDE DEF p
    <2>6. call = [d \in Callers |-> call[d]] /\ call[c] \in Running(call[c])
      BY <2>1, CallFacts DEF LockInv, Types
    <2>7. /\ call'[c] = [[call[c] EXCEPT !.at = "asking"] EXCEPT !.prompt = p]
          /\ \A d \in Callers \ {c} : call'[d] = call[d]
      BY <2>3, <2>6
    <2>8. /\ call'[c].key = call[c].key /\ call'[c].prompt = p /\ call'[c].at = "asking"
          /\ call'[c].turn = call[c].turn /\ call'[c].kind = call[c].kind
          /\ call'[c].limit = call[c].limit /\ call'[c].mode = call[c].mode
      BY <2>6, <2>7 DEF Running
    <2>9. Prompted(files'[index'[call'[c].key]], call'[c]) /\ Cut(call'[c])
      BY <2>1, <2>4, <2>5, <2>8 DEF Prompted, Inbound, Cut
    <2>10. ASSUME NEW d \in Callers
           PROVE  Prompted(files'[index'[call'[d].key]], call'[d]) /\ (call'[d] # NoCall => Cut(call'[d]))
      BY <1>1, <2>1, <2>7, <2>9 DEF PromptInv
    <2>11. QED BY <2>10 DEF PromptInv
  <1>6. CASE Answer(c)
    <2>1. call[c].at = "asking" /\ Record(call[c].key, Line(c, "assistant")) /\ Leave(c)
      BY <1>6 DEF Answer
    <2>2. "assistant" \in Roles
      BY DEF Roles
    <2>3. call'[c] = NoCall /\ \A d \in Callers \ {c} : call'[d] = call[d]
      BY <2>1, LeaveType DEF Leave
    <2>4. QED BY <2>1, <2>2, <2>3, TurnRecordPrompt
  <1>7. QED BY <1>2, <1>3, <1>4, <1>5, <1>6 DEF Turn

\* A line that is written past the mutex.
LEMMA PastMutexPrompt ==
    ASSUME LockInv, IndexInv, PromptInv, UNCHANGED call, NEW id \in Ids, NEW line \in Message,
           ~line.locked,
           files'[id] = Append(files[id], line), \A i \in Ids \ {id} : files'[i] = files[i],
           \A k \in Keys : index[k] # NoId => index'[k] = index[k]
    PROVE  PromptInv'
  <1>1. ASSUME NEW d \in Callers PROVE Prompted(files'[index'[call'[d].key]], call'[d])
    <2>1. Inside(d) /\ index[call[d].key] # NoId => index'[call[d].key] = index[call[d].key]
      BY CallFacts DEF Inside
    <2>2. call'[d] = call[d]
      OBVIOUS
    <2>3. QED BY <2>1, <2>2, GrownPrompt
  <1>2. \A d \in Callers : call'[d] # NoCall => Cut(call'[d])
    BY DEF PromptInv
  <1>3. QED BY <1>1, <1>2 DEF PromptInv

LEMMA NotePrompt == LockInv /\ IndexInv /\ PromptInv /\ Note => PromptInv'
  <1> SUFFICES ASSUME LockInv, IndexInv, PromptInv, Note PROVE PromptInv'
    OBVIOUS
  <1>1. PICK id \in Ids, line \in Message :
            /\ ~line.locked /\ UNCHANGED call
            /\ files'[id] = Append(files[id], line) /\ \A i \in Ids \ {id} : files'[i] = files[i]
            /\ \A k \in Keys : index[k] # NoId => index'[k] = index[k]
    BY NoteLine
  <1>2. QED BY <1>1, PastMutexPrompt

LEMMA CliWritePrompt == LockInv /\ IndexInv /\ PromptInv /\ CliWrite => PromptInv'
  <1> SUFFICES ASSUME LockInv, IndexInv, PromptInv, CliWrite PROVE PromptInv'
    OBVIOUS
  <1>1. PICK id \in Ids, line \in Message :
            /\ ~line.locked /\ UNCHANGED <<index, call>>
            /\ files'[id] = Append(files[id], line) /\ \A i \in Ids \ {id} : files'[i] = files[i]
    BY CliLine
  <1>2. QED BY <1>1, PastMutexPrompt

LEMMA HistoryLimitType ==
    ASSUME NEW raw \in Int PROVE HistoryLimit(raw) \in 1 .. 200
  BY DEF HistoryLimit

LEMMA NextPrompt == LockInv /\ IndexInv /\ PromptInv /\ [Next]_vars => PromptInv'
  <1> SUFFICES ASSUME LockInv, IndexInv, PromptInv, [Next]_vars PROVE PromptInv'
    OBVIOUS
  <1>0. \A d \in Callers : call[d] = NoCall \/ Cut(call[d])
    BY DEF PromptInv
  <1>1. CASE \E c \in Callers : Arrive(c)
    <2>1. PICK c \in Callers : Arrive(c)
      BY <1>1
    <2>2. UNCHANGED <<index, files>>
      BY <2>1 DEF Arrive, store
    <2>3. PICK policy \in Policies :
              /\ call'[c].at = "waiting" /\ call'[c].mode = policy.mode
              /\ call'[c].limit = HistoryLimit(policy.limit) /\ call'[c].prompt = <<>>
              /\ \A d \in Callers \ {c} : call'[d] = call[d]
      BY <2>1 DEF Arrive, LockInv, Types
    <2>4. policy.limit \in Int /\ policy.mode \in {"inherit", "minimal", "none"}
      OBVIOUS
    <2>5. Cut(call'[c])
      <3>1. <<>> \in Seq(Message)
        OBVIOUS
      <3>2. QED BY <2>3, <2>4, <3>1, HistoryLimitType DEF Cut
    <2>6. QED BY <1>0, <2>2, <2>3, <2>5, QuietPrompt
  <1>2. CASE CliOpen \/ CliDies
    <2>1. UNCHANGED <<index, files, call>>
      BY <1>2 DEF CliOpen, CliDies, store
    <2>2. QED BY <1>0, <2>1, QuietPrompt
  <1>3. CASE Crash \/ CrashInSave
    <2>1. UNCHANGED files /\ \A c \in Callers : call'[c] = NoCall
      BY <1>3 DEF Crash, CrashInSave, Gone
    <2>2. QED BY <2>1, QuietPrompt
  <1>4. CASE Boot
    <2>1. ~up /\ UNCHANGED <<files, call>>
      BY <1>4 DEF Boot
    <2>2. \A c \in Callers : call[c] = NoCall
      BY <2>1 DEF LockInv
    <2>3. QED BY <2>1, <2>2, QuietPrompt
  <1>5. CASE UNCHANGED vars
    <2>1. UNCHANGED <<index, files, call>>
      BY <1>5 DEF vars, store
    <2>2. QED BY <1>0, <2>1, QuietPrompt
  <1>6. QED
    BY <1>1, <1>2, <1>3, <1>4, <1>5, TurnPrompt, NotePrompt, CliWritePrompt DEF Next

LEMMA InitPrompt == Init => PromptInv
  <1> SUFFICES ASSUME Init PROVE PromptInv
    OBVIOUS
  <1>1. \A c \in Callers : call[c] = NoCall
    BY DEF Init
  <1>2. QED BY <1>1 DEF PromptInv, Prompted, NoCall

-----------------------------------------------------------------------------
(* Theorems                                                                *)

IInv == LockInv /\ IndexInv /\ FileInv /\ PromptInv

LEMMA Inductive == Spec => []IInv
  <1>1. Init => IInv
    BY InitLock, InitIndex, InitFiles, InitPrompt DEF IInv
  <1>2. IInv /\ [Next]_vars => IInv'
    BY NextLock, NextIndex, NextFiles, NextPrompt DEF IInv
  <1>3. QED BY <1>1, <1>2, PTL DEF Spec

\* Every variable has its type; a prompt in particular is a sequence of messages
\* of the transcripts, however it is cut (loadMessages, applyCarryoverPolicy).
THEOREM TypeCorrect == Spec => []TypeOK
  <1>1. IInv => TypeOK
    <2> SUFFICES ASSUME IInv PROVE TypeOK
      OBVIOUS
    <2>1. Types
      BY DEF IInv, LockInv
    <2>2. ASSUME NEW c \in Callers PROVE call[c] \in Call \cup {NoCall}
      <3>1. CASE call[c] = NoCall
        BY <3>1
      <3>2. CASE call[c] # NoCall
        <4>1. call[c] \in Running(call[c]) /\ Cut(call[c])
          BY <2>1, <3>2 DEF Types, IInv, PromptInv
        <4>2. QED BY <4>1 DEF Running, Cut, Call
      <3>3. QED BY <3>1, <3>2
    <2>3. QED BY <2>1, <2>2 DEF Types, TypeOK
  <1>2. QED BY <1>1, Inductive, PTL

\* At most one caller at a time is between getting a session's mutex and
\* giving it back, and two sessions never share a transcript: neither in the
\* gateway's index nor in sessions.json, whoever wrote it last.
THEOREM OneTurnPerTranscript ==
    Spec => [](/\ \A c, d \in Callers : c # d /\ Inside(c) /\ Inside(d) => call[c].key # call[d].key
               /\ Apart(index) /\ Apart(saved))
  <1>1. LockInv => \A c, d \in Callers : c # d /\ Inside(c) /\ Inside(d) => call[c].key # call[d].key
    BY OneInside
  <1>2. IndexInv => Apart(index) /\ Apart(saved)
    BY DEF IndexInv
  <1>3. QED BY <1>1, <1>2, Inductive, PTL DEF IInv

\* In every transcript a turn's reply comes after its message, with no line
\* of another turn between them, for any number of callers, sessions and
\* messages, through the writers past the mutex and every death of the
\* gateway (handleMessage).
THEOREM TurnsApart == Spec => []TurnsDoNotInterleave
  <1>1. FileInv => TurnsDoNotInterleave
    BY DEF FileInv, AllWhole, Whole, TurnsDoNotInterleave
  <1>2. QED BY <1>1, Inductive, PTL DEF IInv

\* A reply that a caller was given is in a transcript behind its message, even
\* after sessions.json was torn or overwritten by the CLI (handleMessage,
\* appendMessage).
THEOREM GivenRepliesRecorded == Spec => []RepliesAreRecorded
  <1>1. FileInv => RepliesAreRecorded
    BY DEF FileInv, AllRecorded, Replied, RepliesAreRecorded
  <1>2. QED BY <1>1, Inductive, PTL DEF IInv

\* The newest message of a prompt is the asking turn's own, or one that was
\* written behind it past the mutex, for any transcript, limit and carryover
\* mode (loadMessages, applyCarryoverPolicy).
THEOREM PromptsEndHere == Spec => []PromptEndsHere
  <1>1. PromptInv => PromptEndsHere
    BY DEF PromptInv, Prompted, Ends, Inbound, Line, InboundRole, PromptEndsHere
  <1>2. QED BY <1>1, Inductive, PTL DEF IInv
==============================================================================

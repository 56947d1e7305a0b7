------------------------ MODULE TelegramPairingProofs ------------------------
(***************************************************************************)
(* The Telegram channel for any users, any number of updates, of starts of *)
(* the gateway and of pairing commands.                                    *)
(***************************************************************************)
EXTENDS TelegramPairing, TLAPS

USE TelegramAssumption

-----------------------------------------------------------------------------
(* Types                                                                   *)

LEMMA EnsurePendingType ==
    ASSUME NEW reqs \in Seq(Request), NEW u \in Users, NEW code \in Nat \ {0}
    PROVE  /\ EnsurePending(reqs, u, code) \in Seq(Request)
           /\ Len(EnsurePending(reqs, u, code)) - Len(reqs) \in {0, 1}
  <1>1. [code |-> code, user |-> u, approved |-> FALSE] \in Request
    BY DEF Request
  <1>2. QED BY <1>1 DEF EnsurePending

LEMMA ApproveByCodeType ==
    ASSUME NEW reqs \in Seq(Request), NEW code
    PROVE  ApproveByCode(reqs, code) \in Seq(Request)
  <1>1. ASSUME NEW i \in DOMAIN reqs PROVE [reqs[i] EXCEPT !.approved = TRUE] \in Request
    <2>1. reqs[i] \in Request
      OBVIOUS
    <2>2. QED BY <2>1 DEF Request
  <1>2. DOMAIN reqs = 1 .. Len(reqs) /\ Len(reqs) \in Nat
    OBVIOUS
  <1>3. ApproveByCode(reqs, code) \in [1 .. Len(reqs) -> Request]
    BY <1>1, <1>2 DEF ApproveByCode
  <1>4. QED BY <1>2, <1>3

LEMMA OffsetPastType ==
    ASSUME TypeOK, batch # <<>>
    PROVE  /\ Head(batch) \in 1 .. Len(updates)
           /\ OffsetPast(Head(batch)) \in 0 .. Len(updates) + 1
           /\ Tail(batch) \in Seq(DOMAIN updates)
  <1>1. DOMAIN updates = 1 .. Len(updates) /\ Len(updates) \in Nat
    BY DEF TypeOK
  <1>2. Head(batch) \in DOMAIN updates /\ Tail(batch) \in Seq(DOMAIN updates)
    BY DEF TypeOK
  <1>3. QED BY <1>1, <1>2 DEF OffsetPast, TypeOK

\* What a poll returns.
LEMMA PollType ==
    ASSUME TypeOK, Poll
    PROVE  /\ confirmed' \in 1 .. Len(updates) + 1
           /\ batch' \in Seq(DOMAIN updates)
           /\ \A i \in DOMAIN batch' : batch'[i] = confirmed' + i - 1
  <1>1. confirmed' = Confirms(offset) /\ Len(updates) \in Nat
        /\ Confirms(offset) \in 1 .. Len(updates) + 1
    BY DEF TypeOK, Poll, Confirms
  <1>2. PICK c \in 1 .. Len(updates) + 1 : c = confirmed'
    BY <1>1
  <1>3. PICK n \in c - 1 .. Len(updates) : batch' = [i \in 1 .. n - c + 1 |-> c + i - 1]
    BY <1>2 DEF Poll
  <1>4. n - c + 1 \in Nat
    BY <1>1
  <1>5. ASSUME NEW i \in 1 .. n - c + 1 PROVE c + i - 1 \in 1 .. Len(updates)
    BY <1>1
  <1>6. batch' \in Seq(1 .. Len(updates))
    BY <1>3, <1>4, <1>5
  <1>7. DOMAIN updates = 1 .. Len(updates)
    BY DEF TypeOK
  <1>8. QED BY <1>1, <1>2, <1>3, <1>6, <1>7

\* What the end of a handling adds to the history.
LEMMA DoneType ==
    ASSUME TypeOK, batch # <<>>, NEW outcome \in Outcomes, Done(outcome)
    PROVE  handled' \in Seq(Handled) /\ batch' \in Seq(DOMAIN updates)
  <1>1. Head(batch) \in 1 .. Len(updates) /\ Len(updates) \in Nat /\ Tail(batch) \in Seq(DOMAIN updates)
    BY OffsetPastType DEF TypeOK
  <1>2. [id |-> Head(batch), life |-> life, outcome |-> outcome] \in Handled
    BY <1>1 DEF Handled, TypeOK
  <1>3. QED BY <1>1, <1>2 DEF Done, TypeOK

\* What a stranger does to the requests.
LEMMA RefuseType ==
    ASSUME TypeOK, batch # <<>>, Refuse
    PROVE  requests' \in Seq(Request) /\ file' \in Seq(Request) /\ codes' \in Nat
  <1>1. Head(batch) \in 1 .. Len(updates)
    BY OffsetPastType
  <1>2. Sender \in Users
    <2>1. updates[Head(batch)] \in Update
      BY <1>1 DEF TypeOK
    <2>2. QED BY <2>1 DEF Update, Sender
  <1> DEFINE reqs == EnsurePending(requests, Sender, codes + 1)
  <1>3. reqs \in Seq(Request) /\ Len(reqs) - Len(requests) \in {0, 1}
    <2>1. requests \in Seq(Request) /\ codes + 1 \in Nat \ {0}
      BY DEF TypeOK
    <2>2. QED BY <1>2, <2>1, EnsurePendingType
  <1>4. \/ UNCHANGED pairs
        \/ requests' = reqs /\ codes' = codes + Len(reqs) - Len(requests) /\ file' = reqs
    BY DEF Refuse
  <1>5. Len(reqs) \in Nat /\ Len(requests) \in Nat /\ codes \in Nat
    BY <1>3 DEF TypeOK
  <1>6. QED BY <1>3, <1>4, <1>5 DEF TypeOK, pairs

LEMMA ReadType ==
    ASSUME TypeOK, NEW other \in BOOLEAN
    PROVE  Read(other) \subseteq Seq(Request) /\ Read(other) \subseteq {file, <<>>}
  <1>1. file \in Seq(Request) /\ <<>> \in Seq(Request)
    BY DEF TypeOK
  <1>2. QED BY <1>1, Zenon DEF Read

LEMMA InitTypeOK == Init => TypeOK
  BY DEF Init, TypeOK, NoCommand, Undecided

LEMMA NextTypeOK == TypeOK /\ [Next]_vars => TypeOK'
  <1> SUFFICES ASSUME TypeOK, [Next]_vars PROVE TypeOK'
    OBVIOUS
  <1>1. CASE Send
    <2>1. PICK update \in Update : updates' = Append(updates, update)
      BY <1>1 DEF Send
    <2>2. updates' \in Seq(Update) /\ Len(updates') = Len(updates) + 1 /\ Len(updates) \in Nat
      BY <2>1 DEF TypeOK
    <2>3. DOMAIN updates \subseteq DOMAIN updates'
      BY <2>1, <2>2 DEF TypeOK
    <2>4. batch \in Seq(DOMAIN updates')
      BY <2>3 DEF TypeOK
    <2>5. QED BY <1>1, <2>2, <2>4 DEF Send, TypeOK, bot, pairs
  <1>2. CASE Poll
    BY <1>2, PollType DEF Poll, TypeOK, pairs
  <1>3. CASE Handle
    <2>1. batch # <<>> /\ now = Undecided /\ offset' = OffsetPast(Head(batch))
          /\ UNCHANGED <<updates, confirmed, life, up, cli, commands, approved>>
      BY <1>3 DEF Handle
    <2>2. offset' \in 0 .. Len(updates) + 1
      BY <2>1, OffsetPastType
    <2>3. CASE Skip
      <3>1. handled' \in Seq(Handled) /\ batch' \in Seq(DOMAIN updates)
        BY <2>1, <2>3, DoneType DEF Skip, Outcomes
      <3>2. now' = Undecided /\ UNCHANGED pairs
        BY <2>3 DEF Skip, Done
      <3>3. QED BY <2>1, <2>2, <3>1, <3>2 DEF TypeOK, pairs
    <2>4. CASE Admit
      <3>1. now' = "admitted" /\ UNCHANGED <<requests, file, codes, batch, handled>>
        BY <2>4 DEF Admit, pairs
      <3>2. QED BY <2>1, <2>2, <3>1 DEF TypeOK
    <2>5. CASE Refuse
      <3>1. now' = "refused" /\ UNCHANGED <<batch, handled>>
        BY <2>5 DEF Refuse
      <3>2. requests' \in Seq(Request) /\ file' \in Seq(Request) /\ codes' \in Nat
        BY <2>1, <2>5, RefuseType
      <3>3. QED BY <2>1, <2>2, <3>1, <3>2 DEF TypeOK
    <2>6. QED BY <1>3, <2>3, <2>4, <2>5 DEF Handle
  <1>3a. CASE Reply
    <2>1. now \in Outcomes /\ batch # <<>> /\ Done(now)
      BY <1>3a DEF Reply, TypeOK, Outcomes
    <2>2. now' = Undecided /\ handled' \in Seq(Handled) /\ batch' \in Seq(DOMAIN updates)
      BY <2>1, DoneType DEF Done
    <2>3. UNCHANGED <<updates, confirmed, life, up, offset, requests, file, codes, cli, commands, approved>>
      BY <1>3a DEF Reply, pairs
    <2>4. QED BY <2>2, <2>3 DEF TypeOK
  <1>4. CASE Crash \/ CrashInSave
    <2>1. Down
      BY <1>4 DEF Crash, CrashInSave
    <2>2. file' = file \/ file' = <<>>
      BY <1>4 DEF Crash, CrashInSave
    <2>3. file' \in Seq(Request)
      <3>1. file \in Seq(Request) /\ <<>> \in Seq(Request)
        BY DEF TypeOK
      <3>2. QED BY <2>2, <3>1, Zenon
    <2>4. batch' \in Seq(DOMAIN updates) /\ requests' \in Seq(Request)
      BY <2>1 DEF Down
    <2>5. 0 \in 0 .. Len(updates) + 1
      BY DEF TypeOK
    <2>6. QED BY <2>1, <2>3, <2>4, <2>5 DEF Down, TypeOK
  <1>5. CASE Boot
    <2>1. requests' \in Seq(Request) /\ file' = requests'
      BY <1>5, ReadType DEF Boot
    <2>2. QED BY <1>5, <2>1 DEF Boot, TypeOK
  <1>6. CASE CliLoad
    <2>1. PICK read \in Seq(Request) : cli' = [at |-> "loaded", requests |-> read]
      BY <1>6, ReadType DEF CliLoad, TypeOK
    <2>2. cli' \in [at : {"idle", "loaded", "ready"}, requests : Seq(Request)]
      BY <2>1
    <2>3. QED BY <1>6, <2>2 DEF CliLoad, TypeOK, bot, pairs
  <1>7. CASE CliSaveBack
    BY <1>7 DEF CliSaveBack, TypeOK, bot
  <1>8. CASE CliApprove
    <2>1. PICK i \in DOMAIN cli.requests :
              /\ file' = ApproveByCode(cli.requests, cli.requests[i].code)
              /\ approved' = approved \cup {cli.requests[i].user}
      BY <1>8 DEF CliApprove
    <2>2. cli.requests \in Seq(Request)
      BY DEF TypeOK
    <2>3. cli.requests[i].user \in Users
      <3>1. cli.requests[i] \in Request
        BY <2>1, <2>2
      <3>2. QED BY <3>1 DEF Request
    <2>4. file' \in Seq(Request)
      BY <2>1, <2>2, ApproveByCodeType
    <2>5. QED BY <1>8, <2>1, <2>3, <2>4 DEF CliApprove, TypeOK, bot, NoCommand
  <1>9. CASE CliLeave
    BY <1>9 DEF CliLeave, TypeOK, bot, pairs, NoCommand
  <1>9a. CASE CliDies
    BY <1>9a DEF CliDies, TypeOK, bot, NoCommand
  <1>10. CASE UNCHANGED vars
    BY <1>10 DEF vars, TypeOK, bot, pairs
  <1>11. QED
    BY <1>1, <1>2, <1>3, <1>3a, <1>4, <1>5, <1>6, <1>7, <1>8, <1>9, <1>9a, <1>10 DEF Next

\* Types: every variable of the channel stays in its set (TelegramBot,
\* TelegramPairingStore).
THEOREM TypeCorrect == Spec => []TypeOK
  <1>1. QED BY InitTypeOK, NextTypeOK, PTL DEF Spec
-----------------------------------------------------------------------------
(* Updates: handled before they are confirmed, in order                    *)

\* The update that the bot is done with next.  It is what the server will
\* confirm when it is asked: what the bot has seen of this life, or what an
\* earlier one had confirmed.
Todo == IF now = Undecided THEN Confirms(offset) ELSE offset - 1

\* A batch goes on from there without a gap.  Nothing else orders the updates:
\* the server repeats what is not confirmed.
BatchFollows ==
    /\ ~up => batch = <<>> /\ offset = 0
    /\ now # Undecided => confirmed < offset
    /\ \A i \in DOMAIN batch : batch[i] = Todo + i - 1

SeenWereHandled ==
    \A id \in Nat \ {0} : id < Todo => \E i \in DOMAIN handled : handled[i].id = id

HandledWereSeen ==
    \A i \in DOMAIN handled :
        /\ handled[i].life <= life
        /\ up /\ handled[i].life = life => handled[i].id < Todo

UpdatesInv == TypeOK /\ BatchFollows /\ SeenWereHandled /\ HandledWereSeen /\ HandledInOrder

LEMMA TodoFacts ==
    ASSUME UpdatesInv
    PROVE  /\ Todo \in Nat /\ confirmed \in Nat /\ confirmed <= Todo
           /\ batch # <<>> => Head(batch) = Todo
           /\ now # Undecided => offset = Todo + 1 /\ Confirms(offset) = offset
  <1>1. offset \in Nat /\ confirmed \in Nat /\ Confirms(offset) \in Nat
        /\ Confirms(offset) >= confirmed /\ batch \in Seq(DOMAIN updates)
    BY DEF UpdatesInv, TypeOK, Confirms
  <1>2. now # Undecided => confirmed < offset
    BY DEF UpdatesInv, BatchFollows
  <1>3. Todo \in Nat /\ confirmed <= Todo
    BY <1>1, <1>2 DEF Todo
  <1>4. now # Undecided => offset = Todo + 1 /\ Confirms(offset) = offset
    BY <1>1, <1>2 DEF Todo, Confirms
  <1>5. ASSUME batch # <<>> PROVE Head(batch) = Todo
    <2>1. 1 \in DOMAIN batch /\ Head(batch) = batch[1]
      BY <1>1, <1>5
    <2>2. batch[1] = Todo + 1 - 1
      BY <2>1 DEF UpdatesInv, BatchFollows
    <2>3. QED BY <1>3, <2>1, <2>2
  <1>6. QED BY <1>1, <1>3, <1>4, <1>5

LEMMA InitUpdates == Init => UpdatesInv
  BY InitTypeOK DEF Init, UpdatesInv, BatchFollows, SeenWereHandled, HandledWereSeen,
     HandledInOrder, Confirms, Todo

\* Where Todo stays and no update is done with, so does everything.
LEMMA TodoKept ==
    ASSUME UpdatesInv, TypeOK', up, UNCHANGED <<life, up, batch, handled, confirmed>>,
           Todo' = Todo, now' # Undecided => confirmed < offset'
    PROVE  UpdatesInv'
  <1>1. BatchFollows' /\ SeenWereHandled' /\ HandledWereSeen' /\ HandledInOrder'
    BY DEF UpdatesInv, BatchFollows, SeenWereHandled, HandledWereSeen, HandledInOrder
  <1>2. QED BY <1>1 DEF UpdatesInv

\* One more update: the step that the invariant is about.
LEMMA DoneUpdates ==
    ASSUME UpdatesInv, TypeOK', up, batch # <<>>, UNCHANGED <<life, up>>,
           NEW outcome, Done(outcome), Todo' = Todo + 1
    PROVE  UpdatesInv'
  <1> DEFINE n == Len(handled) + 1
  <1>1. handled \in Seq(Handled) /\ batch \in Seq(DOMAIN updates) /\ life \in Nat
    BY DEF UpdatesInv, TypeOK
  <1>2. Todo \in Nat /\ Head(batch) = Todo
    BY TodoFacts
  <1>3. /\ DOMAIN handled' = 1 .. n /\ Len(handled) \in Nat
        /\ \A i \in 1 .. Len(handled) : handled'[i] = handled[i]
        /\ handled'[n].id = Todo /\ handled'[n].life = life
        /\ batch' = Tail(batch) /\ now' = Undecided
    BY <1>1, <1>2 DEF Done
  <1>4. BatchFollows'
    <2>1. ASSUME NEW i \in DOMAIN batch'
          PROVE  batch'[i] = Todo + 1 + i - 1
      <3>1. i \in Nat /\ i + 1 \in DOMAIN batch /\ batch'[i] = batch[i + 1]
        BY <1>1, <1>3
      <3>2. batch[i + 1] = Todo + (i + 1) - 1
        BY <3>1 DEF UpdatesInv, BatchFollows
      <3>3. QED BY <1>2, <3>1, <3>2
    <2>2. QED BY <1>3, <2>1 DEF BatchFollows
  <1>5. SeenWereHandled'
    <2>1. ASSUME NEW id \in Nat \ {0}, id < Todo + 1
          PROVE  \E i \in DOMAIN handled' : handled'[i].id = id
      <3>1. CASE id < Todo
        <4>1. PICK i \in DOMAIN handled : handled[i].id = id
          BY <3>1 DEF UpdatesInv, SeenWereHandled
        <4>2. i \in 1 .. Len(handled)
          BY <1>1, <4>1
        <4>3. QED BY <1>3, <4>1, <4>2
      <3>2. CASE id = Todo
        <4>1. n \in DOMAIN handled'
          BY <1>3
        <4>2. QED BY <1>3, <3>2, <4>1
      <3>3. QED BY <1>2, <2>1, <3>1, <3>2
    <2>2. QED BY <2>1 DEF SeenWereHandled
  <1>6. ASSUME NEW i \in 1 .. Len(handled)
        PROVE  /\ handled[i].life <= life /\ handled[i].id \in Nat
               /\ handled[i].life = life => handled[i].id < Todo
    <2>1. i \in DOMAIN handled /\ handled[i] \in Handled
      BY <1>1
    <2>2. handled[i].id \in Nat
      BY <2>1 DEF Handled
    <2>3. QED BY <2>1, <2>2 DEF UpdatesInv, HandledWereSeen
  <1>7. HandledWereSeen'
    <2>1. ASSUME NEW i \in 1 .. n
          PROVE  /\ handled'[i].life <= life
                 /\ handled'[i].life = life => handled'[i].id < Todo + 1
      <3>1. CASE i \in 1 .. Len(handled)
        <4>1. handled[i].life <= life /\ (handled[i].life = life => handled[i].id < Todo + 1)
          BY <1>2, <1>6, <3>1
        <4>2. QED BY <1>3, <3>1, <4>1
      <3>2. CASE i = n
        BY <1>1, <1>2, <1>3, <3>2
      <3>3. QED BY <1>3, <2>1, <3>1, <3>2
    <2>2. QED BY <1>3, <2>1 DEF HandledWereSeen
  <1>8. HandledInOrder'
    <2>1. ASSUME NEW i \in 1 .. n, NEW j \in 1 .. n, i < j, handled'[i].life = handled'[j].life
          PROVE  handled'[i].id < handled'[j].id
      <3>1. i \in 1 .. Len(handled) /\ handled'[i] = handled[i]
        BY <1>3, <2>1
      <3>2. CASE j \in 1 .. Len(handled)
        <4>1. handled'[j] = handled[j]
          BY <1>3, <3>2
        <4>2. i \in DOMAIN handled /\ j \in DOMAIN handled
          BY <1>1, <3>1, <3>2
        <4>3. handled[i].life = handled[j].life
          BY <2>1, <3>1, <4>1
        <4>4. handled[i].id < handled[j].id
          BY <2>1, <4>2, <4>3 DEF UpdatesInv, HandledInOrder
        <4>5. QED BY <3>1, <4>1, <4>4
      <3>3. CASE j = n
        BY <1>3, <1>6, <2>1, <3>1, <3>3
      <3>4. QED BY <1>3, <3>2, <3>3
    <2>2. QED BY <1>3, <2>1 DEF HandledInOrder
  <1>9. QED BY <1>4, <1>5, <1>7, <1>8 DEF UpdatesInv

\* What allowedUser decides moves the offset, and the reply ends the update.
LEMMA HandleUpdates == UpdatesInv /\ Handle => UpdatesInv'
  <1> SUFFICES ASSUME UpdatesInv, Handle PROVE UpdatesInv'
    OBVIOUS
  <1>1. TypeOK'
    BY NextTypeOK DEF UpdatesInv, Next
  <1>2. up /\ batch # <<>> /\ now = Undecided /\ UNCHANGED <<confirmed, life, up>>
        /\ offset' = OffsetPast(Head(batch))
    BY DEF Handle
  <1>3. Todo = Confirms(offset) /\ Head(batch) = Todo /\ Todo \in Nat /\ confirmed \in Nat
        /\ confirmed <= Todo /\ offset \in Nat /\ offset <= Todo
    BY <1>2, TodoFacts DEF Todo, Confirms, UpdatesInv, TypeOK
  <1>4. offset' = Todo + 1 /\ confirmed < Todo + 1
    BY <1>2, <1>3 DEF OffsetPast
  <1>5. Confirms(offset)' = Todo + 1
    <2> DEFINE o == Todo + 1
    <2>1. ~(o < confirmed)
      BY <1>3
    <2>2. offset' = o /\ confirmed' = confirmed
      BY <1>2, <1>4
    <2> HIDE DEF o
    <2>3. Confirms(offset)' = o
      BY <2>1, <2>2 DEF Confirms
    <2>4. QED BY <2>3 DEF o
  <1>6. CASE Skip
    <2>1. Done("skipped")
      BY <1>6 DEF Skip
    <2>2. Todo' = Todo + 1
      BY <1>5, <2>1 DEF Todo, Done
    <2>3. QED BY <1>1, <1>2, <2>1, <2>2, DoneUpdates
  <1>7. CASE Admit \/ Refuse
    <2>1. now' # Undecided /\ UNCHANGED <<batch, handled>>
      BY <1>7 DEF Admit, Refuse, Undecided
    <2>2. Todo' = Todo
      BY <1>3, <1>4, <2>1 DEF Todo
    <2>3. QED BY <1>1, <1>2, <1>4, <2>1, <2>2, TodoKept
  <1>8. QED BY <1>6, <1>7 DEF Handle

LEMMA ReplyUpdates == UpdatesInv /\ Reply => UpdatesInv'
  <1> SUFFICES ASSUME UpdatesInv, Reply PROVE UpdatesInv'
    OBVIOUS
  <1>1. TypeOK'
    BY NextTypeOK DEF UpdatesInv, Next
  <1>2. up /\ now # Undecided /\ batch # <<>> /\ Done(now) /\ UNCHANGED <<confirmed, life, up, offset>>
    BY DEF Reply, UpdatesInv, TypeOK
  <1>3. offset = Todo + 1 /\ Confirms(offset) = offset
    BY <1>2, TodoFacts
  <1>4. Todo' = Confirms(offset)'
    BY <1>2 DEF Todo, Done
  <1>5. Confirms(offset)' = Confirms(offset)
    BY <1>2 DEF Confirms
  <1>6. QED BY <1>1, <1>2, <1>3, <1>4, <1>5, DoneUpdates

\* The other steps: a poll starts a batch where the last one ended, and a new
\* life has handled nothing yet.
LEMMA NextUpdates == UpdatesInv /\ [Next]_vars => UpdatesInv'
  <1> SUFFICES ASSUME UpdatesInv, [Next]_vars PROVE UpdatesInv'
    OBVIOUS
  <1>1. TypeOK /\ TypeOK'
    BY NextTypeOK DEF UpdatesInv
  <1>2. CASE Handle \/ Reply
    BY <1>2, HandleUpdates, ReplyUpdates
  <1>3. CASE Poll
    <2>1. up /\ UNCHANGED <<life, up, offset, now, handled>> /\ confirmed' = Confirms(offset)
          /\ now = Undecided
      BY <1>1, <1>3 DEF Poll, TypeOK
    <2>2. Confirms(offset)' = Confirms(offset) /\ Todo' = Todo /\ Todo = Confirms(offset)
      BY <2>1 DEF Confirms, Todo
    <2>3. \A i \in DOMAIN batch' : batch'[i] = Confirms(offset) + i - 1
      BY <1>1, <1>3, <2>1, PollType
    <2>4. BatchFollows' /\ SeenWereHandled' /\ HandledWereSeen' /\ HandledInOrder'
      BY <2>1, <2>2, <2>3 DEF UpdatesInv, BatchFollows, SeenWereHandled, HandledWereSeen, HandledInOrder
    <2>5. QED BY <1>1, <2>4 DEF UpdatesInv
  <1>4. CASE Crash \/ CrashInSave
    <2>1. Down
      BY <1>4 DEF Crash, CrashInSave
    <2>2. ~up' /\ batch' = <<>> /\ offset' = 0 /\ now' = Undecided /\ UNCHANGED <<confirmed, life, handled>>
      BY <2>1 DEF Down
    <2>3. Todo' = confirmed /\ confirmed <= Todo /\ confirmed \in Nat /\ Todo \in Nat
      BY <1>1, <2>2, TodoFacts DEF TypeOK, Confirms, Todo
    <2>4. BatchFollows'
      BY <2>2 DEF BatchFollows
    <2>5. SeenWereHandled'
      BY <2>2, <2>3 DEF UpdatesInv, SeenWereHandled
    <2>6. HandledWereSeen' /\ HandledInOrder'
      BY <2>2 DEF UpdatesInv, HandledWereSeen, HandledInOrder
    <2>7. QED BY <1>1, <2>4, <2>5, <2>6 DEF UpdatesInv
  <1>5. CASE Boot
    <2>1. life' = life + 1 /\ UNCHANGED <<confirmed, offset, batch, now, handled>>
      BY <1>5 DEF Boot
    <2>2. Todo' = Todo /\ batch = <<>> /\ now = Undecided
      BY <1>1, <1>5, <2>1 DEF Boot, Confirms, UpdatesInv, BatchFollows, Todo, TypeOK
    <2>3. ASSUME NEW i \in DOMAIN handled
          PROVE  handled[i].life <= life + 1 /\ handled[i].life # life + 1
      <3>1. handled[i] \in Handled
        BY DEF UpdatesInv, TypeOK
      <3>2. handled[i].life \in Nat /\ life \in Nat /\ handled[i].life <= life
        BY <3>1 DEF TypeOK, Handled, UpdatesInv, HandledWereSeen
      <3>3. QED BY <3>2
    <2>4. BatchFollows'
      BY <1>5, <2>1, <2>2 DEF Boot, BatchFollows
    <2>5. SeenWereHandled' /\ HandledInOrder'
      BY <2>1, <2>2 DEF UpdatesInv, SeenWereHandled, HandledInOrder
    <2>6. HandledWereSeen'
      <3>1. \A i \in DOMAIN handled :
                /\ handled[i].life <= life + 1
                /\ up' /\ handled[i].life = life + 1 => handled[i].id < Todo
        BY <2>3
      <3>2. \A i \in DOMAIN handled' :
                /\ handled'[i].life <= life'
                /\ up' /\ handled'[i].life = life' => handled'[i].id < Todo'
        BY <2>1, <2>2, <3>1, Zenon
      <3>3. QED BY <3>2 DEF HandledWereSeen
    <2>7. QED BY <1>1, <2>4, <2>5, <2>6 DEF UpdatesInv
  <1>6. CASE Send \/ CliLoad \/ CliSaveBack \/ CliApprove \/ CliLeave \/ CliDies \/ UNCHANGED vars
    <2>1. UNCHANGED <<confirmed, life, up, offset, batch, now, handled>>
      BY <1>6 DEF Send, CliLoad, CliSaveBack, CliApprove, CliLeave, CliDies, vars, bot
    <2>2. Todo' = Todo
      BY <2>1 DEF Confirms, Todo
    <2>3. BatchFollows' /\ SeenWereHandled' /\ HandledWereSeen' /\ HandledInOrder'
      BY <2>1, <2>2 DEF UpdatesInv, BatchFollows, SeenWereHandled, HandledWereSeen, HandledInOrder
    <2>4. QED BY <1>1, <2>3 DEF UpdatesInv
  <1>7. QED
    BY <1>2, <1>3, <1>4, <1>5, <1>6 DEF Next

LEMMA UpdatesAlways == Spec => []UpdatesInv
  <1>1. QED BY InitUpdates, NextUpdates, PTL DEF Spec

\* What the server has forgotten was handled: a crash in the middle of a batch
\* loses no update (TelegramBot::loop).
THEOREM NoUpdateLost == Spec => []ConfirmedWereHandled
  <1>1. UpdatesInv => ConfirmedWereHandled
    <2> SUFFICES ASSUME UpdatesInv, NEW id \in 1 .. confirmed - 1
                 PROVE  \E i \in DOMAIN handled : handled[i].id = id
      BY DEF ConfirmedWereHandled
    <2>1. id \in Nat \ {0} /\ id < Todo
      BY TodoFacts
    <2>2. QED BY <2>1 DEF UpdatesInv, SeenWereHandled
  <1>2. QED BY <1>1, UpdatesAlways, PTL

\* A gateway handles no update twice, and handles them in the order in which
\* they were sent (TelegramBot::loop).
THEOREM OncePerLifeInOrder == Spec => []HandledInOrder
  <1>1. UpdatesInv => HandledInOrder
    BY DEF UpdatesInv
  <1>2. QED BY <1>1, UpdatesAlways, PTL
-----------------------------------------------------------------------------
(* Pairing: nobody gets in unapproved                                      *)

EntriesOf(reqs) == {reqs[i] : i \in DOMAIN reqs}

\* Every copy of the requests: the gateway's, the file's and the command's.
Entries == EntriesOf(requests) \cup EntriesOf(file) \cup EntriesOf(cli.requests)

\* However the copies overwrite each other, a code belongs to one user in all of
\* them, since codes are drawn once; so that approving a code approves one user.
EntriesInv ==
    /\ TypeOK
    /\ \A a, b \in Entries : a.code = b.code => a.user = b.user
    /\ \A a \in Entries : a.code <= codes /\ (a.approved => a.user \in approved)
    /\ \A i \in DOMAIN handled : handled[i].id \in DOMAIN updates
    /\ AdmittedWereApproved

LEMMA EntriesOfType ==
    ASSUME NEW reqs \in Seq(Request)
    PROVE  EntriesOf(reqs) \subseteq Request
  BY DEF EntriesOf

LEMMA EntriesType ==
    ASSUME TypeOK
    PROVE  Entries \subseteq Request
  BY EntriesOfType DEF Entries, TypeOK

LEMMA EnsurePendingEntries ==
    ASSUME NEW reqs \in Seq(Request), NEW u, NEW code
    PROVE  /\ EntriesOf(EnsurePending(reqs, u, code)) \subseteq
                 EntriesOf(reqs) \cup {[code |-> code, user |-> u, approved |-> FALSE]}
           /\ Len(EnsurePending(reqs, u, code)) = Len(reqs) =>
                 EntriesOf(EnsurePending(reqs, u, code)) = EntriesOf(reqs)
           /\ Len(EnsurePending(reqs, u, code)) # Len(reqs) =>
                 Len(EnsurePending(reqs, u, code)) = Len(reqs) + 1
  <1>1. CASE \E i \in DOMAIN reqs : reqs[i].user = u /\ ~reqs[i].approved
    BY <1>1 DEF EnsurePending
  <1>2. CASE ~\E i \in DOMAIN reqs : reqs[i].user = u /\ ~reqs[i].approved
    <2> DEFINE new == [code |-> code, user |-> u, approved |-> FALSE]
    <2>1. EnsurePending(reqs, u, code) = Append(reqs, new)
      BY <1>2 DEF EnsurePending
    <2>2. Len(Append(reqs, new)) = Len(reqs) + 1 /\ Len(reqs) \in Nat
          /\ DOMAIN Append(reqs, new) = 1 .. Len(reqs) + 1
          /\ \A i \in 1 .. Len(reqs) : Append(reqs, new)[i] = reqs[i]
          /\ Append(reqs, new)[Len(reqs) + 1] = new
      OBVIOUS
    <2>3. DOMAIN reqs = 1 .. Len(reqs)
      OBVIOUS
    <2>4. EntriesOf(Append(reqs, new)) \subseteq EntriesOf(reqs) \cup {new}
      BY <2>2, <2>3 DEF EntriesOf
    <2>5. Len(Append(reqs, new)) # Len(reqs) /\ Len(Append(reqs, new)) = Len(reqs) + 1
      BY <2>2
    <2>6. QED BY <2>1, <2>4, <2>5, Zenon
  <1>3. QED BY <1>1, <1>2

LEMMA ApproveByCodeEntries ==
    ASSUME NEW reqs \in Seq(Request), NEW code, NEW e \in EntriesOf(ApproveByCode(reqs, code))
    PROVE  \/ e \in EntriesOf(reqs)
           \/ \E a \in EntriesOf(reqs) :
                 e.code = a.code /\ e.user = a.user /\ a.code = code
  <1>1. PICK i \in DOMAIN reqs : e = ApproveByCode(reqs, code)[i]
    BY DEF EntriesOf, ApproveByCode
  <1>2. reqs[i] \in Request /\ reqs[i] \in EntriesOf(reqs)
    BY DEF EntriesOf
  <1>3. e = reqs[i] \/ (e = [reqs[i] EXCEPT !.approved = TRUE] /\ reqs[i].code = code)
    BY <1>1 DEF ApproveByCode
  <1>4. QED BY <1>2, <1>3 DEF Request

\* A step after which every copy holds old requests, requests of old codes that
\* are approved with cause, and at most one request with a new code.
LEMMA EntriesStep ==
    ASSUME EntriesInv, TypeOK', codes <= codes', approved \subseteq approved',
           NEW new, codes < new.code, ~new.approved,
           \A e \in Entries' :
               \/ e \in Entries
               \/ e = new /\ new.code <= codes'
               \/ \E a \in Entries : e.code = a.code /\ e.user = a.user /\ a.user \in approved'
    PROVE  /\ (\A a, b \in Entries : a.code = b.code => a.user = b.user)'
           /\ (\A a \in Entries : a.code <= codes /\ (a.approved => a.user \in approved))'
  <1>1. ASSUME NEW e \in Entries'
        PROVE  \/ e = new /\ new.code <= codes'
               \/ \E a \in Entries : /\ e.code = a.code /\ e.user = a.user
                                     /\ e.approved => e.user \in approved'
    BY DEF EntriesInv
  <1>2. ASSUME NEW a \in Entries PROVE a.code \in Int /\ a.code <= codes /\ a.code # new.code
    <2>1. a \in Request /\ codes \in Int
      <3>1. TypeOK
        BY DEF EntriesInv
      <3>2. a \in Request
        BY <3>1, EntriesType
      <3>3. QED BY <3>1, <3>2 DEF TypeOK
    <2>2. a.code \in Int
      BY <2>1 DEF Request
    <2>3. a.code <= codes
      BY DEF EntriesInv
    <2>4. QED BY <2>1, <2>2, <2>3
  <1>3. ASSUME NEW a \in Entries', NEW b \in Entries', a.code = b.code
        PROVE  a.user = b.user
    BY <1>1, <1>2, <1>3 DEF EntriesInv
  <1>4. PICK c \in Nat : c = codes' /\ codes <= c
    BY DEF TypeOK
  <1>5. ASSUME NEW a \in Entries'
        PROVE  a.code <= c /\ (a.approved => a.user \in approved')
    <2>1. CASE a = new /\ new.code <= codes'
      BY <1>4, <2>1
    <2>2. CASE ~(a = new /\ new.code <= codes')
      <3>1. PICK b \in Entries : /\ a.code = b.code /\ a.user = b.user
                                 /\ a.approved => a.user \in approved'
        BY <1>1, <2>2
      <3>2. codes \in Int
        BY DEF EntriesInv, TypeOK
      <3>3. QED BY <1>2, <1>4, <3>1, <3>2
    <2>3. QED BY <2>1, <2>2
  <1>6. QED BY <1>3, <1>4, <1>5

LEMMA InitEntries == Init => EntriesInv
  BY InitTypeOK DEF Init, EntriesInv, Entries, EntriesOf, NoCommand, AdmittedWereApproved, Undecided

\* The end of a handling leaves the requests alone.
LEMMA DoneEntries ==
    ASSUME EntriesInv, TypeOK', batch # <<>>, NEW outcome, Done(outcome),
           outcome = "admitted" => Sender \in approved,
           UNCHANGED <<updates, approved, requests, file, codes, cli>>
    PROVE  EntriesInv'
  <1>1. Entries' = Entries
    BY DEF Entries
  <1>2. handled \in Seq(Handled) /\ Head(batch) \in DOMAIN updates
    <2>1. TypeOK
      BY DEF EntriesInv
    <2>2. QED BY <2>1, OffsetPastType DEF TypeOK
  <1>3. now' = Undecided
        /\ handled' = Append(handled, [id |-> Head(batch), life |-> life, outcome |-> outcome])
    BY DEF Done
  <1>4. ASSUME NEW i \in DOMAIN handled'
        PROVE  /\ handled'[i].id \in DOMAIN updates
               /\ handled'[i].outcome = "admitted" => updates[handled'[i].id].user \in approved
    <2>1. CASE i \in DOMAIN handled
      <3>1. handled'[i] = handled[i]
        BY <1>2, <1>3, <2>1
      <3>2. QED BY <2>1, <3>1 DEF EntriesInv, AdmittedWereApproved
    <2>2. CASE i \notin DOMAIN handled
      <3>1. handled'[i] = [id |-> Head(batch), life |-> life, outcome |-> outcome]
        BY <1>2, <1>3, <1>4, <2>2
      <3>2. QED BY <1>2, <3>1 DEF Sender
    <2>3. QED BY <2>1, <2>2
  <1>5. AdmittedWereApproved'
    BY <1>3, <1>4 DEF AdmittedWereApproved, Undecided
  <1>6. QED BY <1>1, <1>4, <1>5 DEF EntriesInv

\* A stranger adds at most one request, with a code of its own.
LEMMA RefuseEntries ==
    ASSUME EntriesInv, TypeOK', batch # <<>>, Refuse, UNCHANGED <<updates, cli, approved>>
    PROVE  EntriesInv'
  <1> DEFINE new == [code |-> codes + 1, user |-> Sender, approved |-> FALSE]
             reqs == EnsurePending(requests, Sender, codes + 1)
  <1>1. requests \in Seq(Request) /\ Len(requests) \in Nat /\ codes \in Nat
    <2>1. TypeOK
      BY DEF EntriesInv
    <2>2. QED BY <2>1 DEF TypeOK
  <1>2. \/ UNCHANGED pairs
        \/ requests' = reqs /\ file' = reqs /\ codes' = codes + Len(reqs) - Len(requests)
    BY DEF Refuse
  <1>3. \/ Entries' \subseteq Entries /\ codes' = codes
        \/ Entries' \subseteq Entries \cup {new} /\ codes' = codes + 1
    <2>1. CASE UNCHANGED pairs
      BY <2>1 DEF pairs, Entries
    <2>2. CASE ~UNCHANGED pairs
      <3>1. requests' = reqs /\ file' = reqs /\ codes' = codes + Len(reqs) - Len(requests)
        BY <1>2, <2>2
      <3>2. Entries' \subseteq Entries \cup EntriesOf(reqs)
        BY <3>1 DEF Entries
      <3>3. EntriesOf(requests) \subseteq Entries
        BY DEF Entries
      <3>4. /\ EntriesOf(reqs) \subseteq EntriesOf(requests) \cup {new}
            /\ Len(reqs) = Len(requests) => EntriesOf(reqs) = EntriesOf(requests)
            /\ Len(reqs) # Len(requests) => Len(reqs) = Len(requests) + 1
        BY <1>1, EnsurePendingEntries
      <3>5. CASE Len(reqs) = Len(requests)
        <4>1. codes + Len(reqs) - Len(requests) = codes
          BY <1>1, <3>5
        <4>2. QED BY <3>1, <3>2, <3>3, <3>4, <3>5, <4>1
      <3>6. CASE Len(reqs) = Len(requests) + 1
        <4>1. codes + Len(reqs) - Len(requests) = codes + 1
          BY <1>1, <3>6
        <4>2. QED BY <3>1, <3>2, <3>3, <3>4, <4>1
      <3>7. QED BY <3>4, <3>5, <3>6
    <2>3. QED BY <2>1, <2>2
  <1>4. now' # "admitted" /\ UNCHANGED handled
    BY DEF Refuse
  <1>5. AdmittedWereApproved' /\ \A i \in DOMAIN handled' : handled'[i].id \in DOMAIN updates'
    <2>1. \A i \in DOMAIN handled : handled[i].outcome = "admitted" =>
              updates[handled[i].id].user \in approved
      BY DEF EntriesInv, AdmittedWereApproved
    <2>2. QED BY <1>4, <2>1 DEF EntriesInv, AdmittedWereApproved, Sender
  <1>6. CASE Entries' \subseteq Entries /\ codes' = codes
    BY <1>5, <1>6 DEF EntriesInv
  <1>7. CASE Entries' \subseteq Entries \cup {new} /\ codes' = codes + 1
    <2>1. codes < new.code /\ ~new.approved /\ codes <= codes' /\ new.code <= codes'
      BY <1>1, <1>7
    <2>2. approved \subseteq approved'
          /\ \A e \in Entries' : e \in Entries \/ (e = new /\ new.code <= codes')
      BY <1>7, <2>1
    <2>3. /\ (\A a, b \in Entries : a.code = b.code => a.user = b.user)'
          /\ (\A a \in Entries : a.code <= codes /\ (a.approved => a.user \in approved))'
      BY <2>1, <2>2, EntriesStep
    <2>4. QED BY <1>5, <2>3 DEF EntriesInv
  <1>8. QED BY <1>3, <1>6, <1>7

\* The copies are only copied, approved or extended.
LEMMA NextEntries == DmPolicy = "pairing" /\ EntriesInv /\ [Next]_vars => EntriesInv'
  <1> SUFFICES ASSUME DmPolicy = "pairing", EntriesInv, [Next]_vars PROVE EntriesInv'
    OBVIOUS
  <1> DEFINE some == [code |-> codes + 1, user |-> <<>>, approved |-> FALSE]
  <1>1. TypeOK
    BY DEF EntriesInv
  <1>2. TypeOK'
    BY <1>1, NextTypeOK
  <1>3. codes < some.code /\ ~some.approved /\ codes <= codes
    BY <1>1 DEF TypeOK
  <1>4. ASSUME UNCHANGED <<codes, approved, updates, handled>>, Entries' \subseteq Entries,
               now' = "admitted" => Sender' \in approved
        PROVE  EntriesInv'
    <2>1. AdmittedWereApproved'
      BY <1>4 DEF EntriesInv, AdmittedWereApproved
    <2>2. QED BY <1>2, <1>4, <2>1 DEF EntriesInv
  <1>5. CASE Handle
    <2>1. Head(batch) \in DOMAIN updates /\ codes \in Nat /\ UNCHANGED <<updates, cli, approved>>
          /\ batch # <<>>
      BY <1>1, <1>5, OffsetPastType DEF Handle, TypeOK
    <2>2. CASE Skip
      <3>1. Done("skipped") /\ UNCHANGED <<requests, file, codes>>
        BY <2>2 DEF Skip, pairs
      <3>2. QED BY <1>2, <2>1, <3>1, DoneEntries
    <2>3. CASE Admit
      <3>1. Allowed(Sender) /\ UNCHANGED <<requests, file, codes, batch, handled>>
        BY <2>3 DEF Admit, pairs
      <3>2. PICK j \in DOMAIN requests : requests[j].user = Sender /\ requests[j].approved
        BY <3>1 DEF Allowed, IsApproved
      <3>3. requests[j] \in Entries
        BY DEF Entries, EntriesOf
      <3>4. Sender \in approved /\ Sender' = Sender
        BY <2>1, <3>1, <3>2, <3>3 DEF EntriesInv, Sender
      <3>5. Entries' \subseteq Entries
        BY <2>1, <3>1 DEF Entries
      <3>6. QED BY <1>4, <2>1, <3>1, <3>4, <3>5
    <2>4. CASE Refuse
      BY <1>1, <1>2, <2>1, <2>4, RefuseEntries
    <2>5. QED BY <1>5, <2>2, <2>3, <2>4 DEF Handle
  <1>5a. CASE Reply
    <2>1. batch # <<>> /\ Done(now) /\ UNCHANGED <<updates, approved, requests, file, codes, cli>>
      BY <1>1, <1>5a DEF Reply, TypeOK, pairs
    <2>2. now = "admitted" => Sender \in approved
      BY DEF EntriesInv, AdmittedWereApproved
    <2>3. QED BY <1>2, <2>1, <2>2, DoneEntries
  <1>6. CASE CliApprove
    <2>1. PICK i \in DOMAIN cli.requests :
              /\ file' = ApproveByCode(cli.requests, cli.requests[i].code)
              /\ approved' = approved \cup {cli.requests[i].user}
      BY <1>6 DEF CliApprove
    <2>2. cli.requests \in Seq(Request)
      BY <1>1 DEF TypeOK
    <2>3. cli' = NoCommand /\ UNCHANGED <<updates, batch, now, requests, codes, handled>>
      BY <1>6 DEF CliApprove, bot
    <2>4. EntriesOf(cli.requests) \subseteq Entries /\ EntriesOf(NoCommand.requests) = {}
          /\ cli.requests[i] \in Entries
      BY <2>1 DEF Entries, EntriesOf, NoCommand
    <2>5. ASSUME NEW e \in Entries'
          PROVE  \/ e \in Entries
                 \/ \E a \in Entries : e.code = a.code /\ e.user = a.user /\ a.user \in approved'
      <3>1. CASE e \in EntriesOf(requests)
        BY <3>1 DEF Entries
      <3>2. CASE e \in EntriesOf(ApproveByCode(cli.requests, cli.requests[i].code))
        <4>1. \/ e \in EntriesOf(cli.requests)
              \/ \E a \in EntriesOf(cli.requests) :
                    e.code = a.code /\ e.user = a.user /\ a.code = cli.requests[i].code
          BY <2>2, <3>2, ApproveByCodeEntries
        <4>2. \A a \in EntriesOf(cli.requests) :
                  a.code = cli.requests[i].code => a.user \in approved'
          BY <2>1, <2>4 DEF EntriesInv
        <4>3. QED BY <2>4, <4>1, <4>2
      <3>3. QED BY <2>1, <2>3, <2>4, <2>5, <3>1, <3>2 DEF Entries
    <2>6. AdmittedWereApproved'
      BY <2>1, <2>3 DEF EntriesInv, AdmittedWereApproved, Sender
    <2>7. codes <= codes' /\ approved \subseteq approved'
      BY <1>3, <2>1, <2>3
    <2>8. \A n \in DOMAIN handled' : handled'[n].id \in DOMAIN updates'
      BY <2>3 DEF EntriesInv
    <2>9. /\ (\A a, b \in Entries : a.code = b.code => a.user = b.user)'
          /\ (\A a \in Entries : a.code <= codes /\ (a.approved => a.user \in approved))'
      BY <1>2, <1>3, <2>5, <2>7, EntriesStep
    <2>10. QED BY <1>2, <2>6, <2>8, <2>9 DEF EntriesInv
  <1>7. CASE Send
    <2>1. PICK update \in Update : updates' = Append(updates, update)
      BY <1>7 DEF Send
    <2>2. UNCHANGED <<batch, now, requests, file, codes, cli, handled, approved>> /\ updates \in Seq(Update)
      BY <1>1, <1>7 DEF Send, bot, pairs, TypeOK
    <2>3. Entries' = Entries
      BY <2>2 DEF Entries
    <2>4. \A id \in DOMAIN updates : id \in DOMAIN updates' /\ updates'[id] = updates[id]
      BY <2>1, <2>2
    <2>4a. now = "admitted" => Head(batch) \in DOMAIN updates
      BY <1>1, OffsetPastType DEF TypeOK, Undecided
    <2>5. AdmittedWereApproved' /\ \A i \in DOMAIN handled' : handled'[i].id \in DOMAIN updates'
      BY <2>2, <2>4, <2>4a DEF EntriesInv, AdmittedWereApproved, Sender
    <2>6. QED BY <1>2, <2>2, <2>3, <2>5 DEF EntriesInv
  <1>8. CASE Crash \/ CrashInSave
    <2>1. UNCHANGED <<codes, approved, updates, handled>> /\ now' # "admitted"
      BY <1>8 DEF Crash, CrashInSave, Down, Undecided
    <2>2. Entries' \subseteq Entries
      BY <1>8 DEF Crash, CrashInSave, Down, Entries, EntriesOf
    <2>3. QED BY <1>4, <2>1, <2>2
  <1>8a. CASE Boot
    <2>1. UNCHANGED <<codes, approved, updates, handled, batch, now, cli>>
          /\ requests' \in {file, <<>>} /\ file' = requests'
      BY <1>1, <1>8a, ReadType DEF Boot
    <2>2. EntriesOf(requests') \subseteq EntriesOf(file)
      BY <2>1 DEF EntriesOf
    <2>3. Entries' \subseteq Entries
      BY <2>1, <2>2 DEF Entries
    <2>4. now' = "admitted" => Sender' \in approved
      BY <2>1 DEF EntriesInv, AdmittedWereApproved, Sender
    <2>5. QED BY <1>4, <2>1, <2>3, <2>4
  <1>9. CASE CliLoad \/ CliSaveBack \/ CliLeave \/ CliDies
    <2>1. UNCHANGED <<codes, approved, updates, handled, batch, now>>
      BY <1>9 DEF CliLoad, CliSaveBack, CliLeave, CliDies, pairs, bot
    <2>2. Entries' \subseteq Entries
      <3>1. CASE CliLoad
        <4>1. PICK read \in {file, <<>>} : cli' = [at |-> "loaded", requests |-> read]
          BY <1>1, <3>1, ReadType DEF CliLoad, TypeOK
        <4>2. EntriesOf(cli'.requests) \subseteq EntriesOf(file)
          BY <4>1 DEF EntriesOf
        <4>3. QED BY <3>1, <4>2 DEF CliLoad, pairs, Entries
      <3>2. CASE CliSaveBack
        BY <1>1, <3>2 DEF CliSaveBack, Entries, TypeOK
      <3>3. CASE CliLeave
        BY <3>3 DEF CliLeave, pairs, Entries, EntriesOf, NoCommand
      <3>4. CASE CliDies
        BY <3>4 DEF CliDies, Entries, EntriesOf, NoCommand
      <3>5. QED BY <1>9, <3>1, <3>2, <3>3, <3>4
    <2>3. now' = "admitted" => Sender' \in approved
      BY <2>1 DEF EntriesInv, AdmittedWereApproved, Sender
    <2>4. QED BY <1>4, <2>1, <2>2, <2>3
  <1>10. CASE Poll \/ UNCHANGED vars
    <2>1. UNCHANGED <<codes, approved, updates, handled, requests, file, cli, now>>
      BY <1>10 DEF Poll, pairs, vars, bot
    <2>2. Entries' = Entries
      BY <2>1 DEF Entries
    <2>3. now' = "admitted" => batch' = batch
      BY <1>1, <1>10, <2>1 DEF Poll, vars, bot, TypeOK, Undecided
    <2>4. now' = "admitted" => Sender' \in approved
      BY <2>1, <2>3 DEF EntriesInv, AdmittedWereApproved, Sender
    <2>5. QED BY <1>4, <2>1, <2>2, <2>4
  <1>11. QED
    BY <1>5, <1>5a, <1>6, <1>7, <1>8, <1>8a, <1>9, <1>10 DEF Next

\* Under the pairing policy only users whose code a pairing command approved get
\* in, however gateway and command overwrite each other's file
\* (TelegramBot::allowedUser, TelegramPairingStore::approveByCode).
THEOREM OnlyApprovedGetIn == DmPolicy = "pairing" => (Spec => []AdmittedWereApproved)
  <1> SUFFICES ASSUME DmPolicy = "pairing" PROVE Spec => []AdmittedWereApproved
    OBVIOUS
  <1>1. EntriesInv /\ [Next]_vars => EntriesInv'
    BY NextEntries
  <1>2. EntriesInv => AdmittedWereApproved
    BY DEF EntriesInv
  <1>3. QED BY <1>1, <1>2, InitEntries, PTL DEF Spec
==============================================================================

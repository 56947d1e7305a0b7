-------------------------- MODULE TelegramPairing --------------------------
(***************************************************************************)
(* The Telegram channel (src/channels/TelegramBot.cpp) and the pairing     *)
(* store (src/channels/TelegramPairingStore.cpp).                          *)
(*                                                                         *)
(* One thread of the gateway polls getUpdates and works off each batch in  *)
(* order.  The offset it asks with is only in memory; asking with it is    *)
(* what confirms the updates before it to Telegram's server, which         *)
(* redelivers the others.  Handling an update ends with a call of the      *)
(* model and of sendMessage on that thread, which have no time limit.      *)
(*                                                                         *)
(* The pairing requests are in memory and in pairing.json, which the       *)
(* gateway and every `nexaclaw pairing` command (src/main.cpp) read whole  *)
(* and write whole, without a lock between them: either may read a file    *)
(* that the other is in the middle of writing.  A write succeeds unless    *)
(* its process dies in it.                                                 *)
(*                                                                         *)
(* A pairing code is a number, so that two requests never share one (the   *)
(* code draws six of 32 letters); names and time stamps are left out.      *)
(***************************************************************************)
EXTENDS Integers, FiniteSets, Sequences

CONSTANTS
    Users,       \* Telegram users
    DmPolicy,    \* config.telegram.dmPolicy
    AllowFrom,   \* config.telegram.allowFrom
    MaxUpdates,  \* bound of the model: updates the users send
    MaxLives,    \* bound of the model: starts of the gateway
    MaxCli       \* bound of the model: pairing commands

ASSUME TelegramAssumption ==
    /\ AllowFrom \subseteq Users
    /\ MaxUpdates \in Nat /\ MaxLives \in Nat \ {0} /\ MaxCli \in Nat

VARIABLES
    updates,    \* updates[i]: who sent the update i, and whether it has a text
    confirmed,  \* the server: updates with a smaller id are gone
    life,       \* starts of the gateway so far
    up,         \* the gateway runs
    offset,     \* offset_ of the bot
    batch,      \* the updates of the last answer that are not yet handled
    now,        \* what becomes of the first one, once allowedUser has decided
    requests,   \* requests_ of the gateway's store
    file,       \* pairing.json; a file that does not parse counts as empty
    codes,      \* pairing codes drawn so far
    cli,        \* the pairing command that runs: its requests_ and its place
    commands,   \* pairing commands so far
    handled,    \* history: what the bot did with updates, in order
    approved    \* history: users whose code a command has approved

bot   == <<life, up, offset, batch, now>>
pairs == <<requests, file, codes>>
vars  == <<updates, confirmed, bot, pairs, cli, commands, handled, approved>>

Update   == [user : Users, text : BOOLEAN]
Request  == [code : Nat \ {0}, user : Users, approved : BOOLEAN]
Outcomes == {"skipped", "admitted", "refused"}
Undecided == "undecided"
Handled  == [id : Nat \ {0}, life : Nat \ {0}, outcome : Outcomes]
NoCommand == [at |-> "idle", requests |-> <<>>]

TypeOK ==
    /\ updates \in Seq(Update) /\ Len(updates) <= MaxUpdates
    /\ confirmed \in 1 .. Len(updates) + 1 /\ offset \in 0 .. Len(updates) + 1
    /\ life \in 1 .. MaxLives /\ up \in BOOLEAN /\ commands \in 0 .. MaxCli
    /\ batch \in Seq(DOMAIN updates)
    /\ now \in {"admitted", "refused", Undecided} /\ (now # Undecided => batch # <<>>)
    /\ requests \in Seq(Request) /\ file \in Seq(Request) /\ codes \in Nat
    /\ cli \in [at : {"idle", "loaded", "ready"}, requests : Seq(Request)]
    /\ handled \in Seq(Handled) /\ approved \subseteq Users
-----------------------------------------------------------------------------
\* A variant that takes a pending request for an approval.
IsApprovedPending(reqs, u) == \E i \in DOMAIN reqs : reqs[i].user = u

\* isApproved(u).
IsApproved(reqs, u) == \E i \in DOMAIN reqs : reqs[i].user = u /\ reqs[i].approved

\* ensurePending(u): the requests afterwards.
EnsurePending(reqs, u, code) ==
    IF \E i \in DOMAIN reqs : reqs[i].user = u /\ ~reqs[i].approved THEN reqs
    ELSE Append(reqs, [code |-> code, user |-> u, approved |-> FALSE])

\* approveByCode(code): the first request with the code.
ApproveByCode(reqs, code) ==
    [i \in DOMAIN reqs |->
        IF reqs[i].code = code /\ \A j \in 1 .. i - 1 : reqs[j].code # code
        THEN [reqs[i] EXCEPT !.approved = TRUE] ELSE reqs[i]]

\* allowedUser(u): the policy, with the pairing store behind it.
Allowed(u) ==
    \/ DmPolicy = "open"
    \/ DmPolicy = "allowlist" /\ u \in AllowFrom
    \/ DmPolicy = "pairing" /\ IsApproved(requests, u)
-----------------------------------------------------------------------------
\* A user writes to the bot; not every update has a text.
Send ==
    /\ Len(updates) < MaxUpdates
    /\ \E update \in Update : updates' = Append(updates, update)
    /\ UNCHANGED <<confirmed, bot, pairs, cli, commands, handled, approved>>

\* A variant in which asking confirms the update after the offset too.
ConfirmsNext(o) == IF o < confirmed THEN confirmed ELSE IF o <= Len(updates) THEN o + 1 ELSE o

\* What asking with the offset o confirms.
Confirms(o) == IF o < confirmed THEN confirmed ELSE o

\* getUpdates(offset): some first part of what the server has, or, when the
\* answer is lost, nothing.
Poll ==
    /\ up /\ batch = <<>>
    /\ confirmed' = Confirms(offset)
    /\ \E n \in confirmed' - 1 .. Len(updates) :
          batch' = [i \in 1 .. n - confirmed' + 1 |-> confirmed' + i - 1]
    /\ UNCHANGED <<updates, life, up, offset, now, pairs, cli, commands, handled, approved>>

\* A variant that leaves the offset where it is.
OffsetPastNever(id) == offset

\* A variant that steps over the next update.
OffsetPastNext(id) == IF id >= offset THEN id + 2 ELSE offset

\* The offset once the update id has been seen.
OffsetPast(id) == IF id >= offset THEN id + 1 ELSE offset

\* The first update of the batch is done with.
Done(outcome) ==
    /\ handled' = Append(handled, [id |-> Head(batch), life |-> life, outcome |-> outcome])
    /\ batch' = Tail(batch) /\ now' = Undecided

\* Who wrote the first update of the batch.
Sender == updates[Head(batch)].user

\* The loop comes to an update: one without a text is skipped.
Skip ==
    /\ ~updates[Head(batch)].text
    /\ Done("skipped")
    /\ UNCHANGED pairs

\* allowedUser lets the sender in.
Admit ==
    /\ updates[Head(batch)].text /\ Allowed(Sender)
    /\ now' = "admitted"
    /\ UNCHANGED <<pairs, batch, handled>>

\* A stranger who writes under the pairing policy becomes a pending request,
\* in memory and in the file.
Refuse ==
    /\ updates[Head(batch)].text /\ ~Allowed(Sender)
    /\ now' = "refused"
    /\ IF DmPolicy = "pairing"
       THEN /\ requests' = EnsurePending(requests, Sender, codes + 1)
            /\ codes' = codes + Len(requests') - Len(requests)
            /\ file' = requests'
       ELSE UNCHANGED pairs
    /\ UNCHANGED <<batch, handled>>

Handle ==
    /\ up /\ batch # <<>> /\ now = Undecided
    /\ offset' = OffsetPast(Head(batch))
    /\ Skip \/ Admit \/ Refuse
    /\ UNCHANGED <<updates, confirmed, life, up, cli, commands, approved>>

\* The model has answered and the reply, or the reason of the refusal, is
\* sent or has failed to be.  The curls behind both may never end.
Reply ==
    /\ up /\ now # Undecided
    /\ Done(now)
    /\ UNCHANGED <<updates, confirmed, life, up, offset, pairs, cli, commands, approved>>

\* The gateway dies, or is stopped once the batch is done.
Down ==
    /\ up /\ up' = FALSE
    /\ offset' = 0 /\ batch' = <<>> /\ now' = Undecided /\ requests' = <<>>
    /\ UNCHANGED <<updates, confirmed, life, codes, cli, commands, handled, approved>>

Crash == Down /\ UNCHANGED file

\* It dies while ensurePending, or init before the first update, rewrites the
\* file.
CrashInSave ==
    /\ Down
    /\ now = Undecided
    /\ \/ offset = 0 /\ batch = <<>>
       \/ /\ batch # <<>> /\ DmPolicy = "pairing"
          /\ updates[Head(batch)].text /\ ~Allowed(Sender)
    /\ file' = <<>>

\* What a process reads from pairing.json: a file that another one, which runs
\* or not, is in the middle of writing does not parse.
Read(other) == IF other THEN {file, <<>>} ELSE {file}

\* init loads the file and writes back what it has read; the bot starts at
\* offset 0.
Boot ==
    /\ ~up /\ life < MaxLives
    /\ up' = TRUE /\ life' = life + 1
    /\ requests' \in Read(cli.at # "idle") /\ file' = requests'
    /\ UNCHANGED <<updates, confirmed, offset, batch, now, codes, cli, commands, handled, approved>>
-----------------------------------------------------------------------------
\* A pairing command: its store's init loads the file ...
CliLoad ==
    /\ cli.at = "idle" /\ commands < MaxCli
    /\ \E read \in Read(up) : cli' = [at |-> "loaded", requests |-> read]
    /\ commands' = commands + 1
    /\ UNCHANGED <<updates, confirmed, bot, pairs, handled, approved>>

\* ... and writes back what it has read.
CliSaveBack ==
    /\ cli.at = "loaded"
    /\ file' = cli.requests
    /\ cli' = [cli EXCEPT !.at = "ready"]
    /\ UNCHANGED <<updates, confirmed, bot, requests, codes, commands, handled, approved>>

\* `pairing approve` writes its copy with the approval.
CliApprove ==
    /\ cli.at = "ready"
    /\ \E i \in DOMAIN cli.requests :
          /\ file' = ApproveByCode(cli.requests, cli.requests[i].code)
          /\ approved' = approved \cup {cli.requests[i].user}
    /\ cli' = NoCommand
    /\ UNCHANGED <<updates, confirmed, bot, requests, codes, commands, handled>>

\* `pairing list`, or a code that is not there.
CliLeave ==
    /\ cli.at = "ready"
    /\ cli' = NoCommand
    /\ UNCHANGED <<updates, confirmed, bot, pairs, commands, handled, approved>>

\* The command is killed in one of its two writes.
CliDies ==
    /\ cli.at # "idle"
    /\ cli' = NoCommand /\ file' = <<>>
    /\ UNCHANGED <<updates, confirmed, bot, requests, codes, commands, handled, approved>>
-----------------------------------------------------------------------------
Init ==
    /\ updates = <<>> /\ confirmed = 1 /\ life = 1 /\ up = TRUE
    /\ offset = 0 /\ batch = <<>> /\ now = Undecided
    /\ requests = <<>> /\ file = <<>> /\ codes = 0
    /\ cli = NoCommand /\ commands = 0 /\ handled = <<>> /\ approved = {}

Next ==
    \/ Send \/ Poll \/ Handle \/ Reply \/ Crash \/ CrashInSave \/ Boot
    \/ CliLoad \/ CliSaveBack \/ CliApprove \/ CliLeave \/ CliDies

Spec == Init /\ [][Next]_vars

\* The bot's thread runs; a gateway that is down is started again.  The server
\* answers: a poll that can bring a new update does so in the end.  Nothing is
\* assumed of Reply.
Fairness == WF_vars(Handle) /\ WF_vars(Boot) /\ SF_vars(Poll /\ batch' # <<>>)

FairSpec == Spec /\ Fairness
-----------------------------------------------------------------------------
\* An update the server has forgotten was handled, by this gateway or an
\* earlier one: a crash in the middle of a batch loses none (loop).
ConfirmedWereHandled ==
    \A id \in 1 .. confirmed - 1 : \E i \in DOMAIN handled : handled[i].id = id

\* One start of the gateway handles every update at most once and in the
\* order they were sent, whatever the server redelivers (loop).
HandledInOrder ==
    \A i, j \in DOMAIN handled :
        i < j /\ handled[i].life = handled[j].life => handled[i].id < handled[j].id

\* Under the pairing policy nobody gets in but a user whose own code a pairing
\* command has approved, however the two processes overwrite each other's file
\* (allowedUser, approveByCode).
AdmittedWereApproved ==
    /\ \A i \in DOMAIN handled : handled[i].outcome = "admitted" =>
          updates[handled[i].id].user \in approved
    /\ now = "admitted" => Sender \in approved

\* A handling that never ends: the model call or sendMessage hangs.
Hangs == <>[](now # Undecided)

\* Unless a handling hangs, which stops the only thread of the bot, every
\* update is handled in the end or the gateway dies for good (loop).
UpdatesAreHandled ==
    \/ \A id \in 1 .. MaxUpdates :
          (id <= Len(updates)) ~>
              (~up /\ life = MaxLives) \/ \E i \in DOMAIN handled : handled[i].id = id
    \/ Hangs
=============================================================================

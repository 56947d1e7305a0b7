---------------------------- MODULE AgentEngine ----------------------------
(***************************************************************************)
(* The agent engine (src/agent/AgentEngine.cpp) over the session store:    *)
(* every inbound message is a turn that holds the mutex of its session     *)
(* while it appends the message, reads the history, asks the model and     *)
(* appends the reply.  Callers are the threads that enter handleMessage:   *)
(* HTTP handlers, the task worker, the cron loop and the Telegram loop.    *)
(*                                                                         *)
(* Two writers go past the mutex: the callback of a next-heartbeat cron    *)
(* job (src/app/Application.cpp) and a second process, the CLI, which      *)
(* writes to the same directory when the gateway does not answer its POST  *)
(* within three seconds (src/main.cpp).                                    *)
(*                                                                         *)
(* The store's own mutex makes each of its operations a step; the other    *)
(* process may read sessions.json while one is writing it.  Writes of the  *)
(* store succeed unless the process dies in one: appendMessage does not    *)
(* look whether its stream has failed, and a turn whose line a full disk   *)
(* drops is answered all the same.  A line is shorter than the buffer of   *)
(* the stream that it is written to.                                       *)
(***************************************************************************)
EXTENDS SessionStore

CONSTANTS
    Callers,   \* threads of the gateway that call handleMessage
    NoOne,     \* nobody holds the mutex
    Main,      \* the session key "main"
    Policies   \* the history limits and carryover modes that callers ask for

ASSUME AgentEngineAssumption ==
    /\ NoOne \notin Callers /\ Main \in Keys
    /\ Policies \subseteq [limit : Int, mode : {"inherit", "minimal", "none"}]

VARIABLES
    up,        \* the gateway runs
    index,     \* index_ of the gateway's store
    saved,     \* sessions.json; a file that does not parse counts as empty
    files,     \* files[id]: the lines of <id>.jsonl
    holder,    \* holder[k]: who holds sessionMutexes_[k]
    call,      \* call[c]: the handleMessage call that c is in
    cli,       \* the CLI process between reading the index and writing
    messages,  \* messages submitted so far
    answered   \* history: turns whose caller was given the model's reply

store == <<index, saved, files>>
vars  == <<up, store, holder, call, cli, messages, answered>>

Kinds == {"user", "system", "command"}
NoCall == [at |-> "idle"]
Call == [at : {"waiting", "locked", "recorded", "asking"}, turn : Ids, key : Keys,
         kind : Kinds, mode : {"inherit", "minimal", "none"},
         limit : 1 .. 200, prompt : Seq(Message)]
CliRun == [turn : Ids, key : Keys, role : {"user", "system"}, index : Index]
NoCli == [turn |-> 0]

TypeOK ==
    /\ up \in BOOLEAN /\ messages \in 0 .. MaxMessages /\ answered \subseteq Ids
    /\ index \in Index /\ saved \in Index /\ files \in [Ids -> Seq(Message)]
    /\ holder \in [Keys -> Callers \cup {NoOne}]
    /\ call \in [Callers -> Call \cup {NoCall}]
    /\ cli \in CliRun \cup {NoCli}
-----------------------------------------------------------------------------
\* ensureSession and appendMessage of the gateway's store.
Record(k, line) ==
    LET opened == Ensured(index, k, line.turn)
    IN  /\ index' = opened
        /\ files' = WithLine(files, opened[k], line)
        /\ saved' = opened

Line(c, role) == [turn |-> call[c].turn, role |-> role, locked |-> TRUE]
InboundRole(c) == IF call[c].kind = "system" THEN "system" ELSE "user"
Step(c, to) == call' = [call EXCEPT ![c].at = to]

\* handleMessage is entered with a runtime policy.
Arrive(c) ==
    /\ up /\ call[c] = NoCall /\ messages < MaxMessages
    /\ \E k \in Keys, kind \in Kinds, policy \in Policies :
          call' = [call EXCEPT ![c] =
                      [at |-> "waiting", turn |-> messages + 1, key |-> k, kind |-> kind,
                       mode |-> policy.mode, limit |-> HistoryLimit(policy.limit),
                       prompt |-> <<>>]]
    /\ messages' = messages + 1
    /\ UNCHANGED <<up, store, holder, cli, answered>>

\* A variant that does not look whether the mutex is held.
UnlockedAlways(k) == TRUE

Unlocked(k) == holder[k] = NoOne

\* try_lock_for gets the session's mutex ...
Lock(c) ==
    /\ call[c].at = "waiting" /\ Unlocked(call[c].key)
    /\ holder' = [holder EXCEPT ![call[c].key] = c]
    /\ Step(c, "locked")
    /\ UNCHANGED <<up, store, cli, messages, answered>>

\* ... or times out: the caller is told that the session is busy.
GiveUp(c) ==
    /\ call[c].at = "waiting" /\ holder[call[c].key] # NoOne
    /\ call' = [call EXCEPT ![c] = NoCall]
    /\ UNCHANGED <<up, store, holder, cli, messages, answered>>

\* The message goes into the transcript.  A command is answered without the
\* history.
Open(c) ==
    /\ call[c].at = "locked"
    /\ Record(call[c].key, Line(c, InboundRole(c)))
    /\ Step(c, IF call[c].kind = "command" THEN "asking" ELSE "recorded")
    /\ UNCHANGED <<up, holder, cli, messages, answered>>

\* The prompt is cut from the history.
Load(c) ==
    /\ call[c].at = "recorded"
    /\ LET history == LoadMessages(index, files, call[c].key, call[c].limit)
       IN  call' = [call EXCEPT ![c].at = "asking",
                                ![c].prompt = Carryover(history, call[c].mode, call[c].limit)]
    /\ UNCHANGED <<up, store, holder, cli, messages, answered>>

\* The end of a call, by return or by exception: the lock's destructor runs.
Leave(c) ==
    /\ holder' = [holder EXCEPT ![call[c].key] = NoOne]
    /\ call' = [call EXCEPT ![c] = NoCall]

\* A variant that returns the reply without recording it.
AnswerUnrecorded(c) ==
    /\ call[c].at = "asking"
    /\ Leave(c)
    /\ answered' = answered \cup {call[c].turn}
    /\ UNCHANGED <<up, store, cli, messages>>

\* The model or the command has a reply.
Answer(c) ==
    /\ call[c].at = "asking"
    /\ Record(call[c].key, Line(c, "assistant"))
    /\ Leave(c)
    /\ answered' = answered \cup {call[c].turn}
    /\ UNCHANGED <<up, cli, messages>>

\* A variant that leaves the mutex locked.
FailLocked(c) ==
    /\ call[c].at = "asking"
    /\ call' = [call EXCEPT ![c] = NoCall]
    /\ UNCHANGED <<up, store, holder, cli, messages, answered>>

\* The model or the command throws: the message stays without a reply.
Fail(c) ==
    /\ call[c].at = "asking"
    /\ Leave(c)
    /\ UNCHANGED <<up, store, cli, messages, answered>>

Turn(c) == Lock(c) \/ GiveUp(c) \/ Open(c) \/ Load(c) \/ Answer(c) \/ Fail(c)
-----------------------------------------------------------------------------
\* A next-heartbeat cron job writes to the main session without its mutex.
Note ==
    /\ up /\ messages < MaxMessages
    /\ Record(Main, [turn |-> messages + 1, role |-> "system", locked |-> FALSE])
    /\ messages' = messages + 1
    /\ UNCHANGED <<up, holder, call, cli, answered>>

\* What a process reads from sessions.json: a file that another one, which
\* runs or not, is in the middle of writing does not parse.
Read(other) == IF other THEN {saved, NoSessions} ELSE {saved}

\* The CLI had no answer from the gateway, down or slow, and opens the store.
CliOpen ==
    /\ cli = NoCli /\ messages < MaxMessages
    /\ \E k \in Keys, role \in {"user", "system"}, read \in Read(up) :
          cli' = [turn |-> messages + 1, key |-> k, role |-> role, index |-> read]
    /\ messages' = messages + 1
    /\ UNCHANGED <<up, store, holder, call, answered>>

\* It appends the message and writes the index it has read.
CliWrite ==
    /\ cli # NoCli
    /\ LET opened == Ensured(cli.index, cli.key, cli.turn)
       IN  /\ files' = WithLine(files, opened[cli.key],
                                [turn |-> cli.turn, role |-> cli.role, locked |-> FALSE])
           /\ saved' = opened
    /\ cli' = NoCli
    /\ UNCHANGED <<up, index, holder, call, messages, answered>>

\* The CLI is killed in ensureSession or appendMessage: the index is written
\* or torn, and the line is still in the stream's buffer.
CliDies ==
    /\ cli # NoCli /\ cli' = NoCli
    /\ saved' \in {Ensured(cli.index, cli.key, cli.turn), NoSessions}
    /\ UNCHANGED <<up, index, files, holder, call, messages, answered>>
-----------------------------------------------------------------------------
\* The gateway stops or dies: threads and memory are gone ...
Gone ==
    /\ up' = FALSE
    /\ index' = NoSessions
    /\ holder' = [k \in Keys |-> NoOne]
    /\ call' = [c \in Callers |-> NoCall]

Crash == up /\ Gone /\ UNCHANGED <<saved, files, cli, messages, answered>>

\* ... or dies while a turn records a line: sessions.json is written or torn,
\* and the line is still in the stream's buffer, which the end of
\* appendMessage flushes.
CrashInSave ==
    /\ up /\ Gone
    /\ \E c \in Callers :
          /\ call[c].at \in {"locked", "asking"}
          /\ saved' \in {Ensured(index, call[c].key, call[c].turn), NoSessions}
    /\ UNCHANGED <<files, cli, messages, answered>>

\* init: loadIndexUnsafe.
Boot ==
    /\ ~up
    /\ up' = TRUE /\ index' \in Read(cli # NoCli)
    /\ UNCHANGED <<saved, files, holder, call, cli, messages, answered>>

Init ==
    /\ up = TRUE /\ index = NoSessions /\ saved = NoSessions
    /\ files = [i \in Ids |-> <<>>]
    /\ holder = [k \in Keys |-> NoOne] /\ call = [c \in Callers |-> NoCall]
    /\ cli = NoCli /\ messages = 0 /\ answered = {}

Next ==
    \/ \E c \in Callers : Arrive(c) \/ Turn(c)
    \/ Note \/ CliOpen \/ CliWrite \/ CliDies
    \/ Crash \/ CrashInSave \/ Boot

Spec == Init /\ [][Next]_vars

\* A thread inside handleMessage is scheduled and the wait for the mutex has
\* a time limit.  Nothing is assumed of the model: the curl that asks it has
\* no --max-time (LlmClient.cpp), so that Answer and Fail may never happen.
FairSpec == Spec /\ \A c \in Callers : WF_vars(Lock(c) \/ GiveUp(c) \/ Open(c) \/ Load(c))
-----------------------------------------------------------------------------
\* In every transcript a turn's reply comes after its message, once, and no
\* line of another turn is between them: the per-session mutex serialises
\* turns, whatever writers go past it and however often the gateway dies
\* (handleMessage, docs/STAGE4.md:18-20).
TurnsDoNotInterleave ==
    \A id \in Ids : LET f == files[id] IN
        \A j \in DOMAIN f : f[j].role = "assistant" =>
            \E i \in 1 .. j - 1 :
                /\ f[i].turn = f[j].turn /\ f[i].role # "assistant"
                /\ \A m \in i + 1 .. j - 1 : ~f[m].locked

\* The newest message of the prompt that the model is asked with is the
\* turn's own, or one that was written behind it past the mutex: never a line
\* of another turn, and never an older one (loadMessages,
\* applyCarryoverPolicy).
PromptEndsHere ==
    \A c \in Callers : call[c].at = "asking" /\ call[c].kind # "command" =>
        LET f == files[index[call[c].key]]
            p == call[c].prompt
        IN  /\ p # <<>>
            /\ \E i \in DOMAIN f, j \in DOMAIN f :
                  /\ f[i] = Line(c, InboundRole(c)) /\ i <= j
                  /\ f[j] = p[Len(p)] /\ (j = i \/ ~f[j].locked)

\* A reply that a caller was given is in a transcript behind the message it
\* answers, whatever becomes of the index (handleMessage, appendMessage).
RepliesAreRecorded ==
    \A t \in answered : \E id \in Ids : LET f == files[id] IN
        \E i, j \in DOMAIN f :
            /\ i < j /\ f[i].turn = t /\ f[j].turn = t
            /\ f[i].role # "assistant" /\ f[j].role = "assistant"

\* Only a model call that does not return keeps a session busy or a caller
\* waiting for ever: every turn gives its mutex back, by a reply or by an
\* exception, and whoever waits for a session that hangs is told that it is
\* busy (handleMessage).
SessionsAreFreed ==
    /\ \A k \in Keys : []<>(holder[k] = NoOne \/ call[holder[k]].at = "asking")
    /\ \A c \in Callers : []<>(call[c].at \in {"idle", "asking"})
=============================================================================

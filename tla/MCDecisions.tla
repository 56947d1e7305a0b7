---------------------------- MODULE MCDecisions ----------------------------
(***************************************************************************)
(* The decisions the gateway takes from its configuration and its files,   *)
(* checked together: which credentials and model a request gets, while     *)
(* commands edit the auth profiles (ModelAccess), and, one initial state   *)
(* per question, whether a session may run a tool (ToolPolicy), when a     *)
(* cron job runs next (CronCalendar) and what job a JSON object is         *)
(* (CronJobSpec).                                                          *)
(***************************************************************************)
EXTENDS ModelAccess, ToolPolicy, CronCalendar, CronJobSpec, TLC

VARIABLE query   \* the question asked, or none while the commands run

Symmetry == Permutations(Commands)

\* gemini's key is in the environment, "typo" is no model, and the current
\* model is among the fallbacks again.
MCProviderOf == [r \in Refs |-> CASE r = "gpt" -> "codex" [] r = "fast" -> "gemini"
                                  [] r = "typo" -> None]
MCChain == <<"gpt", "gpt", "typo", "fast">>

\* The lists of each scope that applies, for the one tool asked about.
Lists == {s \in Scope : s.allow # Tools /\ s.deny # Tools /\ "read" \notin s.deny}
ToolQueries ==
    [ask : {"tool"}, dmScope : {"main", "per-peer"}, channel : Channels \cup {Nobody},
     peer : Peers \cup {Nobody}, global : Lists, legacy : Lists, ofChannel : Lists, ofPeer : Lists]

\* Single minutes, hours and weekdays, pairs, stars, and fields that do not
\* parse; from every second of a week.
Fields(max) == {<<i>> : i \in 0 .. max - 1} \cup {<<i, i - 1>> : i \in 1 .. max - 1}
               \cup {<<Star>>, <<Star, 0>>, <<0, Junk>>, <<max>>}
Exprs == Fields(Minutes) \X Fields(Hours) \X Fields(Weekdays)
         \cup {<<<<Star>>, <<Star>>>>, <<<<0>>, <<0>>, <<0>>, <<0>>>>}
CronQueries == [ask : {"cron"}, expr : Exprs,
                from : 0 .. Seconds * Minutes * Hours * Weekdays - 1]

\* A field that is there or not.
Perhaps(f, values) == {[x \in {} |-> Null]} \cup {[x \in {f} |-> v] : v \in values}
With(js, ks) == {j @@ k : j \in js, k \in ks}
Flat == {[x \in {} |-> Null], [kind |-> "at", at |-> "t1"], [everyMs |-> "t1"],
         [kind |-> "cron", cron |-> "t1"]}
Nestings == {NotObject, [kind |-> "cron", expr |-> "t1"], [kind |-> "every", everyMs |-> "t1"],
             [kind |-> "at", at |-> "t1"], [kind |-> "at", at |-> "soon"], [everyMs |-> "t1"],
             [kind |-> "cron"], [kind |-> "hourly"]}
Payloads == {NotObject} \cup With(Perhaps("kind", {"systemEvent", "agentTurn", "other"}),
                                  With(Perhaps("text", {"a"}), Perhaps("message", {"b"})))
Deliveries == {NotObject} \cup Perhaps("mode", {"none", "announce", "other"})
Specs == With(With(Flat, Perhaps("schedule", Nestings)),
              With(Perhaps("deleteAfterRun", BOOLEAN), Perhaps("nextRunAt", {"later"})))
         \cup With(With([kind : {"at"}, at : {"t1"}],
                        With(Perhaps("payload", Payloads), Perhaps("message", {"c"}))),
              With(With(Perhaps("sessionTarget", {"main", "isolated", "other"}),
                        Perhaps("sessionKey", {"", "main", "mine"})),
                   With(Perhaps("wakeMode", {"next-heartbeat", "other"}),
                        Perhaps("delivery", Deliveries))))
JobQueries == [ask : {"job"}, spec : Specs]

Patches == {[enabled |-> FALSE], [wakeMode |-> "next-heartbeat"], [deleteAfterRun |-> FALSE],
            [schedule |-> [kind |-> "cron", expr |-> "t2"], nextRunAt |-> Null],
            [schedule |-> [at |-> "t2"]], [payload |-> [text |-> "new"]],
            [payload |-> [message |-> "new"]], [delivery |-> [mode |-> "none"]],
            [sessionTarget |-> "isolated", payload |-> [kind |-> "agentTurn"]],
            [sessionTarget |-> "main", payload |-> [kind |-> "systemEvent", text |-> "new"],
             delivery |-> [mode |-> "none"]]}

\* Only a next run is ever null.
ASSUME PatchesAssumption == \A patch \in Patches : \A f \in DOMAIN patch :
    /\ patch[f] = Null => f = "nextRunAt"
    /\ f \in Nested => \A g \in DOMAIN patch[f] : patch[f][g] # Null

NoQuery == [ask |-> "nothing"]

MCInit == Init /\ (query = NoQuery \/ query \in ToolQueries \/ query \in CronQueries
                   \/ query \in JobQueries)
Alone == query = NoQuery /\ UNCHANGED query
MCNext ==
    \/ \E c \in Commands :
          \/ Alone /\ Start(c)
          \/ Alone /\ Create(c)
          \/ Alone /\ Created(c)
          \/ Alone /\ AddProfile(c)
          \/ Alone /\ DeviceLogin(c)
          \/ Alone /\ ImportLogin(c)
          \/ Alone /\ UseProfile(c)
          \/ Alone /\ RemoveProfile(c)
          \/ Alone /\ OrderProfiles(c)
          \/ Alone /\ Flush(c)
          \/ Alone /\ Again(c)
          \/ Alone /\ End(c)
    \/ Alone /\ Complete
    \/ Alone /\ CreateForTurn
    \/ Alone /\ CreatedForTurn
    \/ Alone /\ GiveUp
    \/ Alone /\ Skip
    \/ Alone /\ Ask
    \/ Alone /\ Reply
    \/ Alone /\ Tick
MCSpec == MCInit /\ [][MCNext]_<<vars, query>>
-----------------------------------------------------------------------------
\* The configuration a tool question is about; the channels and peers that
\* are not its own have the lists others.
Config(q, others) ==
    [global |-> q.global, legacy |-> q.legacy,
     channels |-> [c \in Channels |-> IF c = q.channel THEN q.ofChannel ELSE others],
     peers |-> [cp \in Channels \X Peers |-> IF cp = <<q.channel, q.peer>> THEN q.ofPeer ELSE others]]
NoAllow(s) == [s EXCEPT !.allow = {}]

\* A /tool command never runs what a deny list of its session's scopes or of
\* its call names, nor what the allow list of its call or the narrowest one of
\* the scopes leaves out; the allow list of a narrower scope makes those of the
\* wider ones irrelevant; the lists of other channels and peers never matter;
\* and a peer's lists matter exactly when sessions are kept per peer
\* (evaluatePolicy, runtimeToolAllowed, contextFromSessionKey).
ToolsFollowPolicy == query.ask = "tool" => LET q == query IN
    \A allow, deny \in {{}, {"exec"}, {"read"}, {"*"}} :
    LET context == Context(q.dmScope, q.channel, q.peer)
        runs(x, others) ==
            ToolCommand(Config(x, others), {"exec"}, context, allow, deny, "exec") = "runs"
        narrow == q.channel # Nobody /\ q.ofChannel.allow # {}
        peer   == q.channel # Nobody /\ q.peer # Nobody /\ q.dmScope # "main"
        counts == IF peer /\ q.ofPeer.allow # {} THEN q.ofPeer.allow
                  ELSE IF narrow THEN q.ofChannel.allow ELSE Global(q).allow
        base   == runs(q, Open)
    IN  /\ base => /\ allow # {} => Listed(allow, "exec")
                   /\ counts # {} => "exec" \in counts
                   /\ "exec" \notin Global(q).deny /\ ~Listed(deny, "exec")
                   /\ q.channel # Nobody => "exec" \notin q.ofChannel.deny
                   /\ peer => "exec" \notin q.ofPeer.deny
        /\ narrow /\ (NoAllow(q.legacy) = Open => q.legacy = Open) =>
              base = runs([q EXCEPT !.global = NoAllow(@), !.legacy = NoAllow(@)], Open)
        /\ peer /\ q.ofPeer.allow # {} => base = runs([q EXCEPT !.ofChannel = NoAllow(@)], Open)
        /\ base = runs(q, [allow |-> {"read"}, deny |-> {"exec"}])
        /\ ~peer => base = runs([q EXCEPT !.ofPeer = [allow |-> {"read"}, deny |-> {"exec"}]], Open)

\* The next run of a cron job is the next minute that its expression names,
\* none skipped and none twice, and there is none only for an expression that
\* does not parse (parseCronExpr, computeNextCronRun).
CronRunsOnTime == query.ask = "cron" =>
    IsNextRun(query.expr, query.from, NextRun(query.expr, query.from))

\* A job that was accepted survives jobs.json unchanged, and an edit changes
\* what it names and nothing else (parseJobSpec, jobToJson, mergePatch).
JobsKeepTheirSpec == query.ask = "job" =>
    /\ ReadBack(query.spec, TRUE) /\ ReadBack(query.spec, FALSE)
    /\ \A patch \in Patches : EditIsExact(query.spec, patch)
=============================================================================

---------------------------- MODULE ModelAccess ----------------------------
(***************************************************************************)
(* How a model request gets its credentials and its model: the auth        *)
(* profile store (src/models/AuthProfiles.cpp), the `models auth` commands *)
(* that edit it (src/main.cpp) and the chain of models the gateway tries   *)
(* (src/llm/LlmClient.cpp).                                                *)
(*                                                                         *)
(* Every command is a process of its own: it reads the file when it        *)
(* starts, edits its copy, and truncates and writes the file.  The gateway *)
(* reads the file for every request.  Whoever finds no file writes one     *)
(* with an empty store.                                                    *)
(* A profile's mode and meta, and the text of a token, are left out.       *)
(***************************************************************************)
EXTENDS Integers, SequencesExt, Picks

CONSTANTS
    Commands,   \* command processes
    Profiles,   \* profile ids
    Providers,  \* providers
    Codex,      \* "openai-codex", the one provider of setup-token and login
    EnvKeys,    \* the providers whose key is in the environment
    Refs,       \* model references
    ProviderOf, \* resolveModel: the provider of a reference, None if unknown
    Chain,      \* the current model and its fallbacks
    Torn,       \* a file that does not parse
    None,
    MaxNow,     \* bound of the model: the clock
    MaxCommands \* bound of the model: commands started

Never == MaxNow + 1   \* expiresAt is empty

ASSUME ModelAccessAssumption ==
    /\ Codex \in Providers /\ EnvKeys \subseteq Providers
    /\ None \notin Profiles \cup Providers
    /\ Chain \in Seq(Refs) /\ ProviderOf \in [Refs -> Providers \cup {None}]
    /\ MaxNow \in Nat /\ MaxCommands \in Nat

VARIABLES
    file,     \* auth-profiles.json: a store, Torn, or None before the first init
    cmd,      \* cmd[c]: the command between reading the file and ending
    now,      \* the clock
    turn,     \* the gateway's request: the models left, tried, and asked
    started   \* commands started so far

vars == <<file, cmd, now, turn, started>>

EmptyStore == [profiles |-> <<>>, active |-> [p \in Providers |-> None],
               order |-> [p \in Providers |-> <<>>]]
Stored(s, id) == \E i \in DOMAIN s.profiles : s.profiles[i].id = id
Profile(s, id) ==
    LET at == {i \in DOMAIN s.profiles : s.profiles[i].id = id}
    IN  s.profiles[CHOOSE i \in at : \A j \in at : i <= j]

\* upsert: the profile of that id is replaced where it is.
Upsert(s, p) ==
    IF Stored(s, p.id)
    THEN [s EXCEPT !.profiles = [i \in DOMAIN @ |-> IF @[i].id = p.id THEN p ELSE @[i]]]
    ELSE [s EXCEPT !.profiles = Append(@, p)]

Others(s, id) == Picked(s.profiles, {i \in DOMAIN s.profiles : s.profiles[i].id # id})

\* A variant of remove that leaves the profile active.
RemovedKeepsActive(s, id) ==
    [s EXCEPT !.profiles = Others(s, id),
              !.order = [p \in Providers |-> Kept(@[p], Profiles \ {id})]]

\* remove: the profile goes, and with it its places in active and order.
Removed(s, id) ==
    [profiles |-> Others(s, id),
     active   |-> [p \in Providers |-> IF s.active[p] = id THEN None ELSE s.active[p]],
     order    |-> [p \in Providers |-> Kept(s.order[p], Profiles \ {id})]]

\* setActive and setOrderForProvider refuse profiles of another provider.
Fits(s, p, id) == Stored(s, id) /\ Profile(s, id).provider = p
SetActive(s, p, id) == [s EXCEPT !.active[p] = id]

Distinct(ids) ==
    Picked(ids, {i \in DOMAIN ids : \A j \in 1 .. i - 1 : ids[j] # ids[i]})
-----------------------------------------------------------------------------
\* resolveForProvider.
Expired(p) == now >= p.expiresAt
Auth(source, id) == [source |-> source, id |-> id]

\* The active profile, whatever its provider, the ordered ones and the rest.
Candidates(s, p) ==
    LET rest == [i \in DOMAIN s.profiles |-> s.profiles[i].id]
    IN  Distinct(Kept(<<s.active[p]>>, {id \in Profiles : Stored(s, id)})
                 \o Kept(s.order[p], {id \in Profiles : Fits(s, p, id)})
                 \o Picked(rest, {i \in DOMAIN rest : s.profiles[i].provider = p}))

\* A variant that takes the first token there is.
FirstLiveAny(s, ids) == ids

\* The candidates whose token has not expired.
FirstLive(s, ids) == Kept(ids, {id \in Profiles : Stored(s, id) /\ ~Expired(Profile(s, id))})

Resolve(s, p) ==
    LET env    == p \in EnvKeys
        tokens == IF s \in {Torn, None} THEN <<>>
                  ELSE Kept(Candidates(s, p), {id \in Profiles : Stored(s, id) /\ Profile(s, id).token})
        live   == IF tokens = <<>> THEN <<>> ELSE FirstLive(s, tokens)
    IN  CASE live # <<>>   -> Auth("profile", Head(live))
          [] live = <<>> /\ env -> Auth("env", None)
          [] live = <<>> /\ ~env /\ tokens # <<>> -> Auth("profile", Head(tokens))
          [] live = <<>> /\ ~env /\ tokens = <<>> -> Auth("missing", None)
-----------------------------------------------------------------------------
Idle == [at |-> "idle"]
NoTurn == [at |-> "idle"]

\* init: a command ends at once when the file does not parse ...
Start(c) ==
    /\ cmd[c] = Idle /\ started < MaxCommands /\ file \notin {Torn, None}
    /\ cmd' = [cmd EXCEPT ![c] = [at |-> "loaded", copy |-> file, then |-> <<>>]]
    /\ started' = started + 1
    /\ UNCHANGED <<file, now, turn>>

\* ... and writes an empty store when there is no file.
Create(c) ==
    /\ cmd[c] = Idle /\ started < MaxCommands /\ file = None
    /\ cmd' = [cmd EXCEPT ![c] = [at |-> "creating", copy |-> EmptyStore, then |-> <<>>]]
    /\ file' = Torn
    /\ started' = started + 1
    /\ UNCHANGED <<now, turn>>

\* save: the copy has been edited and the file is truncated; the stores in
\* then are saved after it.
Edit(c, s, then) ==
    /\ cmd[c].at = "loaded"
    /\ cmd' = [cmd EXCEPT ![c] = [at |-> "saving", copy |-> s, then |-> then]]
    /\ file' = Torn
    /\ UNCHANGED <<now, turn, started>>

\* add, paste-token and setup-token: a token, with or without a time to live,
\* or the empty one that paste-token lets pass.
AddProfile(c) ==
    \E id \in Profiles, p \in Providers, expires \in now .. Never, token \in BOOLEAN :
        /\ token \/ expires = Never
        /\ Edit(c, Upsert(cmd[c].copy, [id |-> id, provider |-> p, token |-> token,
                                        expiresAt |-> expires]), <<>>)

\* A token from a login: the profile is saved, then made active.
LoggedIn(c, id, expires) ==
    LET s == Upsert(cmd[c].copy, [id |-> id, provider |-> Codex, token |-> TRUE,
                                  expiresAt |-> expires])
    IN  Edit(c, s, <<SetActive(s, Codex, id)>>)

\* login by device code: the poll, a curl of up to ten seconds, has a token.
DeviceLogin(c) == \E id \in Profiles, expires \in now + 1 .. Never : LoggedIn(c, id, expires)

\* login by import: the file of another program, which may have run its own
\* login for any time before, has a token, even one that has expired.
ImportLogin(c) == \E id \in Profiles, expires \in 0 .. Never : LoggedIn(c, id, expires)

UseProfile(c) ==
    \E id \in Profiles, p \in Providers :
        cmd[c].at = "loaded" /\ Fits(cmd[c].copy, p, id) /\ Edit(c, SetActive(cmd[c].copy, p, id), <<>>)

RemoveProfile(c) ==
    \E id \in Profiles :
        cmd[c].at = "loaded" /\ Stored(cmd[c].copy, id) /\ Edit(c, Removed(cmd[c].copy, id), <<>>)

\* order set, whose list is checked and stripped of repetitions, and order
\* clear.
OrderProfiles(c) ==
    \E p \in Providers, ids \in BoundedSeq(Profiles, 2) :
        /\ cmd[c].at = "loaded"
        /\ \A i \in DOMAIN ids : Fits(cmd[c].copy, p, ids[i])
        /\ ids # <<>> \/ cmd[c].copy.order[p] # <<>>
        /\ Edit(c, [cmd[c].copy EXCEPT !.order[p] = Distinct(ids)], <<>>)

\* The file once the text s goes out.  When someone else has written since the
\* truncation, the end of a longer text may stay behind it.
Flushed(s) == {s} \cup (IF file = Torn THEN {} ELSE {Torn})

Flush(c) ==
    /\ cmd[c].at = "saving"
    /\ file' \in Flushed(cmd[c].copy)
    /\ cmd' = [cmd EXCEPT ![c] = IF @.then = <<>> THEN Idle ELSE [@ EXCEPT !.at = "again"]]
    /\ UNCHANGED <<now, turn, started>>

\* The new file is written: the command goes on.
Created(c) ==
    /\ cmd[c].at = "creating"
    /\ file' \in Flushed(EmptyStore)
    /\ cmd' = [cmd EXCEPT ![c].at = "loaded"]
    /\ UNCHANGED <<now, turn, started>>

\* The second save of a login.
Again(c) ==
    /\ cmd[c].at = "again"
    /\ cmd' = [cmd EXCEPT ![c] = [at |-> "saving", copy |-> Head(@.then), then |-> Tail(@.then)]]
    /\ file' = Torn
    /\ UNCHANGED <<now, turn, started>>

\* list, status, order get, a refused edit, a login without a token: nothing
\* is written.  A command that is killed may leave its truncated file.
End(c) ==
    /\ cmd[c] # Idle
    /\ cmd' = [cmd EXCEPT ![c] = Idle]
    /\ UNCHANGED <<file, now, turn, started>>
-----------------------------------------------------------------------------
\* complete: the chain is tried from its head, each reference once.
Complete ==
    /\ turn = NoTurn
    /\ turn' = [at |-> "trying", left |-> Chain, seen |-> {}]
    /\ UNCHANGED <<file, cmd, now, started>>

Trying(left) == [at |-> "trying", left |-> left, seen |-> turn.seen \cup {Head(turn.left)}]

\* No model is left: the caller is told what failed.
GiveUp ==
    /\ turn.at = "trying" /\ turn.left = <<>>
    /\ turn' = NoTurn
    /\ UNCHANGED <<file, cmd, now, started>>

\* The gateway looks for credentials and there is no file yet: it writes one.
CreateForTurn ==
    /\ turn.at = "trying" /\ turn.left # <<>> /\ file = None
    /\ Head(turn.left) \notin turn.seen /\ ProviderOf[Head(turn.left)] # None
    /\ turn' = [at |-> "creating", left |-> turn.left, seen |-> turn.seen]
    /\ file' = Torn
    /\ UNCHANGED <<cmd, now, started>>

CreatedForTurn ==
    /\ turn.at = "creating"
    /\ turn' = [at |-> "trying", left |-> turn.left, seen |-> turn.seen]
    /\ file' \in Flushed(EmptyStore)
    /\ UNCHANGED <<cmd, now, started>>

\* The reference was tried, is unknown, or its provider has no credentials.
Skip ==
    /\ turn.at = "trying" /\ turn.left # <<>>
    /\ LET ref == Head(turn.left) IN
          \/ ref \in turn.seen
          \/ ProviderOf[ref] = None
          \/ /\ ProviderOf[ref] # None /\ file # None
             /\ Resolve(file, ProviderOf[ref]).source = "missing"
    /\ turn' = Trying(Tail(turn.left))
    /\ UNCHANGED <<file, cmd, now, started>>

\* requestSingle: the request goes out with the provider's credentials.
Ask ==
    /\ turn.at = "trying" /\ turn.left # <<>> /\ file # None
    /\ LET ref == Head(turn.left) IN
          /\ ref \notin turn.seen /\ ProviderOf[ref] # None
          /\ LET auth == Resolve(file, ProviderOf[ref]) IN
                /\ auth.source # "missing"
                /\ turn' = [at |-> "asked", left |-> turn.left, seen |-> turn.seen,
                            provider |-> ProviderOf[ref], auth |-> auth]
    /\ UNCHANGED <<file, cmd, now, started>>

\* A text comes back, or a failure or a text that reads like one; curl has
\* no time limit, so that neither may come.
Reply ==
    /\ turn.at = "asked"
    /\ turn' \in {NoTurn, Trying(Tail(turn.left))}
    /\ UNCHANGED <<file, cmd, now, started>>

Tick == now < MaxNow /\ now' = now + 1 /\ UNCHANGED <<file, cmd, turn, started>>

Init ==
    /\ file = None /\ cmd = [c \in Commands |-> Idle]
    /\ now = 0 /\ turn = NoTurn /\ started = 0

Command(c) ==
    \/ Start(c) \/ Create(c) \/ Created(c) \/ AddProfile(c) \/ DeviceLogin(c) \/ ImportLogin(c)
    \/ UseProfile(c) \/ RemoveProfile(c) \/ OrderProfiles(c) \/ Flush(c) \/ Again(c) \/ End(c)

Next ==
    \/ \E c \in Commands : Command(c)
    \/ Complete \/ CreateForTurn \/ CreatedForTurn \/ GiveUp \/ Skip \/ Ask \/ Reply \/ Tick

Spec == Init /\ [][Next]_vars
-----------------------------------------------------------------------------
\* What is active and what is ordered names stored profiles, each at most
\* once, in the file and in every copy a command holds, whatever stale copy
\* was written over what (upsert, remove, setActive, setOrderForProvider).
NoDanglingIds ==
    LET Sound(s) == \A p \in Providers :
            /\ s.active[p] = None \/ Stored(s, s.active[p])
            /\ IsInjective(s.order[p]) /\ \A i \in DOMAIN s.order[p] : Stored(s, s.order[p][i])
    IN  /\ file \in {Torn, None} \/ Sound(file)
        /\ \A c \in Commands : cmd[c].at = "idle" \/ Sound(cmd[c].copy)

\* What the credentials for provider p are to be.
Fit(p, auth) ==
    LET has(id)  == Stored(file, id) /\ Profile(file, id).token
        live(id) == has(id) /\ ~Expired(Profile(file, id))
        own      == {id \in Profiles : live(id) /\ Profile(file, id).provider = p}
        order    == file.order[p]
        active   == file.active[p]
    IN  /\ auth.source = "profile" =>
              /\ has(auth.id) /\ (Fits(file, p, auth.id) \/ auth.id = active)
              /\ live(auth.id) \/ (own = {} /\ p \notin EnvKeys)
        /\ auth.source = "env" => own = {}
        /\ active \in own => auth.id = active
        /\ auth.id # active => \A i \in DOMAIN order : order[i] \in own =>
              \E j \in 1 .. i : order[j] = auth.id

\* A request is never sent with a token that has expired, nor with the key of
\* the environment, while its provider has a profile with a live one.  A live
\* active profile comes first, then the order's; a token of another provider
\* is only sent when the active profile was stored again for that provider
\* (resolveForProvider).
LiveTokensAreSent ==
    [][turn'.at = "asked" /\ turn.at # "asked" =>
          IF file = Torn THEN turn'.auth.source = "env"
          ELSE Fit(turn'.provider, turn'.auth)]_vars
=============================================================================

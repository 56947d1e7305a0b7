--------------------------- MODULE SessionStore ---------------------------
(***************************************************************************)
(* The session store (src/session/SessionStore.cpp) and the cut the agent  *)
(* makes of a transcript before it asks the model                          *)
(* (src/agent/AgentEngine.cpp).  Pure operators on the index, which names  *)
(* the transcript of every session key, and on the transcripts.            *)
(*                                                                         *)
(* Session ids are 128 random bits: here the number of the message that    *)
(* opened the session, fresh by construction.  Time stamps only order the  *)
(* listing of sessions and are left out, as is the text of a message.      *)
(***************************************************************************)
EXTENDS Integers, FiniteSets, Sequences, Picks

CONSTANTS
    Keys,        \* session keys
    MaxMessages  \* bound of the model: messages submitted, by anyone

ASSUME SessionStoreAssumption == MaxMessages \in Nat

Ids   == 1 .. MaxMessages
NoId  == 0
Index == [Keys -> Ids \cup {NoId}]
Roles == {"system", "user", "assistant"}

\* A line of a transcript: the message or the turn it belongs to, its role,
\* and whether a turn of the engine wrote it, holding the session's mutex.
Message == [turn : Ids, role : Roles, locked : BOOLEAN]

NoSessions == [k \in Keys |-> NoId]

\* ensureSession(k) for the message n.
Ensured(index, k, n) == IF index[k] = NoId THEN [index EXCEPT ![k] = n] ELSE index

\* appendMessage: the line goes to the end of the session's transcript.
WithLine(files, id, line) == [files EXCEPT ![id] = Append(@, line)]

\* A variant that keeps the oldest messages.
NewestOldest(s, limit) == SubSeq(s, 1, IF Len(s) > limit THEN limit ELSE Len(s))

\* The newest limit elements of s.
Newest(s, limit) == SubSeq(s, IF Len(s) > limit THEN Len(s) - limit + 1 ELSE 1, Len(s))

\* loadMessages(k, limit).
LoadMessages(index, files, k, limit) ==
    IF index[k] = NoId THEN <<>> ELSE Newest(files[index[k]], limit)

\* normalizeRuntimePolicy, then max(1, ...): what becomes of a historyLimit.
HistoryLimit(raw) == IF raw < 1 THEN 1 ELSE IF raw > 200 THEN 200 ELSE raw

\* The positions that carryover "minimal" keeps: the newest system message
\* and the newest three others.
Carried(h) ==
    LET Later(i, sys) == {j \in i + 1 .. Len(h) : (h[j].role = "system") = sys}
    IN  {i \in DOMAIN h : IF h[i].role = "system" THEN Later(i, TRUE) = {}
                          ELSE Cardinality(Later(i, FALSE)) < 3}

\* applyCarryoverPolicy: what of the history goes into the prompt.
Carryover(h, mode, limit) ==
    CASE mode = "none"    -> Newest(h, 1)
      [] mode = "minimal" -> Newest(Picked(h, Carried(h)), limit)
      [] mode = "inherit" -> h
=============================================================================

----------------------------- MODULE ToolPolicy -----------------------------
(***************************************************************************)
(* May a `/tool` command of a session run the tool it names?  The scoped   *)
(* policy of src/tools/ToolRegistry.cpp, the runtime policy of the call,   *)
(* and what the session's key, made from channel and peer and taken apart  *)
(* again, lets the policy know (src/agent/AgentEngine.cpp).                *)
(***************************************************************************)
EXTENDS Integers, Sequences

CONSTANTS Tools, Channels, Peers, Nobody

ASSUME ToolPolicyAssumption == Nobody \notin Channels \cup Peers

\* The two lists of a scope; an empty allow list allows everything.
Scope == [allow : SUBSET Tools, deny : SUBSET Tools]
Open  == [allow |-> {}, deny |-> {}]

\* A policy as configured: the scopes of the schema and the legacy lists.
PolicyConfig == [global : Scope, legacy : Scope, channels : [Channels -> Scope],
                 peers : [Channels \X Peers -> Scope]]

\* setPolicy: the legacy lists, when there are any, are the global scope.
Global(config) == IF config.legacy # Open THEN config.legacy ELSE config.global

\* deriveSessionKey and contextFromSessionKey: what a session's context is
\* for the policy.  Any dmScope but the two is "main", which keeps no peer;
\* an empty channel or peer has a name of its own that no policy mentions.
Context(dmScope, channel, peer) ==
    [channel |-> channel,
     peer    |-> IF dmScope \in {"per-peer", "per-channel-peer"} THEN peer ELSE Nobody]

\* The scopes that apply to a context, from the widest to the narrowest.
Scopes(config, context) ==
    <<Global(config),
      IF context.channel = Nobody THEN Open ELSE config.channels[context.channel],
      IF context.channel = Nobody \/ context.peer = Nobody THEN Open
      ELSE config.peers[<<context.channel, context.peer>>]>>

\* A variant in which the widest allow list counts.
AllowScopeWidest(scopes) == {i \in DOMAIN scopes :
    scopes[i].allow # {} /\ \A j \in DOMAIN scopes : scopes[j].allow # {} => i <= j}

\* The narrowest scope with an allow list.
AllowScope(scopes) == {i \in DOMAIN scopes :
    scopes[i].allow # {} /\ \A j \in DOMAIN scopes : scopes[j].allow # {} => i >= j}

\* evaluatePolicy: a deny list of any scope refuses, and so does the allow
\* list that counts when it does not name the tool.
EvaluatePolicy(config, context, tool) ==
    LET scopes == Scopes(config, context)
    IN  /\ \A i \in DOMAIN scopes : tool \notin scopes[i].deny
        /\ \A i \in AllowScope(scopes) : tool \in scopes[i].allow

\* A list of the runtime policy of a call, "*" being any tool.  It is normalised
\* first, which drops an empty list, so that none and an empty one are the same.
RuntimeList == SUBSET (Tools \cup {"*"})
Listed(list, tool) == {tool, "*"} \cap list # {}

\* runtimeToolAllowed: an allow list that is there allows what it lists only.
RuntimeToolAllowed(allow, deny, tool) ==
    /\ ~Listed(deny, tool)
    /\ allow # {} => Listed(allow, tool)

\* handleCommand, call: what becomes of "/tool <tool>".
ToolCommand(config, registered, context, allow, deny, tool) ==
    CASE ~RuntimeToolAllowed(allow, deny, tool) -> "tool_denied_by_runtime_policy"
      [] RuntimeToolAllowed(allow, deny, tool) /\ tool \notin registered -> "unknown tool"
      [] RuntimeToolAllowed(allow, deny, tool) /\ tool \in registered ->
            IF EvaluatePolicy(config, context, tool) THEN "runs" ELSE "denied by access policy"
=============================================================================

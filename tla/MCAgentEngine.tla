--------------------------- MODULE MCAgentEngine ---------------------------
(***************************************************************************)
(* An instance of AgentEngine for TLC.  The policies: a history limit that *)
(* is clamped to one message, and a limit that a system message fills.     *)
(***************************************************************************)
EXTENDS AgentEngine

MCPolicies == {[limit |-> 0, mode |-> "inherit"], [limit |-> 2, mode |-> "minimal"]}
=============================================================================

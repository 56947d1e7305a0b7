----------------------------- MODULE MCEventBus -----------------------------
(***************************************************************************)
(* An instance of EventBus for TLC.                                        *)
(***************************************************************************)
EXTENDS EventBus
=============================================================================

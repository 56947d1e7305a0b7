---------------------------- MODULE MCTaskQueue ----------------------------
(***************************************************************************)
(* Instances of TaskQueue for TLC: a few tasks, a queue that can be full,  *)
(* and a ledger that is trimmed.                                           *)
(***************************************************************************)
EXTENDS TaskQueue
=============================================================================

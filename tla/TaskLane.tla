------------------------------ MODULE TaskLane ------------------------------
(***************************************************************************)
(* What the task lane promises its clients, without queue, file, threads   *)
(* or process: a life cycle per task                                       *)
(*                                                                         *)
(*     queued -> running -> cancelling -> cancelled|done|failed|timeout    *)
(*                                                                         *)
(* in which at most one task is in progress, a task's work is executed at  *)
(* most once, an outcome is final, and a task whose cancellation was       *)
(* accepted ends as cancelled.  TaskQueue is shown to implement it.        *)
(***************************************************************************)
EXTENDS Naturals, FiniteSets

CONSTANTS Tasks,      \* every task that may ever be submitted
          Capacity    \* how many tasks may wait at once

VARIABLES lane,       \* lane[t]: the status of t that survives a restart
          ran         \* ran[t]: how often t's work has been executed

vars == <<lane, ran>>

InProgress == {t \in Tasks : lane[t] \in {"running", "cancelling"}}
Waiting    == {t \in Tasks : lane[t] = "queued"}

Init ==
    /\ lane = [t \in Tasks |-> "absent"]
    /\ ran  = [t \in Tasks |-> 0]

Move(t, status) == lane' = [lane EXCEPT ![t] = status]

Admit(t) ==
    /\ lane[t] = "absent"
    /\ Cardinality(Waiting) < Capacity
    /\ Move(t, "queued")
    /\ UNCHANGED ran

Withdraw(t) ==
    /\ lane[t] = "queued"
    /\ Move(t, "cancelled")
    /\ UNCHANGED ran

Begin(t) ==
    /\ lane[t] = "queued"
    /\ InProgress = {}
    /\ Move(t, "running")
    /\ UNCHANGED ran

Execute(t) ==
    /\ t \in InProgress
    /\ ran[t] = 0
    /\ ran' = [ran EXCEPT ![t] = 1]
    /\ UNCHANGED lane

AcceptCancel(t) ==
    /\ lane[t] = "running"
    /\ Move(t, "cancelling")
    /\ UNCHANGED ran

Complete(t) ==
    /\ ran[t] = 1
    /\ \/ lane[t] = "running" /\ \E s \in {"done", "failed", "timeout"} : Move(t, s)
       \/ lane[t] = "cancelling" /\ Move(t, "cancelled")
    /\ UNCHANGED ran

\* A restart: whatever was in progress is cancelled, the rest is kept.
Interrupt ==
    /\ lane' = [t \in Tasks |-> IF t \in InProgress THEN "cancelled" ELSE lane[t]]
    /\ UNCHANGED ran

Next ==
    \/ \E t \in Tasks : \/ Admit(t) \/ Withdraw(t) \/ Begin(t) \/ Execute(t)
                        \/ AcceptCancel(t) \/ Complete(t)
    \/ Interrupt

Spec == Init /\ [][Next]_vars
=============================================================================

--------------------------- MODULE MCCronScheduler ---------------------------
(***************************************************************************)
(* CronScheduler for TLC: two kinds of recurring job, a one-shot that is   *)
(* erased by its run, one that is kept, a ladder of two rungs, and one of a*)
(* single rung, which failures soon climb past.                            *)
(***************************************************************************)
EXTENDS CronScheduler

Recurring == [kind |-> "every", at |-> 1, deleteAfterRun |-> FALSE]
CronLine  == [kind |-> "cron", at |-> 1, deleteAfterRun |-> FALSE]
Reminder  == [kind |-> "at", at |-> 1, deleteAfterRun |-> TRUE]
Kept      == [kind |-> "at", at |-> 1, deleteAfterRun |-> FALSE]

MCAllSpecs  == {Recurring, CronLine, Reminder, Kept}
MCRaceSpecs == {Recurring, Reminder}

MCLadder == <<1, 2>>
MCOneRung == <<1>>
=============================================================================

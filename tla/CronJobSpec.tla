---------------------------- MODULE CronJobSpec ----------------------------
(***************************************************************************)
(* From JSON to a cron job and back (src/automation/CronScheduler.cpp):    *)
(* what addJob and updateJob accept, what jobs.json holds, what a restart  *)
(* reads from it and what a patch changes.  A JSON object is a function    *)
(* from the fields it has; times, intervals, cron expressions and texts    *)
(* are values of small sets, "" when missing.  Fields that are copied and  *)
(* looked at by nobody here (name, model, channel, ...) are left out.      *)
(***************************************************************************)
CONSTANTS
    Null,       \* null, which in a patch removes the field
    Times,      \* the times, intervals and expressions that parse
    JobKey      \* "cron:<id>", the session of an isolated job

ASSUME CronJobSpecAssumption == Null # ""

\* JSON that is no object where one is expected: it has no field that is read.
NotObject == [x \in {"not an object"} |-> Null]

Object(f, j) == f \in DOMAIN j /\ j[f] # NotObject
Value(j, f, default) == IF f \in DOMAIN j THEN j[f] ELSE default
Part(j, f) == IF Object(f, j) THEN j[f] ELSE [x \in {} |-> Null]
FirstOf(a, b) == IF a = "" THEN b ELSE a

\* scheduleKindFrom, scheduleAtFrom, ...: the schedule, then the flat field.
\* (An expression may also be called cron in the schedule.)
Schedule(j, f, flat, default) == Value(Part(j, "schedule"), f, Value(j, flat, default))

\* The job that parseJobSpec makes of j, before it is checked.
Target(j) ==
    FirstOf(Value(j, "sessionTarget", ""),
            IF Value(Part(j, "payload"), "kind", "") = "agentTurn"
               \/ Value(j, "sessionKey", "main") \notin {"", "main"}
            THEN "isolated" ELSE "main")
PayloadKind(j) ==
    FirstOf(Value(Part(j, "payload"), "kind", ""),
            IF Target(j) = "main" THEN "systemEvent" ELSE "agentTurn")
Text(j) ==
    LET text    == Value(Part(j, "payload"), "text", "")
        message == Value(Part(j, "payload"), "message", "")
    IN  FirstOf(IF PayloadKind(j) = "systemEvent" THEN FirstOf(text, message)
                ELSE FirstOf(message, text),
                Value(j, "message", ""))

Job(j) ==
    LET kind == Schedule(j, "kind", "kind", "every")
        main == Target(j) = "main"
    IN  [kind |-> kind, at |-> Schedule(j, "at", "at", ""),
         everyMs |-> Schedule(j, "everyMs", "everyMs", ""),
         expr |-> Schedule(j, "expr", "cron", ""),
         sessionTarget |-> Target(j), payloadKind |-> PayloadKind(j), text |-> Text(j),
         sessionKey |-> Value(j, "sessionKey", IF main THEN "main" ELSE JobKey),
         wakeMode |-> Value(j, "wakeMode", "now"),
         delivery |-> Value(Part(j, "delivery"), "mode",
                            IF Target(j) = "isolated" THEN "announce" ELSE "none"),
         enabled |-> Value(j, "enabled", TRUE),
         deleteAfterRun |-> Value(j, "deleteAfterRun", kind = "at"),
         nextRunAt |-> Value(j, "nextRunAt", "first")]

\* parseJobSpec accepts j; strict is the contract of addJob and updateJob,
\* which loadUnsafe does not hold old records to.
Accepts(j, strict) ==
    LET job == Job(j) IN
    /\ \/ job.kind = "at" /\ job.at \in Times
       \/ job.kind = "every" /\ job.everyMs \in Times
       \/ job.kind = "cron" /\ job.expr \in Times
    /\ job.sessionTarget \in {"main", "isolated"}
    /\ job.payloadKind \in {"systemEvent", "agentTurn"}
    /\ job.wakeMode \in {"now", "next-heartbeat"}
    /\ "delivery" \in DOMAIN j => Object("delivery", j)
    /\ job.delivery \in {"none", "announce"}
    /\ strict => /\ job.payloadKind = IF job.sessionTarget = "main" THEN "systemEvent"
                                      ELSE "agentTurn"
                 /\ job.text # ""
                 /\ job.sessionTarget = "main" /\ "delivery" \in DOMAIN j
                       => job.delivery = "none"

\* A variant that forgets a field.
JobToJsonShort(job) ==
    [schedule |-> [kind |-> job.kind, at |-> job.at, everyMs |-> job.everyMs, expr |-> job.expr],
     kind |-> job.kind, at |-> job.at, everyMs |-> job.everyMs, cron |-> job.expr,
     sessionTarget |-> job.sessionTarget, sessionKey |-> job.sessionKey,
     payload |-> [kind |-> job.payloadKind, text |-> job.text, message |-> job.text],
     message |-> job.text, wakeMode |-> job.wakeMode, delivery |-> [mode |-> job.delivery],
     enabled |-> job.enabled, nextRunAt |-> job.nextRunAt]

\* jobToJson: the schedule and the text in every form there is.
JobToJson(job) ==
    [schedule |-> [kind |-> job.kind, at |-> job.at, everyMs |-> job.everyMs, expr |-> job.expr],
     kind |-> job.kind, at |-> job.at, everyMs |-> job.everyMs, cron |-> job.expr,
     sessionTarget |-> job.sessionTarget, sessionKey |-> job.sessionKey,
     payload |-> [kind |-> job.payloadKind, text |-> job.text, message |-> job.text],
     message |-> job.text, wakeMode |-> job.wakeMode, delivery |-> [mode |-> job.delivery],
     enabled |-> job.enabled, deleteAfterRun |-> job.deleteAfterRun,
     nextRunAt |-> job.nextRunAt]

\* mergePatch: what is null goes; objects are nested once.
Nested == {"schedule", "payload", "delivery"}
Left(j, patch) == {f \in DOMAIN j \cup DOMAIN patch : Value(patch, f, "") # Null}
Overlay(j, patch) ==
    [f \in Left(j, patch) |-> IF f \in DOMAIN patch THEN patch[f] ELSE j[f]]
MergePatch(j, patch) ==
    [f \in Left(j, patch) |-> IF f \notin DOMAIN patch THEN j[f]
                              ELSE IF f \in Nested /\ Object(f, patch)
                                   THEN Overlay(Part(j, f), patch[f]) ELSE patch[f]]
-----------------------------------------------------------------------------
\* A job that was accepted is the same job when jobs.json is read again, and
\* still fit to be edited when it was accepted as strictly.
ReadBack(j, strict) ==
    Accepts(j, strict) =>
        /\ Accepts(JobToJson(Job(j)), strict)
        /\ Accepts(JobToJson(Job(j)), FALSE)
        /\ Job(JobToJson(Job(j))) = Job(j)

\* An accepted patch changes what it names, and nothing else: the payload of
\* a kind is patched by the field of that kind, and a next run is computed
\* anew when the patch takes the old one away.
EditIsExact(j, patch) ==
    LET old    == Job(j)
        merged == MergePatch(JobToJson(old), patch)
        field  == IF PayloadKind(merged) = "systemEvent" THEN "text" ELSE "message"
        part(p, f, was) == Value(Part(patch, p), f, was)
    IN  Accepts(j, TRUE) /\ Accepts(merged, TRUE) =>
        Job(merged) =
            [f \in DOMAIN old |->
                CASE f \in {"kind", "at", "everyMs", "expr"} -> part("schedule", f, old[f])
                  [] f = "payloadKind" -> part("payload", "kind", old[f])
                  [] f = "text"        -> part("payload", field, old[f])
                  [] f = "delivery"    -> part("delivery", "mode", old[f])
                  [] f = "nextRunAt"   -> IF Value(patch, f, "") = Null THEN "first"
                                          ELSE Value(patch, f, old[f])
                  [] OTHER             -> Value(patch, f, old[f])]
=============================================================================

---------------------------- MODULE CronCalendar ----------------------------
(***************************************************************************)
(* Cron expressions and the next run they ask for                          *)
(* (src/automation/CronScheduler.cpp): "<minute> <hour> <dayOfWeek>" in    *)
(* UTC.  Instants are seconds since a Sunday's midnight.  The lengths of   *)
(* the minute, the hour, the day and the week are parameters, so that the  *)
(* whole calendar can be walked through with small ones.                   *)
(***************************************************************************)
EXTENDS Integers, Sequences, FiniteSets

CONSTANTS Seconds, Minutes, Hours, Weekdays   \* of a minute, hour, day, week

ASSUME CronCalendarAssumption == {Seconds, Minutes, Hours, Weekdays} \subseteq Nat \ {0}

\* An expression is a sequence of fields; a field is a sequence of the
\* tokens between its commas: Star, a number, or Junk, anything else.
Star == -1
Junk == -2

\* parseCronField: a lone star is the whole range; every other token is a
\* number in the range.  The empty field cannot be written.  Digits that no int
\* holds are Junk: std::stoi throws for them, which the request's handler turns
\* into an error as it does a field that does not parse; nothing has changed.
FieldRange(max) == 0 .. max - 1
ParseField(field, max) ==
    IF field = <<Star>> THEN FieldRange(max)
    ELSE IF \A i \in DOMAIN field : field[i] \in FieldRange(max)
         THEN {field[i] : i \in DOMAIN field}
         ELSE {}

\* parseCronExpr: three fields, all of which parse.
ParseExpr(expr) ==
    IF Len(expr) # 3 THEN {}
    ELSE ParseField(expr[1], Minutes) \X ParseField(expr[2], Hours)
         \X ParseField(expr[3], Weekdays)

MinuteOf(t)  == (t \div Seconds) % Minutes
HourOf(t)    == (t \div (Seconds * Minutes)) % Hours
WeekdayOf(t) == (t \div (Seconds * Minutes * Hours)) % Weekdays
Wanted(t)    == <<MinuteOf(t), HourOf(t), WeekdayOf(t)>>

\* A variant that starts in the minute it is asked in.
CandidateAtOnce(from, i) == from + i * Seconds

\* The i-th instant that is looked at: the second of from, a minute on.
Candidate(from, i) == from + (1 + i) * Seconds

\* computeNextCronRun: the first candidate within two weeks, or -1.
NextRun(expr, from) ==
    LET tried == 0 .. 2 * Weekdays * Hours * Minutes - 1
        hits  == {i \in tried : Wanted(Candidate(from, i)) \in ParseExpr(expr)}
    IN  IF hits = {} THEN -1
        ELSE Candidate(from, CHOOSE i \in hits : \A j \in hits : i <= j)
-----------------------------------------------------------------------------
\* What the next run of expr after from is to be, in terms of the minutes of
\* the calendar: the first one after from's that the expression names.
IsNextRun(expr, from, run) ==
    LET named == {m \in from \div Seconds + 1 .. from \div Seconds + Minutes * Hours * Weekdays :
                     Wanted(m * Seconds) \in ParseExpr(expr)}
    IN  /\ run = -1 <=> ParseExpr(expr) = {}
        /\ run # -1 =>
              /\ run > from
              /\ run \div Seconds \in named
              /\ \A m \in named : run \div Seconds <= m
              /\ run % Seconds = from % Seconds
=============================================================================

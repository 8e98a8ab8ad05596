-------------------------------- MODULE Cron --------------------------------
(***************************************************************************)
(* Cron expressions: internal/scriptrunner/cron.go. A part of a field is   *)
(* its bounds and its step, as the text gives them; an asterisk stands for *)
(* the bounds of the field. The calendar (package time) is external, and   *)
(* small: its sizes are constants.                                         *)
(***************************************************************************)
EXTENDS Integers, Sequences, FiniteSets, Probe

CONSTANTS Minutes, Hours, \* minutes of an hour, hours of a day
          MonthDays,      \* days of the months, of two years
          MaxDay,         \* the last day a month can have
          Weekdays,       \* days of a week
          Limit           \* how far next looks ahead, in minutes

ASSUME CronAssumption ==
  /\ Minutes \in Nat \ {0} /\ Hours \in Nat \ {0} /\ Weekdays \in Nat \ {0}
  /\ MaxDay \in Nat /\ Limit \in Nat
  /\ MonthDays \in Seq(Nat \ {0}) /\ Len(MonthDays) >= 2

-----------------------------------------------------------------------------
(* The calendar: minute t of the two years *)

MinuteOf(t) == t % Minutes
HourOf(t) == (t \div Minutes) % Hours
DayNumber(t) == t \div (Minutes * Hours)
DaysBefore[m \in 1..Len(MonthDays) + 1] ==
  IF m = 1 THEN 0 ELSE DaysBefore[m - 1] + MonthDays[m - 1]
MonthNumber(t) == CHOOSE m \in DOMAIN MonthDays :
                    DaysBefore[m] <= DayNumber(t) /\ DayNumber(t) < DaysBefore[m + 1]
\* The minutes that have a date.
Minute == 0..DaysBefore[Len(MonthDays) + 1] * (Minutes * Hours) - 1
MonthsOfYear == Len(MonthDays) \div 2
MonthOf(t) == 1 + ((MonthNumber(t) - 1) % MonthsOfYear)
DayOf(t) == DayNumber(t) - DaysBefore[MonthNumber(t)] + 1
WeekdayOf(t) == DayNumber(t) % Weekdays

-----------------------------------------------------------------------------
(* Fields *)

\* parseCronField: a part that is out of the field's bounds spoils the expression.
InBounds(part, min, max) == part.start >= min /\ part.end <= max /\ part.start <= part.end
ValidField(f) == \A i \in DOMAIN f.steps : InBounds(f.steps[i], f.min, f.max)
Field(parts, min, max) ==
  [min |-> min, max |-> max,
   steps |-> [i \in DOMAIN parts |-> IF parts[i].all THEN [start |-> min, end |-> max, step |-> parts[i].step]
                                     ELSE [start |-> parts[i].start, end |-> parts[i].end,
                                           step |-> parts[i].step]]]

Match(f, value) ==
  \E i \in DOMAIN f.steps : LET s == f.steps[i]
                            IN value >= s.start /\ value <= s.end /\ (value - s.start) % s.step = 0

Restricted(f) ==
  Len(f.steps) # 1 \/ f.steps[1].start # f.min \/ f.steps[1].end # f.max \/ f.steps[1].step # 1

\* parseCron, of the five fields' parts.
Schedule(e) ==
  [minutes |-> Field(e[1], 0, Minutes - 1), hours |-> Field(e[2], 0, Hours - 1),
   days |-> Field(e[3], 1, MaxDay), months |-> Field(e[4], 1, MonthsOfYear),
   weekdays |-> Field(e[5], 0, Weekdays - 1)]
Valid(s) == /\ ValidField(s.minutes) /\ ValidField(s.hours) /\ ValidField(s.days)
            /\ ValidField(s.months) /\ ValidField(s.weekdays)

\* matchDay. (Mutant: both days must match.)
BothDays(s, t) == Match(s.days, DayOf(t)) /\ Match(s.weekdays, WeekdayOf(t))
MatchDay(s, t) ==
  IF Restricted(s.days) /\ Restricted(s.weekdays)
  THEN Match(s.days, DayOf(t)) \/ Match(s.weekdays, WeekdayOf(t))
  ELSE Match(s.days, DayOf(t)) /\ Match(s.weekdays, WeekdayOf(t))

\* next: minute by minute from the one after; -1 when there is none up to the limit.
Never == -1
Due(s, t) == /\ Match(s.months, MonthOf(t)) /\ MatchDay(s, t)
             /\ Match(s.hours, HourOf(t)) /\ Match(s.minutes, MinuteOf(t))
NextInstant(s, after) ==
  LET limit == after + Limit
      from[t \in 0..limit + 1] == IF t > limit THEN Never ELSE IF Due(s, t) THEN t ELSE from[t + 1]
  IN from[after + 1]

-----------------------------------------------------------------------------
(* What next promises *)

\* Parts as parseCronField reads them: any integers, and a step above 0. A field has a part at
\* least, an expression five fields.
CronParts == [all : BOOLEAN, start : Int, end : Int, step : Nat \ {0}]
CronTexts == [1..5 -> Seq(CronParts) \ {<<>>}]

\* A question next is asked: an expression as parseCronField splits it, and a minute that is as
\* far from the end of the calendar as next looks ahead.
CronAsked(e, after) == e \in CronTexts /\ {after, after + Limit} \subseteq Minute

\* The values a field's text means, and a field that is free: an asterisk, or its range in full.
PartValues(p, min, max) ==
  IF p.all THEN {v \in min..max : (v - min) % p.step = 0}
  ELSE {v \in p.start..p.end : (v - p.start) % p.step = 0}
Values(parts, min, max) == UNION {PartValues(parts[i], min, max) : i \in DOMAIN parts}
Free(parts, min, max) ==
  Len(parts) = 1 /\ parts[1].step = 1 /\ (parts[1].all \/ (parts[1].start = min /\ parts[1].end = max))

\* The instants of an expression by its text.
Fires(e, t) ==
  LET day  == DayOf(t) \in Values(e[3], 1, MaxDay)
      week == WeekdayOf(t) \in Values(e[5], 0, Weekdays - 1)
  IN /\ MinuteOf(t) \in Values(e[1], 0, Minutes - 1) /\ HourOf(t) \in Values(e[2], 0, Hours - 1)
     /\ MonthOf(t) \in Values(e[4], 1, MonthsOfYear)
     /\ IF Free(e[3], 1, MaxDay) \/ Free(e[5], 0, Weekdays - 1) THEN day /\ week ELSE day \/ week

\* Schedule.next is the first instant of a valid expression after the given one, the rule for
\* days of the month and of the week and months of different lengths included, and there is no
\* result only if there is no instant within the limit.
NextIsFirst ==
  probe[1] = "cron" =>
    LET e == probe[2]
        after == probe[3]
        later == {t \in after + 1..after + Limit : Fires(e, t)}
        n == NextInstant(Schedule(e), after)
    IN Valid(Schedule(e)) =>
         IF later = {} THEN n = Never ELSE n \in later /\ \A t \in later : n <= t
=============================================================================

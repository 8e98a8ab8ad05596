---------------------------- MODULE OperatorProofs ----------------------------
(***************************************************************************)
(* The operators of Cron and Targets keep their promises for every input.  *)
(* Their recursive functions are unfolded by induction: a set of numbers   *)
(* of counterexamples would have a least member.                           *)
(***************************************************************************)
EXTENDS Cron, Targets, SequenceTheorems, FiniteSetTheorems, FunctionTheorems,
        WellFoundedInduction, TLAPS

-----------------------------------------------------------------------------
(* Induction over numbers *)

\* The order of the natural numbers is well-founded.
LEMMA NatWellFounded ==
  \E R : IsWellFoundedOn(R, Nat) /\ \A x, y \in Nat : x < y => <<x, y>> \in R
<1>1. \A x, y \in Nat : x < y => <<x, y>> \in OpToRel(<, Nat)
  BY Zenon DEF OpToRel
<1> QED BY ONLY <1>1, NatLessThanWellFounded, Zenon

\* Every set of numbers with a member has a least member.
LEMMA Least ==
  ASSUME NEW T, T \subseteq Nat, T # {}
  PROVE  \E x \in T : \A y \in T : x <= y
<1>1. PICK R : IsWellFoundedOn(R, Nat) /\ \A x, y \in Nat : x < y => <<x, y>> \in R
  BY NatWellFounded
<1>2. IsWellFoundedOn(R, Nat)
  BY <1>1
<1>3. PICK x \in T : \A y \in T : ~(<<y, x>> \in R)
  BY <1>2, WFMin
<1>4. ASSUME NEW y \in T PROVE x <= y
  <2>1. ~(y < x) BY <1>1, <1>3
  <2> QED BY <2>1
<1> QED BY <1>4

\* Induction: a set of numbers that has 0 and with each number the next one is all of them.
LEMMA Induction ==
  ASSUME NEW S, 0 \in S, \A n \in Nat : n \in S => n + 1 \in S
  PROVE  Nat \subseteq S
<1> DEFINE T == {n \in Nat : n \notin S}
<1>1. ASSUME T # {} PROVE FALSE
  <2>1. T \subseteq Nat
    OBVIOUS
  <2>2. PICK x \in T : \A y \in T : x <= y
    <3> HIDE DEF T
    <3> QED BY <1>1, <2>1, Least
  <2>3. x \in Nat /\ x # 0 /\ x - 1 \in Nat /\ (x - 1) + 1 = x
    OBVIOUS
  <2>4. x - 1 \notin T
    BY <2>2, <2>3
  <2> QED BY <2>3, <2>4
<1> QED BY <1>1

\* f is the sequence of values from x on, each a step of the one before.
Iterates(f, x, step, n) ==
  f = [k \in 0..n |-> IF k = 0 THEN x ELSE step[<<f[k - 1], k>>]]

\* A loop of n steps has a sequence of values, whatever the steps.
LEMMA IterationExists ==
  ASSUME NEW X, NEW n \in Nat, NEW x \in X, NEW step \in [X \X (1..n) -> X]
  PROVE  \E f \in [0..n -> X] : Iterates(f, x, step, n)
<1> DEFINE Ok(k) == \E f \in [0..k -> X] : Iterates(f, x, step, k)
           S == {k \in Nat : k <= n => Ok(k)}
<1>1. 0 \in S
  <2> DEFINE f == [k \in 0..0 |-> x]
  <2>1. f \in [0..0 -> X] /\ f = [k \in 0..0 |-> IF k = 0 THEN x ELSE step[<<f[k - 1], k>>]]
    OBVIOUS
  <2> HIDE DEF f
  <2>2. Iterates(f, x, step, 0)
    BY <2>1 DEF Iterates
  <2> QED BY <2>1, <2>2
<1>2. ASSUME NEW k \in Nat, k \in S PROVE k + 1 \in S
  <2> SUFFICES ASSUME k + 1 <= n PROVE Ok(k + 1)
    OBVIOUS
  <2>1. PICK f \in [0..k -> X] : Iterates(f, x, step, k)
    BY <1>2
  <2> DEFINE g == [i \in 0..k + 1 |-> IF i = k + 1 THEN step[<<f[k], k + 1>>] ELSE f[i]]
  <2>2. /\ k + 1 \in 1..n /\ k \in 0..k /\ f[k] \in X
        /\ step[<<f[k], k + 1>>] \in X
    OBVIOUS
  <2>3. g \in [0..k + 1 -> X]
    BY <2>2
  <2>4. ASSUME NEW i \in 0..k + 1 PROVE g[i] = IF i = 0 THEN x ELSE step[<<g[i - 1], i>>]
    <3>1. CASE i = k + 1
      <4>1. i # 0 /\ i - 1 = k /\ i - 1 \in 0..k + 1 /\ i - 1 # k + 1
        BY <3>1
      <4> QED BY <3>1, <4>1
    <3>2. CASE i # k + 1
      <4>1. i \in 0..k
        BY <3>2
      <4>2. g[i] = f[i]
        BY <3>2
      <4>3. f[i] = IF i = 0 THEN x ELSE step[<<f[i - 1], i>>]
        BY <2>1, <4>1 DEF Iterates
      <4>4. i # 0 => i - 1 \in 0..k + 1 /\ i - 1 # k + 1
        BY <4>1
      <4> QED BY <4>2, <4>3, <4>4
    <3> QED BY <3>1, <3>2
  <2>5. g = [i \in 0..k + 1 |-> g[i]]
    OBVIOUS
  <2> HIDE DEF g
  <2>6. Iterates(g, x, step, k + 1)
    BY <2>4, <2>5 DEF Iterates
  <2> QED BY <2>3, <2>6
<1>3. Nat \subseteq S
  <2> HIDE DEF S
  <2> QED BY <1>1, <1>2, Induction
<1> QED BY <1>3

-----------------------------------------------------------------------------
(* Cron: the calendar *)

Months == Len(MonthDays)

\* The sums of the months' lengths exist.
LEMMA SumsExist ==
  ASSUME NEW a \in Seq(Nat), NEW n \in Nat
  PROVE  n <= Len(a) =>
           \E f : f = [m \in 1..n + 1 |-> IF m = 1 THEN 0 ELSE f[m - 1] + a[m - 1]]
<1> DEFINE Ok(k) == \E f : f = [m \in 1..k + 1 |-> IF m = 1 THEN 0 ELSE f[m - 1] + a[m - 1]]
           S == {k \in Nat : k <= Len(a) => Ok(k)}
<1>1. 0 \in S
  <2>1. [m \in 1..1 |-> 0] = [m \in 1..0 + 1 |-> IF m = 1 THEN 0 ELSE [j \in 1..1 |-> 0][m - 1] + a[m - 1]]
    OBVIOUS
  <2> QED BY <2>1
<1>2. ASSUME NEW k \in Nat, k \in S PROVE k + 1 \in S
  <2> SUFFICES ASSUME k + 1 <= Len(a) PROVE Ok(k + 1)
    OBVIOUS
  <2>1. PICK f : f = [m \in 1..k + 1 |-> IF m = 1 THEN 0 ELSE f[m - 1] + a[m - 1]]
    BY <1>2
  <2> DEFINE g == [m \in 1..k + 2 |-> IF m = k + 2 THEN f[k + 1] + a[k + 1] ELSE f[m]]
  <2>2. ASSUME NEW m \in 1..k + 2 PROVE g[m] = IF m = 1 THEN 0 ELSE g[m - 1] + a[m - 1]
    <3>1. CASE m = k + 2
      <4>1. m # 1 /\ m - 1 = k + 1 /\ m - 1 \in 1..k + 2 /\ m - 1 # k + 2
        BY <3>1
      <4> QED BY <3>1, <4>1
    <3>2. CASE m # k + 2
      <4>1. m \in 1..k + 1
        BY <3>2
      <4>2. g[m] = f[m]
        BY <3>2
      <4>3. f[m] = IF m = 1 THEN 0 ELSE f[m - 1] + a[m - 1]
        BY <2>1, <4>1
      <4>4. m # 1 => m - 1 \in 1..k + 2 /\ m - 1 # k + 2
        BY <4>1
      <4> QED BY <4>2, <4>3, <4>4
    <3> QED BY <3>1, <3>2
  <2>3. g = [m \in 1..(k + 1) + 1 |-> IF m = 1 THEN 0 ELSE g[m - 1] + a[m - 1]]
    <3>1. (k + 1) + 1 = k + 2
      OBVIOUS
    <3>2. g = [m \in 1..k + 2 |-> g[m]]
      OBVIOUS
    <3> HIDE DEF g
    <3> QED BY <2>2, <3>1, <3>2
  <2> HIDE DEF g
  <2> QED BY <2>3
<1>3. Nat \subseteq S
  <2> HIDE DEF S
  <2> QED BY <1>1, <1>2, Induction
<1> QED BY <1>3

\* The recursive function DaysBefore is what its definition says.
LEMMA DaysBeforeDef ==
  DaysBefore = [m \in 1..Months + 1 |-> IF m = 1 THEN 0 ELSE DaysBefore[m - 1] + MonthDays[m - 1]]
<1>1. MonthDays \in Seq(Nat) /\ Months \in Nat
  BY CronAssumption DEF Months
<1>2. \E f : f = [m \in 1..Months + 1 |-> IF m = 1 THEN 0 ELSE f[m - 1] + MonthDays[m - 1]]
  BY <1>1, SumsExist DEF Months
<1> QED BY <1>2 DEF DaysBefore, Months

\* The days before a month are those before the month before it and the days of that month.
LEMMA DaysBeforeFacts ==
  /\ DaysBefore[1] = 0
  /\ \A m \in 1..Months : DaysBefore[m + 1] = DaysBefore[m] + MonthDays[m]
  /\ \A m \in 1..Months + 1 : DaysBefore[m] \in Nat
<1>1. Months \in Nat /\ \A m \in 1..Months : MonthDays[m] \in Nat
  BY CronAssumption DEF Months
<1>2. DaysBefore[1] = 0
  BY <1>1, DaysBeforeDef
<1>3. ASSUME NEW m \in 1..Months PROVE DaysBefore[m + 1] = DaysBefore[m] + MonthDays[m]
  <2>1. m + 1 \in 1..Months + 1 /\ m + 1 # 1 /\ (m + 1) - 1 = m
    BY <1>1
  <2>2. DaysBefore[m + 1] = IF m + 1 = 1 THEN 0 ELSE DaysBefore[(m + 1) - 1] + MonthDays[(m + 1) - 1]
    BY <2>1, DaysBeforeDef
  <2> QED BY <2>1, <2>2
<1> DEFINE S == {k \in Nat : k <= Months => DaysBefore[k + 1] \in Nat}
<1>4. 0 \in S
  BY <1>2
<1>5. ASSUME NEW k \in Nat, k \in S PROVE k + 1 \in S
  <2> SUFFICES ASSUME k + 1 <= Months PROVE DaysBefore[(k + 1) + 1] \in Nat
    OBVIOUS
  <2>1. k + 1 \in 1..Months /\ DaysBefore[k + 1] \in Nat
    BY <1>1, <1>5
  <2> QED BY <1>1, <1>3, <2>1
<1>6. Nat \subseteq S
  <2> HIDE DEF S
  <2> QED BY <1>4, <1>5, Induction
<1>7. ASSUME NEW m \in 1..Months + 1 PROVE DaysBefore[m] \in Nat
  <2>1. m - 1 \in Nat /\ m - 1 <= Months /\ (m - 1) + 1 = m
    BY <1>1
  <2> QED BY <1>6, <2>1
<1> QED BY <1>2, <1>3, <1>7

\* Divisions of natural numbers.
LEMMA Divided ==
  \A t \in Nat, k \in Nat \ {0} :
    /\ t \div k \in Nat /\ t % k \in 0..k - 1
    /\ \A d \in Nat : t < d * k => t \div k < d
<1> SUFFICES ASSUME NEW t \in Nat, NEW k \in Nat \ {0}
             PROVE  /\ t \div k \in Nat /\ t % k \in 0..k - 1
                    /\ \A d \in Nat : t < d * k => t \div k < d
  OBVIOUS
<1>1. t \div k \in Nat /\ t % k \in 0..k - 1 /\ t = k * (t \div k) + (t % k)
  OBVIOUS
<1>2. ASSUME NEW d \in Nat, t < d * k, ~(t \div k < d) PROVE FALSE
  <2> DEFINE q == t \div k
  <2>1. q \in Nat /\ q >= d /\ k * q <= t
    BY <1>1, <1>2
  <2> HIDE DEF q
  <2>2. k * q >= k * d /\ k * d = d * k
    BY <2>1
  <2> QED BY <1>2, <2>1, <2>2
<1> QED BY <1>1, <1>2

\* Every minute of the calendar has a month, and a day that month has; all parts of its date are
\* numbers of their field.
LEMMA Dated ==
  ASSUME NEW t \in Minute
  PROVE  /\ MonthNumber(t) \in 1..Months
         /\ MonthOf(t) \in 1..MonthsOfYear
         /\ DayOf(t) \in 1..MonthDays[MonthNumber(t)]
         /\ WeekdayOf(t) \in 0..Weekdays - 1
         /\ HourOf(t) \in 0..Hours - 1
         /\ MinuteOf(t) \in 0..Minutes - 1
<1> DEFINE n == DayNumber(t)
           T == {m \in 1..Months + 1 : n < DaysBefore[m]}
<1>1. Months \in Nat /\ Months >= 2 /\ DOMAIN MonthDays = 1..Months
  BY CronAssumption DEF Months
<1>2. /\ DaysBefore[1] = 0
      /\ \A m \in 1..Months : DaysBefore[m + 1] = DaysBefore[m] + MonthDays[m]
      /\ \A m \in 1..Months + 1 : DaysBefore[m] \in Nat
  BY DaysBeforeFacts
<1>3. Minutes * Hours \in Nat \ {0}
  BY CronAssumption
<1>4. /\ t \in Nat /\ Months + 1 \in 1..Months + 1
      /\ t < DaysBefore[Months + 1] * (Minutes * Hours)
  <2> DEFINE k == Minutes * Hours
             d == DaysBefore[Months + 1]
  <2>1. d \in Nat /\ k \in Nat /\ t \in 0..d * k - 1
    BY <1>1, <1>2, <1>3 DEF Minute, Months
  <2> HIDE DEF d, k
  <2>2. d * k \in Nat
    BY <2>1
  <2>3. t \in Nat /\ t < d * k
    BY <2>1, <2>2
  <2> QED BY <1>1, <2>3 DEF d, k
<1>5. n \in Nat /\ n < DaysBefore[Months + 1]
  BY <1>2, <1>3, <1>4, Divided DEF DayNumber
<1> HIDE DEF n
<1>6. PICK m \in T : \A i \in T : m <= i
  <2>1. T \subseteq Nat /\ T # {}
    BY <1>4, <1>5
  <2> HIDE DEF T
  <2> QED BY <2>1, Least
<1>7. /\ m \in 2..Months + 1 /\ m - 1 \in 1..Months /\ (m - 1) + 1 = m
      /\ DaysBefore[m - 1] <= n /\ n < DaysBefore[(m - 1) + 1]
  <2>1. m \in 1..Months + 1 /\ n < DaysBefore[m]
    BY <1>6
  <2>2. m # 1
    BY <1>2, <1>5, <2>1
  <2>3. m - 1 \in 1..Months + 1 /\ ~(m <= m - 1)
    BY <1>1, <2>1, <2>2
  <2>4. ~(n < DaysBefore[m - 1])
    BY <1>6, <2>3
  <2> QED BY <1>1, <1>2, <1>5, <2>1, <2>2, <2>3, <2>4
<1>8. /\ MonthNumber(t) \in 1..Months
      /\ DaysBefore[MonthNumber(t)] <= n /\ n < DaysBefore[MonthNumber(t) + 1]
  BY <1>1, <1>7 DEF MonthNumber, n
<1> DEFINE mm == MonthNumber(t)
<1> HIDE DEF mm
<1>9. /\ mm \in 1..Months /\ DaysBefore[mm] <= n /\ n < DaysBefore[mm] + MonthDays[mm]
      /\ DaysBefore[mm] \in Nat /\ MonthDays[mm] \in Nat
  <2>1. mm \in 1..Months /\ DaysBefore[mm] <= n /\ n < DaysBefore[mm + 1]
    BY <1>8 DEF mm
  <2>2. MonthDays[mm] \in Nat
    BY <1>1, <2>1, CronAssumption
  <2>3. DaysBefore[mm + 1] = DaysBefore[mm] + MonthDays[mm] /\ DaysBefore[mm] \in Nat
    BY <1>1, <1>2, <2>1
  <2> QED BY <2>1, <2>2, <2>3
<1>10. DayOf(t) \in 1..MonthDays[mm]
  <2>1. DayOf(t) = n - DaysBefore[mm] + 1
    BY DEF DayOf, n, mm
  <2> QED BY <1>5, <1>9, <2>1
<1>11. MonthOf(t) \in 1..MonthsOfYear
  <2>1. MonthsOfYear \in Nat \ {0}
    BY <1>1, CronAssumption DEF MonthsOfYear, Months
  <2>2. mm - 1 \in Nat
    BY <1>1, <1>9
  <2>3. (mm - 1) % MonthsOfYear \in 0..MonthsOfYear - 1
    BY <2>1, <2>2, Divided
  <2> QED BY <2>1, <2>3 DEF MonthOf, mm
<1>12. WeekdayOf(t) \in 0..Weekdays - 1
  BY <1>5, CronAssumption, Divided DEF WeekdayOf, n
<1>13. MinuteOf(t) \in 0..Minutes - 1
  BY <1>4, CronAssumption, Divided DEF MinuteOf
<1>14. HourOf(t) \in 0..Hours - 1
  BY <1>4, CronAssumption, Divided DEF HourOf
<1> QED BY <1>9, <1>10, <1>11, <1>12, <1>13, <1>14 DEF mm

-----------------------------------------------------------------------------
(* Cron: fields and days *)

\* A field as parseCronField leaves it holds the values its text means.
LEMMA MatchValues ==
  ASSUME NEW parts \in Seq(CronParts), NEW min \in Int, NEW max \in Int, NEW v \in Int
  PROVE  Match(Field(parts, min, max), v) <=> v \in Values(parts, min, max)
<1> DEFINE Of(i) == IF parts[i].all THEN [start |-> min, end |-> max, step |-> parts[i].step]
                    ELSE [start |-> parts[i].start, end |-> parts[i].end, step |-> parts[i].step]
           Has(i) == v >= Of(i).start /\ v <= Of(i).end /\ (v - Of(i).start) % Of(i).step = 0
<1>1. /\ DOMAIN Field(parts, min, max).steps = DOMAIN parts
      /\ \A i \in DOMAIN parts : Field(parts, min, max).steps[i] = Of(i)
  BY DEF Field
<1>2. Match(Field(parts, min, max), v) <=> \E i \in DOMAIN parts : Has(i)
  BY <1>1 DEF Match
<1>3. ASSUME NEW i \in DOMAIN parts PROVE Has(i) <=> v \in PartValues(parts[i], min, max)
  <2>1. parts[i] \in CronParts
    OBVIOUS
  <2>2. parts[i].start \in Int /\ parts[i].end \in Int
    BY <2>1 DEF CronParts
  <2>3. CASE parts[i].all
    BY <2>2, <2>3 DEF PartValues
  <2>4. CASE ~parts[i].all
    BY <2>2, <2>4 DEF PartValues
  <2> QED BY <2>3, <2>4
<1>4. v \in Values(parts, min, max) <=> \E i \in DOMAIN parts : v \in PartValues(parts[i], min, max)
  BY Zenon DEF Values
<1> HIDE DEF Has
<1> QED BY <1>2, <1>3, <1>4

\* restricted says of a field whether its text leaves it free.
LEMMA RestrictedFree ==
  ASSUME NEW parts \in Seq(CronParts) \ {<<>>}, NEW min \in Int, NEW max \in Int
  PROVE  Restricted(Field(parts, min, max)) <=> ~Free(parts, min, max)
<1> DEFINE f == Field(parts, min, max)
           p == parts[1]
           s == IF p.all THEN [start |-> min, end |-> max, step |-> p.step]
                ELSE [start |-> p.start, end |-> p.end, step |-> p.step]
<1>1. 1 \in DOMAIN parts /\ Len(parts) \in Nat /\ DOMAIN parts = 1..Len(parts)
  OBVIOUS
<1>2. f.min = min /\ f.max = max /\ f.steps[1] = s
  BY <1>1 DEF Field
<1>3. Len(f.steps) = Len(parts)
  <2>1. f.steps = [i \in 1..Len(parts) |-> f.steps[i]]
    BY <1>1 DEF Field
  <2> HIDE DEF f
  <2> QED BY <1>1, <2>1
<1> HIDE DEF f
<1>4. Restricted(f) <=> Len(parts) # 1 \/ s.start # min \/ s.end # max \/ s.step # 1
  BY <1>2, <1>3 DEF Restricted
<1>5. CASE p.all
  BY <1>4, <1>5 DEF Free, f
<1>6. CASE ~p.all
  BY <1>4, <1>6 DEF Free, f
<1> QED BY <1>5, <1>6

\* The parsed expression is due at the minutes the text means.
LEMMA DueFires ==
  ASSUME NEW e \in CronTexts, NEW t \in Minute
  PROVE  Due(Schedule(e), t) <=> Fires(e, t)
<1> DEFINE s == Schedule(e)
<1>1. \A i \in 1..5 : e[i] \in Seq(CronParts) /\ e[i] \in Seq(CronParts) \ {<<>>}
  BY DEF CronTexts
<1>2. /\ MonthOf(t) \in Int /\ DayOf(t) \in Int /\ WeekdayOf(t) \in Int
      /\ HourOf(t) \in Int /\ MinuteOf(t) \in Int
  <2>1. MonthNumber(t) \in 1..Months /\ DayOf(t) \in 1..MonthDays[MonthNumber(t)]
    BY Dated
  <2> QED BY Dated
<1>3. /\ MaxDay \in Int /\ MonthsOfYear \in Int /\ Weekdays - 1 \in Int /\ Hours - 1 \in Int
      /\ Minutes - 1 \in Int
  BY CronAssumption DEF MonthsOfYear
<1>4. /\ s.minutes = Field(e[1], 0, Minutes - 1) /\ s.hours = Field(e[2], 0, Hours - 1)
      /\ s.days = Field(e[3], 1, MaxDay) /\ s.months = Field(e[4], 1, MonthsOfYear)
      /\ s.weekdays = Field(e[5], 0, Weekdays - 1)
  BY DEF Schedule
<1>5. \A i \in 1..5, min, max, v \in Int :
        Match(Field(e[i], min, max), v) <=> v \in Values(e[i], min, max)
  BY <1>1, MatchValues
<1>6. \A i \in 1..5, min, max \in Int : Restricted(Field(e[i], min, max)) <=> ~Free(e[i], min, max)
  BY <1>1, RestrictedFree
<1> HIDE DEF s
<1>8. Match(s.minutes, MinuteOf(t)) <=> MinuteOf(t) \in Values(e[1], 0, Minutes - 1)
  BY <1>2, <1>3, <1>4, <1>5
<1>9. Match(s.hours, HourOf(t)) <=> HourOf(t) \in Values(e[2], 0, Hours - 1)
  BY <1>2, <1>3, <1>4, <1>5
<1>10. Match(s.days, DayOf(t)) <=> DayOf(t) \in Values(e[3], 1, MaxDay)
  BY <1>2, <1>3, <1>4, <1>5
<1>11. Match(s.months, MonthOf(t)) <=> MonthOf(t) \in Values(e[4], 1, MonthsOfYear)
  BY <1>2, <1>3, <1>4, <1>5
<1>12. Match(s.weekdays, WeekdayOf(t)) <=> WeekdayOf(t) \in Values(e[5], 0, Weekdays - 1)
  BY <1>2, <1>3, <1>4, <1>5
<1>13. /\ Restricted(s.days) <=> ~Free(e[3], 1, MaxDay)
       /\ Restricted(s.weekdays) <=> ~Free(e[5], 0, Weekdays - 1)
  BY <1>3, <1>4, <1>6
<1> QED BY <1>8, <1>9, <1>10, <1>11, <1>12, <1>13 DEF Due, MatchDay, Fires, s

-----------------------------------------------------------------------------
(* Cron: the search *)

\* The first member of D from t on, up to the limit.
IsFirst(n, D, t, limit) ==
  \/ n = Never /\ \A u \in t..limit : u \notin D
  \/ n \in t..limit /\ n \in D /\ \A u \in t..limit : u \in D => n <= u

\* There is one, and no other.
LEMMA FirstExists ==
  ASSUME NEW D, NEW t \in Nat, NEW limit \in Nat
  PROVE  /\ \E n \in Int : IsFirst(n, D, t, limit)
         /\ \A n, k : IsFirst(n, D, t, limit) /\ IsFirst(k, D, t, limit) => n = k
<1> DEFINE T == {u \in t..limit : u \in D}
<1>1. \E n \in Int : IsFirst(n, D, t, limit)
  <2>1. CASE T = {}
    <3>1. IsFirst(Never, D, t, limit)
      BY <2>1 DEF IsFirst
    <3> QED BY <3>1 DEF Never
  <2>2. CASE T # {}
    <3>1. PICK n \in T : \A u \in T : n <= u
      <4>1. T \subseteq Nat
        OBVIOUS
      <4> HIDE DEF T
      <4> QED BY <2>2, <4>1, Least
    <3>2. IsFirst(n, D, t, limit) /\ n \in Int
      BY <3>1 DEF IsFirst
    <3> QED BY <3>2
  <2> QED BY <2>1, <2>2
<1>2. ASSUME NEW n, NEW k, IsFirst(n, D, t, limit), IsFirst(k, D, t, limit) PROVE n = k
  BY <1>2 DEF IsFirst, Never
<1> QED BY <1>1, <1>2

\* f searches minute by minute.
Searches(f, D, limit) ==
  f = [t \in 0..limit + 1 |-> IF t > limit THEN Never ELSE IF t \in D THEN t ELSE f[t + 1]]

\* A search finds it: the recursive function has a value, and the value at t is
\* the first member from t on.
LEMMA SearchExists ==
  ASSUME NEW D, NEW limit \in Nat
  PROVE  \E f : Searches(f, D, limit)
<1> DEFINE w == [t \in 0..limit + 1 |-> CHOOSE n \in Int : IsFirst(n, D, t, limit)]
<1>1. ASSUME NEW t \in 0..limit + 1 PROVE IsFirst(w[t], D, t, limit)
  <2>1. t \in Nat /\ \E n \in Int : IsFirst(n, D, t, limit)
    BY FirstExists
  <2>2. w[t] = CHOOSE n \in Int : IsFirst(n, D, t, limit)
    OBVIOUS
  <2> HIDE DEF w
  <2> QED BY <2>1, <2>2
<1> HIDE DEF w
<1>2. ASSUME NEW t \in 0..limit + 1
      PROVE  w[t] = IF t > limit THEN Never ELSE IF t \in D THEN t ELSE w[t + 1]
  <2>1. CASE t > limit
    BY <1>1, <2>1 DEF IsFirst
  <2>2. CASE t <= limit /\ t \in D
    <3>1. t \in t..limit /\ t \in Int
      BY <2>2
    <3> QED BY <1>1, <2>2, <3>1 DEF IsFirst
  <2>3. CASE t <= limit /\ t \notin D
    <3>1. t + 1 \in 0..limit + 1 /\ t \in Nat /\ ~(t > limit)
      BY <2>3
    <3>2. IsFirst(w[t + 1], D, t + 1, limit)
      BY <1>1, <3>1
    <3>3. \A u \in t..limit : u = t \/ u \in t + 1..limit
      OBVIOUS
    <3>4. \A u \in t + 1..limit : u \in t..limit
      OBVIOUS
    <3>5. IsFirst(w[t + 1], D, t, limit)
      BY <2>3, <3>2, <3>3, <3>4 DEF IsFirst
    <3>6. IsFirst(w[t], D, t, limit)
      BY <1>1
    <3>7. w[t] = w[t + 1]
      BY <3>1, <3>5, <3>6, FirstExists
    <3> QED BY <2>3, <3>1, <3>7
  <2> QED BY <2>1, <2>2, <2>3
<1>3. w = [t \in 0..limit + 1 |-> w[t]]
  BY DEF w
<1>4. w = [t \in 0..limit + 1 |-> IF t > limit THEN Never ELSE IF t \in D THEN t ELSE w[t + 1]]
  BY <1>2, <1>3
<1> QED BY <1>4 DEF Searches

\* Whatever function searches so finds the first member.
LEMMA SearchFinds ==
  ASSUME NEW D, NEW limit \in Nat, NEW f, Searches(f, D, limit)
  PROVE  \A t \in 0..limit + 1 : IsFirst(f[t], D, t, limit)
<1> DEFINE S == {k \in Nat : k <= limit + 1 =>
                                IsFirst(f[(limit + 1) - k], D, (limit + 1) - k, limit)}
<1>0. f = [t \in 0..limit + 1 |-> IF t > limit THEN Never ELSE IF t \in D THEN t ELSE f[t + 1]]
  BY DEF Searches
<1>1. 0 \in S
  <2>1. limit + 1 \in 0..limit + 1 /\ limit + 1 > limit /\ (limit + 1) - 0 = limit + 1
    OBVIOUS
  <2>2. f[limit + 1] = Never
    BY <1>0, <2>1
  <2>3. IsFirst(f[limit + 1], D, limit + 1, limit)
    BY <2>2 DEF IsFirst
  <2> QED BY <2>1, <2>3
<1>2. ASSUME NEW k \in Nat, k \in S PROVE k + 1 \in S
  <2> SUFFICES ASSUME k + 1 <= limit + 1
               PROVE IsFirst(f[(limit + 1) - (k + 1)], D, (limit + 1) - (k + 1), limit)
    OBVIOUS
  <2> DEFINE t == limit - k
  <2>1. /\ t \in 0..limit /\ t + 1 = (limit + 1) - k /\ t = (limit + 1) - (k + 1)
        /\ t \in 0..limit + 1 /\ ~(t > limit) /\ k <= limit + 1
    OBVIOUS
  <2>2. IsFirst(f[t + 1], D, t + 1, limit)
    BY <1>2, <2>1
  <2> HIDE DEF t
  <2>3. f[t] = IF t \in D THEN t ELSE f[t + 1]
    BY <1>0, <2>1
  <2>4. CASE t \in D
    BY <2>1, <2>3, <2>4 DEF IsFirst
  <2>5. CASE t \notin D
    <3>1. \A u \in t..limit : u = t \/ u \in t + 1..limit
      BY <2>1
    <3>2. \A u \in t + 1..limit : u \in t..limit
      BY <2>1
    <3> QED BY <2>1, <2>2, <2>3, <2>5, <3>1, <3>2 DEF IsFirst
  <2> QED BY <2>1, <2>4, <2>5
<1>3. Nat \subseteq S
  <2> HIDE DEF S
  <2> QED BY <1>1, <1>2, Induction
<1>4. ASSUME NEW t \in 0..limit + 1 PROVE IsFirst(f[t], D, t, limit)
  <2>1. (limit + 1) - t \in Nat /\ (limit + 1) - t <= limit + 1 /\ (limit + 1) - ((limit + 1) - t) = t
    OBVIOUS
  <2> QED BY <1>3, <2>1
<1> QED BY <1>4

\* next returns the first minute after the given one at which the schedule is due.
LEMMA NextInstantFirst ==
  ASSUME NEW s, NEW after \in Nat
  PROVE  IsFirst(NextInstant(s, after), {t \in Nat : Due(s, t)}, after + 1, after + Limit)
<1> DEFINE limit == after + Limit
           D == {t \in Nat : Due(s, t)}
           F(f) == f = [t \in 0..limit + 1 |-> IF t > limit THEN Never
                                               ELSE IF Due(s, t) THEN t ELSE f[t + 1]]
<1>1. limit \in Nat /\ after + 1 \in 0..limit + 1
  BY CronAssumption
<1>2. \A f : F(f) <=> Searches(f, D, limit)
  BY DEF Searches
<1>3. \E f : Searches(f, D, limit)
  BY <1>1, SearchExists
<1>4. NextInstant(s, after) = (CHOOSE f : F(f))[after + 1]
  BY DEF NextInstant
<1>5. PICK f : f = CHOOSE g : F(g)
  OBVIOUS
<1> HIDE DEF F
<1>6. Searches(f, D, limit)
  BY <1>2, <1>3, <1>5
<1>7. IsFirst(f[after + 1], D, after + 1, limit)
  BY <1>1, <1>6, SearchFinds
<1> QED BY <1>4, <1>5, <1>7

-----------------------------------------------------------------------------
(* Cron: the theorem *)

\* Schedule.next is the first instant of a valid expression after the given one, and there is no
\* result only if there is no instant within the limit: for every expression, whatever its parts,
\* for every calendar of two years, and for every limit.
THEOREM NextIsFirstHolds ==
  ASSUME probe[1] = "cron" => CronAsked(probe[2], probe[3])
  PROVE  NextIsFirst
<1> SUFFICES ASSUME probe[1] = "cron", NEW e, NEW after, e = probe[2], after = probe[3]
             PROVE  LET later == {t \in after + 1..after + Limit : Fires(e, t)}
                        n == NextInstant(Schedule(e), after)
                    IN IF later = {} THEN n = Never ELSE n \in later /\ \A t \in later : n <= t
  BY DEF NextIsFirst
<1> DEFINE later == {t \in after + 1..after + Limit : Fires(e, t)}
           n == NextInstant(Schedule(e), after)
           D == {t \in Nat : Due(Schedule(e), t)}
<1>1. e \in CronTexts /\ after \in Minute /\ after + Limit \in Minute
  BY DEF CronAsked
<1>2. after \in Nat /\ after + 1..after + Limit \subseteq Minute
  <2> DEFINE x == DaysBefore[Len(MonthDays) + 1] * (Minutes * Hours)
  <2>1. DaysBefore[Len(MonthDays) + 1] \in Nat /\ Minutes * Hours \in Nat
    BY CronAssumption, DaysBeforeFacts DEF Months
  <2>2. after \in 0..x - 1 /\ after + Limit \in 0..x - 1 /\ Minute = 0..x - 1 /\ Limit \in Nat
    BY <1>1, CronAssumption DEF Minute
  <2>3. x \in Int
    BY <2>1
  <2> HIDE DEF x
  <2>4. after \in Nat
    BY <2>2
  <2>5. ASSUME NEW t \in after + 1..after + Limit PROVE t \in 0..x - 1
    <3>1. t \in Int /\ t >= 0 /\ t <= after + Limit
      BY <2>2, <2>4
    <3> QED BY <2>3, <2>2, <3>1
  <2> QED BY <2>2, <2>4, <2>5
<1>3. \A t \in after + 1..after + Limit : t \in D <=> t \in later
  BY <1>1, <1>2, DueFires
<1>4. IsFirst(n, D, after + 1, after + Limit)
  BY <1>2, NextInstantFirst
<1>5. later \subseteq after + 1..after + Limit
  OBVIOUS
<1> HIDE DEF later, D, n
<1>6. IF later = {} THEN n = Never ELSE n \in later /\ \A t \in later : n <= t
  BY <1>3, <1>4, <1>5 DEF IsFirst
<1> QED BY <1>6 DEF later, n

-----------------------------------------------------------------------------
(* Targets: the loop *)

Servers == Int \X Int
Distinct(out) == \A i, j \in DOMAIN out : i # j => out[i][1] # out[j][1]

\* The members of a sequence and of one with another member at the end.
LEMMA Appended ==
  \A s \in Seq(Servers), t \in Servers :
    /\ Append(s, t) \in Seq(Servers)
    /\ Range(Append(s, t)) = Range(s) \cup {t}
    /\ Seen(Append(s, t)) = Seen(s) \cup {t[1]}
    /\ Distinct(s) /\ t[1] \notin Seen(s) => Distinct(Append(s, t))
<1> SUFFICES ASSUME NEW s \in Seq(Servers), NEW t \in Servers
             PROVE  /\ Append(s, t) \in Seq(Servers)
                    /\ Range(Append(s, t)) = Range(s) \cup {t}
                    /\ Seen(Append(s, t)) = Seen(s) \cup {t[1]}
                    /\ Distinct(s) /\ t[1] \notin Seen(s) => Distinct(Append(s, t))
  OBVIOUS
<1> DEFINE a == Append(s, t)
           n == Len(s)
<1>1. /\ a \in Seq(Servers) /\ n \in Nat /\ DOMAIN s = 1..n /\ DOMAIN a = 1..n + 1
      /\ a[n + 1] = t /\ \A i \in 1..n : a[i] = s[i]
  OBVIOUS
<1> HIDE DEF a, n
<1>2. \A i \in DOMAIN a : i = n + 1 \/ i \in DOMAIN s
  BY <1>1
<1>3. DOMAIN s \subseteq DOMAIN a /\ n + 1 \in DOMAIN a
  BY <1>1
<1>4. Range(a) = Range(s) \cup {t}
  BY <1>1, <1>2, <1>3 DEF Range
<1>5. Seen(a) = Seen(s) \cup {t[1]}
  BY <1>1, <1>2, <1>3 DEF Seen
<1>6. ASSUME Distinct(s), t[1] \notin Seen(s) PROVE Distinct(a)
  <2>1. \A i \in DOMAIN s : a[i] = s[i] /\ s[i][1] # t[1]
    BY <1>1, <1>6 DEF Seen
  <2> QED BY <1>1, <1>2, <1>6, <2>1 DEF Distinct
<1> QED BY <1>1, <1>4, <1>5, <1>6 DEF a

\* What the loop over the first n targets has made of out.
Loop(ts, n, port, out, r) ==
  /\ r \in Seq(Servers)
  /\ Distinct(out) => Distinct(r)
  /\ Range(out) \subseteq Range(r)
  /\ \A x \in Range(r) : \/ x \in Range(out)
                         \/ x[2] = port /\ x[1] \notin Seen(out) /\ \E i \in 1..n : x = ts[i]
  /\ \A i \in 1..n : ts[i][2] = port => ts[i][1] \in Seen(r)

\* The addresses seen are those of the members.
LEMMA SeenRange == \A s \in Seq(Servers) : \A a : a \in Seen(s) <=> \E x \in Range(s) : x[1] = a
BY DEF Seen, Range

\* One round of the loop.
LEMMA LoopStep ==
  ASSUME NEW ts \in Seq(Servers), NEW n \in 1..Len(ts), NEW port, NEW out \in Seq(Servers),
         NEW r, Loop(ts, n - 1, port, out, r)
  PROVE  Loop(ts, n, port, out, Kept(r, ts[n], port))
<1> DEFINE t == ts[n]
           k == Kept(r, t, port)
<1>1. t \in Servers /\ r \in Seq(Servers) /\ Len(ts) \in Nat
  BY DEF Loop
<1>2. \A i \in 1..n : i = n \/ i \in 1..n - 1
  BY <1>1
<1>3. \A i \in 1..n - 1 : i \in 1..n
  BY <1>1
<1>4. n \in 1..n
  BY <1>1
<1>5. CASE t[2] = port /\ t[1] \notin Seen(r)
  <2>1. k = Append(r, t)
    BY <1>5 DEF Kept
  <2>2. /\ k \in Seq(Servers) /\ Range(k) = Range(r) \cup {t} /\ Seen(k) = Seen(r) \cup {t[1]}
        /\ Distinct(r) => Distinct(k)
    BY <1>1, <1>5, <2>1, Appended
  <2>3. t[1] \notin Seen(out)
    BY <1>1, <1>5, SeenRange DEF Loop
  <2> HIDE DEF k
  <2> QED BY <1>2, <1>3, <1>4, <1>5, <2>2, <2>3 DEF Loop, k
<1>6. CASE ~(t[2] = port /\ t[1] \notin Seen(r))
  <2>1. k = r
    BY <1>6 DEF Kept
  <2> QED BY <1>2, <1>3, <1>6, <2>1 DEF Loop
<1> QED BY <1>5, <1>6

\* The whole loop.
LEMMA PickedLoop ==
  ASSUME NEW ts \in Seq(Servers), NEW port, NEW out \in Seq(Servers)
  PROVE  Loop(ts, Len(ts), port, out, Picked(ts, port, out))
<1> DEFINE N == Len(ts)
           step == [p \in Seq(Servers) \X (1..N) |-> Kept(p[1], ts[p[2]], port)]
           F(f) == f = [n \in 0..N |-> IF n = 0 THEN out ELSE Kept(f[n - 1], ts[n], port)]
<1>1. N \in Nat /\ DOMAIN ts = 1..N /\ \A n \in 1..N : ts[n] \in Servers
  OBVIOUS
<1> HIDE DEF N
<1>2. step \in [Seq(Servers) \X (1..N) -> Seq(Servers)]
  <2>1. ASSUME NEW r \in Seq(Servers), NEW n \in 1..N PROVE Kept(r, ts[n], port) \in Seq(Servers)
    BY <1>1, Appended DEF Kept
  <2> QED BY <2>1
<1>3. PICK f \in [0..N -> Seq(Servers)] : Iterates(f, out, step, N)
  <2> HIDE DEF step
  <2> QED BY <1>1, <1>2, IterationExists
<1>4. F(f)
  <2>1. ASSUME NEW n \in 0..N, n # 0 PROVE step[<<f[n - 1], n>>] = Kept(f[n - 1], ts[n], port)
    <3>1. n \in 1..N /\ n - 1 \in 0..N /\ f[n - 1] \in Seq(Servers)
      BY <1>1, <2>1
    <3> QED BY <3>1
  <2> HIDE DEF step
  <2> QED BY <1>3, <2>1 DEF Iterates
<1>5. Picked(ts, port, out) = (CHOOSE g : F(g))[N]
  BY DEF Picked, N
<1>6. PICK g : g = CHOOSE h : F(h)
  OBVIOUS
<1>7. F(g)
  <2> HIDE DEF F
  <2> QED BY <1>4, <1>6
<1> DEFINE S == {n \in Nat : n <= N => Loop(ts, n, port, out, g[n])}
<1>8. 0 \in S
  <2>1. g[0] = out
    BY <1>1, <1>7
  <2> QED BY <2>1 DEF Loop
<1>9. ASSUME NEW n \in Nat, n \in S PROVE n + 1 \in S
  <2> SUFFICES ASSUME n + 1 <= N PROVE Loop(ts, n + 1, port, out, g[n + 1])
    OBVIOUS
  <2>1. n + 1 \in 1..N /\ (n + 1) - 1 = n /\ n + 1 # 0 /\ n + 1 \in 0..N /\ n <= N
    BY <1>1
  <2>2. g[n + 1] = Kept(g[n], ts[n + 1], port)
    BY <1>7, <2>1
  <2>3. Loop(ts, (n + 1) - 1, port, out, g[n])
    BY <1>9, <2>1
  <2> QED BY <2>1, <2>2, <2>3, LoopStep DEF N
<1>10. Nat \subseteq S
  <2> HIDE DEF S
  <2> QED BY <1>8, <1>9, Induction
<1>11. Loop(ts, N, port, out, g[N])
  BY <1>1, <1>10
<1> QED BY <1>5, <1>6, <1>11 DEF N

\* The targets of the first k preferred ports are in out: an address once, with the best of its
\* ports.
Best(ts, k, out) ==
  /\ out \in Seq(Servers) /\ Distinct(out)
  /\ \A x \in Range(out) : x \in Range(ts) /\ Rank(x) <= k
  /\ \A t \in Range(ts) : Rank(t) <= k => t[1] \in Seen(out)
  /\ \A x \in Range(out), t \in Range(ts) : Rank(t) <= k /\ t[1] = x[1] => Rank(x) <= Rank(t)

\* The next port.
LEMMA BestStep ==
  ASSUME NEW ts \in Seq(Servers), NEW k \in 0..3, NEW port \in Int, NEW out, Best(ts, k, out),
         \A t \in Servers : (t[2] = port <=> Rank(t) = k + 1) /\ Rank(t) \in 1..5
  PROVE  Best(ts, k + 1, Picked(ts, port, out))
<1> DEFINE r == Picked(ts, port, out)
<1>1. out \in Seq(Servers) /\ Len(ts) \in Nat /\ DOMAIN ts = 1..Len(ts)
  BY DEF Best
<1>2. Loop(ts, Len(ts), port, out, r)
  BY <1>1, PickedLoop
<1> HIDE DEF r
<1>3. \A t : t \in Range(ts) <=> \E i \in 1..Len(ts) : t = ts[i]
  BY <1>1 DEF Range
<1>4. \A t \in Range(ts) : t \in Servers
  BY <1>3
<1>5. \A x \in Range(r) : x \in Range(out) \/ (x \in Range(ts) /\ x[2] = port /\ x[1] \notin Seen(out))
  BY <1>2, <1>3 DEF Loop
<1>6. r \in Seq(Servers) /\ Distinct(r) /\ Range(out) \subseteq Range(r)
  BY <1>2 DEF Loop, Best
<1>7. \A x \in Range(r) : x \in Range(ts) /\ Rank(x) <= k + 1
  BY <1>4, <1>5 DEF Best
<1>8. \A t \in Range(ts) : Rank(t) <= k + 1 => t[1] \in Seen(r)
  <2> TAKE t \in Range(ts)
  <2>1. CASE Rank(t) <= k
    <3>1. PICK x \in Range(out) : x[1] = t[1]
      BY <1>1, <2>1, SeenRange DEF Best
    <3> QED BY <1>6, <3>1, SeenRange
  <2>2. CASE Rank(t) = k + 1
    BY <1>2, <1>3, <1>4, <2>2 DEF Loop
  <2> QED BY <1>4, <2>1, <2>2
<1>9. ASSUME NEW x \in Range(r), NEW t \in Range(ts), Rank(t) <= k + 1, t[1] = x[1]
      PROVE  Rank(x) <= Rank(t)
  <2>1. t \in Servers /\ x \in Range(ts) /\ x \in Servers
    BY <1>4, <1>7
  <2>2. CASE Rank(t) <= k
    <3>1. x[1] \in Seen(out)
      BY <1>9, <2>2 DEF Best
    <3>2. x \in Range(out)
      BY <1>5, <3>1
    <3> QED BY <1>9, <2>2, <3>2 DEF Best
  <2>3. CASE Rank(t) = k + 1
    BY <1>7, <2>3
  <2> QED BY <1>9, <2>1, <2>2, <2>3
<1> QED BY <1>6, <1>7, <1>8, <1>9 DEF Best, r

\* The four loops.
LEMMA PreferredBest == ASSUME NEW ts \in Seq(Servers) PROVE Best(ts, 4, Preferred(ts))
<1>1. /\ \A t \in Servers : (t[2] = 8080 <=> Rank(t) = 0 + 1) /\ Rank(t) \in 1..5
      /\ \A t \in Servers : (t[2] = 80 <=> Rank(t) = 1 + 1) /\ Rank(t) \in 1..5
      /\ \A t \in Servers : (t[2] = 443 <=> Rank(t) = 2 + 1) /\ Rank(t) \in 1..5
      /\ \A t \in Servers : (t[2] = 5000 <=> Rank(t) = 3 + 1) /\ Rank(t) \in 1..5
  BY DEF Rank
<1>2. Best(ts, 0, <<>>)
  <2>1. \A t \in Range(ts) : t \in Servers /\ ~(Rank(t) <= 0)
    BY DEF Range, Rank
  <2> QED BY <2>1 DEF Best, Distinct, Seen, Range
<1> DEFINE p1 == Picked(ts, 8080, <<>>)
           p2 == Picked(ts, 80, p1)
           p3 == Picked(ts, 443, p2)
           p4 == Picked(ts, 5000, p3)
<1>3. Best(ts, 0 + 1, p1)
  BY <1>1, <1>2, BestStep
<1> HIDE DEF p1
<1>4. Best(ts, 1 + 1, p2)
  BY <1>1, <1>3, BestStep
<1> HIDE DEF p2
<1>5. Best(ts, 2 + 1, p3)
  BY <1>1, <1>4, BestStep
<1> HIDE DEF p3
<1>6. Best(ts, 3 + 1, p4)
  BY <1>1, <1>5, BestStep
<1>7. Preferred(ts) = p4
  BY DEF Preferred, p1, p2, p3
<1> HIDE DEF p4
<1> QED BY <1>6, <1>7

-----------------------------------------------------------------------------
(* Targets: the sort *)

\* Before is a total order of the positions.
LEMMA BeforeTotal ==
  ASSUME NEW ts \in Seq(Servers)
  PROVE  /\ \A i \in DOMAIN ts : Before(ts, i, i)
         /\ \A i, j \in DOMAIN ts : Before(ts, i, j) \/ Before(ts, j, i)
         /\ \A i, j \in DOMAIN ts : Before(ts, i, j) /\ Before(ts, j, i) => i = j
         /\ \A i, j, k \in DOMAIN ts : Before(ts, i, j) /\ Before(ts, j, k) => Before(ts, i, k)
<1>1. \A i \in DOMAIN ts : i \in Int /\ ts[i][1] \in Int
  <2>1. DOMAIN ts = 1..Len(ts) /\ Len(ts) \in Nat /\ \A i \in DOMAIN ts : ts[i] \in Servers
    OBVIOUS
  <2> QED BY <2>1 DEF Servers
<1> QED BY <1>1 DEF Before

\* A position of the sorted sequence for every target, and a target for every position.
LEMMA Places ==
  ASSUME NEW ts \in Seq(Servers)
  PROVE  /\ \A j \in DOMAIN ts : Place(ts, j) \in DOMAIN ts
         /\ \A i, j \in DOMAIN ts : Place(ts, i) <= Place(ts, j) => Before(ts, i, j)
         /\ \A k \in DOMAIN ts : \E j \in DOMAIN ts : Place(ts, j) = k
<1> DEFINE N == Len(ts)
           D == DOMAIN ts
           Up(j) == {i \in D : Before(ts, i, j)}
           f == [j \in D |-> Place(ts, j)]
<1>1. N \in Nat /\ D = 1..N /\ IsFiniteSet(D) /\ Cardinality(D) = N
  <2>1. N \in Nat /\ D = 1..N
    OBVIOUS
  <2>2. IsFiniteSet(1..N) /\ Cardinality(1..N) = N
    BY <2>1, FS_Interval
  <2> QED BY <2>1, <2>2
<1>2. \A j : Place(ts, j) = Cardinality(Up(j))
  BY DEF Place
<1>3. \A j \in D : IsFiniteSet(Up(j)) /\ Cardinality(Up(j)) \in 1..N
  <2> TAKE j \in D
  <2>1. Up(j) \in SUBSET D /\ j \in Up(j)
    BY BeforeTotal
  <2> HIDE DEF Up, D, N
  <2>2. IsFiniteSet(Up(j)) /\ Cardinality(Up(j)) <= N
    BY <1>1, <2>1, FS_Subset
  <2>3. Cardinality(Up(j)) \in Nat /\ Cardinality(Up(j)) # 0
    BY <2>1, <2>2, FS_CardinalityType, FS_EmptySet
  <2> QED BY <1>1, <2>2, <2>3
<1>4. ASSUME NEW i \in D, NEW j \in D, Place(ts, i) <= Place(ts, j) PROVE Before(ts, i, j)
  <2> SUFFICES ASSUME ~Before(ts, i, j) PROVE FALSE
    OBVIOUS
  <2>1. Up(j) \in SUBSET Up(i) /\ i \in Up(i) /\ i \notin Up(j)
    <3>1. Before(ts, j, i) /\ Before(ts, i, i)
      BY BeforeTotal
    <3> QED BY <3>1, BeforeTotal
  <2> HIDE DEF Up
  <2>2. Cardinality(Up(j)) <= Cardinality(Up(i)) /\ Cardinality(Up(i)) # Cardinality(Up(j))
    BY <1>3, <2>1, FS_Subset
  <2>3. Cardinality(Up(j)) \in Int /\ Cardinality(Up(i)) \in Int
    BY <1>3
  <2> QED BY <1>2, <1>4, <2>2, <2>3
<1>5. \A j \in D : Place(ts, j) \in D
  BY <1>1, <1>2, <1>3
<1>6. f \in Injection(D, D)
  <2>1. f \in [D -> D]
    BY <1>5
  <2>2. ASSUME NEW i \in D, NEW j \in D, f[i] = f[j] PROVE i = j
    <3>1. Place(ts, i) = Place(ts, j) /\ Place(ts, i) \in Int
      BY <1>1, <1>5, <2>2
    <3>2. Before(ts, i, j) /\ Before(ts, j, i)
      BY <1>1, <1>4, <1>5, <3>1
    <3> QED BY <3>2, BeforeTotal
  <2> HIDE DEF f
  <2> QED BY <2>1, <2>2 DEF Injection, IsInjective
<1>7. f \in Surjection(D, D)
  <2> HIDE DEF f, D
  <2> QED BY <1>1, <1>6, FS_Injection
<1>8. \A k \in D : \E j \in D : f[j] = k
  <2> HIDE DEF f, D
  <2> QED BY <1>7 DEF Surjection
<1> QED BY <1>4, <1>5, <1>8

\* The sorted sequence: the same targets, in the order of their addresses.
LEMMA Sorts ==
  ASSUME NEW ts \in Seq(Servers)
  PROVE  LET s == ByIP(ts)
         IN /\ s \in Seq(Servers) /\ Len(s) = Len(ts) /\ Range(s) = Range(ts)
            /\ \A k, l \in DOMAIN s : k <= l => s[k][1] <= s[l][1]
            /\ Distinct(ts) => Distinct(s)
<1> DEFINE s == ByIP(ts)
           N == Len(ts)
           J(k) == CHOOSE j \in 1..N : Place(ts, j) = k
<1>1. N \in Nat /\ DOMAIN ts = 1..N /\ \A j \in 1..N : ts[j] \in Servers
  OBVIOUS
<1>2. \A k \in 1..N : J(k) \in 1..N /\ Place(ts, J(k)) = k
  BY <1>1, Places
<1>3. \A i, j \in 1..N : Place(ts, i) = Place(ts, j) => i = j
  <2> TAKE i, j \in 1..N
  <2> HAVE Place(ts, i) = Place(ts, j)
  <2>1. Place(ts, i) <= Place(ts, j) /\ Place(ts, j) <= Place(ts, i)
    <3>1. Place(ts, i) \in 1..N /\ Place(ts, j) \in 1..N
      BY <1>1, Places
    <3> QED BY <1>1, <3>1
  <2>2. Before(ts, i, j) /\ Before(ts, j, i)
    BY <1>1, <2>1, Places
  <2> QED BY <1>1, <2>2, BeforeTotal
<1>4. \A j \in 1..N : Place(ts, j) \in 1..N /\ J(Place(ts, j)) = j
  BY <1>1, <1>2, <1>3, Places
<1>5. s = [k \in 1..N |-> ts[J(k)]]
  BY <1>1 DEF ByIP
<1> HIDE DEF s, J, N
<1>6. s \in Seq(Servers) /\ Len(s) = N /\ DOMAIN s = 1..N /\ \A k \in 1..N : s[k] = ts[J(k)]
  BY <1>1, <1>2, <1>5
<1>7. Range(s) = Range(ts)
  <2>1. \A k \in 1..N : s[k] \in Range(ts)
    BY <1>1, <1>2, <1>6 DEF Range
  <2>2. \A j \in 1..N : ts[j] = s[Place(ts, j)] /\ Place(ts, j) \in 1..N
    BY <1>4, <1>6
  <2> QED BY <1>1, <1>6, <2>1, <2>2 DEF Range
<1>8. ASSUME NEW k \in 1..N, NEW l \in 1..N, k <= l PROVE s[k][1] <= s[l][1]
  <2>1. Before(ts, J(k), J(l))
    BY <1>1, <1>2, <1>8, Places
  <2>2. ts[J(k)][1] \in Int /\ ts[J(l)][1] \in Int
    BY <1>1, <1>2 DEF Servers
  <2> QED BY <1>6, <2>1, <2>2 DEF Before
<1>9. ASSUME Distinct(ts) PROVE Distinct(s)
  <2>1. ASSUME NEW k \in 1..N, NEW l \in 1..N, k # l PROVE s[k][1] # s[l][1]
    <3>1. J(k) # J(l)
      BY <1>2, <2>1
    <3> QED BY <1>1, <1>2, <1>6, <1>9, <3>1 DEF Distinct
  <2> QED BY <1>6, <2>1 DEF Distinct
<1> QED BY <1>6, <1>7, <1>8, <1>9 DEF s, N

\* The first max of a sequence.
LEMMA Firsts ==
  ASSUME NEW s \in Seq(Servers), NEW max \in Int
  PROVE  LET f == FirstOf(s, max)
         IN /\ f \in Seq(Servers) /\ Len(f) <= Len(s) /\ Len(f) \in Nat
            /\ \A i \in 1..Len(f) : f[i] = s[i]
            /\ Len(f) = Len(s) \/ (max > 0 /\ Len(f) = max)
<1>1. Len(s) \in Nat
  OBVIOUS
<1>2. CASE max > 0 /\ Len(s) > max
  <2>1. max \in Nat /\ 1 \in Int /\ \A i \in 1..max : s[i] \in Servers
    BY <1>1, <1>2
  <2>2. /\ SubSeq(s, 1, max) \in Seq(Servers) /\ Len(SubSeq(s, 1, max)) = max
        /\ \A i \in 1..max : SubSeq(s, 1, max)[i] = s[i]
    BY <1>2, <2>1
  <2> QED BY <1>1, <1>2, <2>1, <2>2 DEF FirstOf
<1>3. CASE ~(max > 0 /\ Len(s) > max)
  BY <1>1, <1>3 DEF FirstOf
<1> QED BY <1>2, <1>3

-----------------------------------------------------------------------------
(* Targets: the theorem *)

\* What getShortlinkTargets keeps.
LEMMA ShortTargets ==
  ASSUME NEW ts \in Seq(Servers)
  PROVE  LET short == GetShortlinkTargets(ts)
             http == {t \in Range(ts) : t[2] = 80}
         IN /\ \A t \in Range(short) : IF http = {} THEN t = KnownServer ELSE t \in http
            /\ \A t \in http : \E x \in Range(short) : x[1] = t[1]
            /\ Distinct(short) /\ short \in Seq(Servers) /\ short # <<>>
<1> DEFINE r == Picked(ts, 80, <<>>)
           short == GetShortlinkTargets(ts)
           http == {t \in Range(ts) : t[2] = 80}
<1>1. Loop(ts, Len(ts), 80, <<>>, r)
  <2>1. <<>> \in Seq(Servers)
    OBVIOUS
  <2> QED BY <2>1, PickedLoop
<1>2. r \in Seq(Servers) /\ short = IF r = <<>> THEN <<KnownServer>> ELSE r
  BY <1>1 DEF Loop, GetShortlinkTargets
<1> HIDE DEF r, short
<1>3. \A t : t \in Range(ts) <=> \E i \in 1..Len(ts) : t = ts[i]
  BY DEF Range
<1>4. Range(<<>>) = {} /\ Seen(<<>>) = {} /\ Distinct(<<>>)
  BY DEF Range, Seen, Distinct
<1>5. Distinct(r) /\ (\A x \in Range(r) : x \in http) /\ \A t \in http : t[1] \in Seen(r)
  BY <1>1, <1>3, <1>4 DEF Loop
<1>6. CASE r = <<>>
  <2>1. http = {}
    BY <1>4, <1>5, <1>6
  <2>2. short = <<KnownServer>> /\ KnownServer \in Servers
    BY <1>2, <1>6 DEF KnownServer, Servers
  <2>3. Range(short) = {KnownServer} /\ Distinct(short) /\ short \in Seq(Servers) /\ short # <<>>
    BY <2>2 DEF Range, Distinct
  <2> QED BY <2>1, <2>3 DEF short
<1>7. CASE r # <<>>
  <2>1. short = r
    BY <1>2, <1>7
  <2>2. r[1] \in Range(r)
    BY <1>2, <1>7 DEF Range
  <2>3. \A t \in http : \E x \in Range(r) : x[1] = t[1]
    BY <1>2, <1>5, SeenRange
  <2> QED BY <1>2, <1>5, <1>7, <2>1, <2>2, <2>3 DEF short
<1> QED BY <1>6, <1>7

\* As many members as positions, when no address comes twice.
LEMMA DistinctCount ==
  ASSUME NEW s \in Seq(Servers), Distinct(s)
  PROVE  Len(s) = Cardinality(Range(s))
<1> DEFINE D == 1..Len(s)
           f == [i \in D |-> s[i]]
<1>1. Len(s) \in Nat /\ DOMAIN s = D
  OBVIOUS
<1>2. IsFiniteSet(D) /\ Cardinality(D) = Len(s)
  <2> DEFINE n == Len(s)
  <2>1. n \in Nat
    BY <1>1
  <2> HIDE DEF n
  <2>2. IsFiniteSet(1..n) /\ Cardinality(1..n) = IF 1 > n THEN 0 ELSE n - 1 + 1
    BY <2>1, FS_Interval
  <2>3. IsFiniteSet(1..n) /\ Cardinality(1..n) = n
    BY <2>1, <2>2
  <2> QED BY <2>3 DEF n
<1>3. f \in [D -> Range(s)] /\ \A y \in Range(s) : \E i \in D : f[i] = y
  BY <1>1 DEF Range
<1>4. \A i, j \in D : f[i] = f[j] => i = j
  BY <1>1 DEF Distinct
<1> HIDE DEF f, D
<1>5. f \in Surjection(D, Range(s)) /\ f \in Injection(D, Range(s))
  BY <1>3, <1>4 DEF Surjection, Injection, IsInjective
<1> QED BY <1>2, <1>5, FS_Surjection

\* What orderLonglinkTargets returns.
LEMMA LongTargets ==
  ASSUME NEW ts \in Seq(Servers), NEW max \in Int
  PROVE  LET good == {t \in Range(ts) : Rank(t) < 5}
             out == OrderLonglinkTargets(ts, max)
             from == IF good = {} THEN Range(ts) ELSE good
         IN /\ Range(out) \subseteq from
            /\ out = <<>> <=> ts = <<>>
            /\ \A i, j \in DOMAIN out : i < j =>
                 IF good = {} THEN out[i][1] <= out[j][1] ELSE out[i][1] < out[j][1]
            /\ good # {} => \A i \in DOMAIN out, t \in good : t[1] = out[i][1] => Rank(out[i]) <= Rank(t)
            /\ \A t \in from : \/ \E i \in DOMAIN out : out[i][1] = t[1]
                               \/ Len(out) = max /\ \A i \in DOMAIN out : out[i][1] <= t[1]
<1> DEFINE good == {t \in Range(ts) : Rank(t) < 5}
           out == OrderLonglinkTargets(ts, max)
           from == IF good = {} THEN Range(ts) ELSE good
           pref == Preferred(ts)
           q == IF pref = <<>> THEN ts ELSE pref
           s == ByIP(q)
<1>1. Best(ts, 4, pref)
  BY PreferredBest
<1>2. pref \in Seq(Servers) /\ out = FirstOf(s, max)
  BY <1>1 DEF Best, OrderLonglinkTargets, CutSorted
<1> HIDE DEF pref, out
<1>3. \A t \in Range(ts) : t \in Servers /\ (Rank(t) <= 4 <=> Rank(t) < 5)
  BY DEF Range, Rank
<1>4. pref = <<>> <=> good = {}
  <2>1. ASSUME pref = <<>> PROVE good = {}
    <3>1. Seen(pref) = {}
      BY <2>1 DEF Seen
    <3> QED BY <1>1, <1>3, <3>1 DEF Best
  <2>2. ASSUME pref # <<>> PROVE good # {}
    <3>1. pref[1] \in Range(pref)
      BY <1>2, <2>2 DEF Range
    <3> QED BY <1>1, <1>3, <3>1 DEF Best
  <2> QED BY <2>1, <2>2
<1>5. /\ q \in Seq(Servers) /\ Range(q) \subseteq from
      /\ q = <<>> <=> ts = <<>>
      /\ good # {} => Distinct(q)
      /\ good # {} => \A x \in Range(q), t \in good : t[1] = x[1] => Rank(x) <= Rank(t)
      /\ \A t \in from : \E x \in Range(q) : x[1] = t[1]
  <2>1. CASE good = {}
    <3>1. q = ts /\ from = Range(ts)
      BY <1>4, <2>1
    <3> QED BY <2>1, <3>1
  <2>2. CASE good # {}
    <3>1. q = pref /\ from = good
      BY <1>4, <2>2
    <3>2. Range(ts) # {}
      BY <2>2
    <3>3. ts # <<>>
      BY <3>2 DEF Range
    <3>4. \A t \in good : \E x \in Range(pref) : x[1] = t[1]
      BY <1>1, <1>2, <1>3, SeenRange DEF Best
    <3> QED BY <1>1, <1>2, <1>3, <1>4, <2>2, <3>1, <3>3, <3>4 DEF Best
  <2> QED BY <2>1, <2>2
<1> HIDE DEF q, good, from
<1>6. /\ s \in Seq(Servers) /\ Len(s) = Len(q) /\ Range(s) = Range(q)
      /\ \A k, l \in DOMAIN s : k <= l => s[k][1] <= s[l][1]
      /\ Distinct(q) => Distinct(s)
  BY <1>5, Sorts
<1> HIDE DEF s
<1>7. /\ out \in Seq(Servers) /\ Len(out) <= Len(s) /\ Len(out) \in Nat
      /\ \A i \in 1..Len(out) : out[i] = s[i]
      /\ Len(out) = Len(s) \/ (max > 0 /\ Len(out) = max)
  BY <1>2, <1>6, Firsts
<1> DEFINE n == Len(out)
           m == Len(s)
<1>8. /\ n \in Nat /\ m \in Nat /\ n <= m /\ DOMAIN s = 1..m /\ DOMAIN out = 1..n
      /\ n = m \/ n = max
  BY <1>6, <1>7
<1>9. \A k \in DOMAIN s : s[k] \in Range(s) /\ s[k][1] \in Int
  <2>1. \A k \in DOMAIN s : s[k] \in Servers
    BY <1>6
  <2>2. \A k \in DOMAIN s : s[k] \in Range(s)
    BY DEF Range
  <2> QED BY <2>1, <2>2 DEF Servers
<1>10. \A i \in 1..n : out[i] = s[i]
  BY <1>7
<1>11. (q = <<>> <=> m = 0) /\ (out = <<>> <=> n = 0) /\ (n = m \/ (max > 0 /\ n = max))
  <2>1. q = <<>> <=> m = 0
    BY <1>5, <1>6
  <2>2. out = <<>> <=> n = 0
    BY <1>7
  <2> QED BY <1>7, <2>1, <2>2
<1> HIDE DEF n, m
<1>12. \A i \in DOMAIN out : i \in DOMAIN s /\ i \in 1..m /\ out[i] = s[i]
  BY <1>8, <1>10
<1>13. Range(out) \subseteq from
  BY <1>5, <1>6, <1>9, <1>12 DEF Range
<1>14. out = <<>> <=> ts = <<>>
  <2>1. (n = 0 <=> m = 0)
    BY <1>8, <1>11
  <2> QED BY <1>5, <1>11, <2>1
<1>15. \A k, l \in DOMAIN s : k <= l => s[k][1] <= s[l][1]
  BY <1>6
<1>16. ASSUME NEW i \in DOMAIN out, NEW j \in DOMAIN out, i < j
       PROVE  IF good = {} THEN out[i][1] <= out[j][1] ELSE out[i][1] < out[j][1]
  <2>1. i \in 1..m /\ j \in 1..m /\ i <= j /\ i # j
    BY <1>8, <1>16, <1>12
  <2>2. s[i][1] <= s[j][1]
    BY <1>8, <1>15, <2>1
  <2>3. good # {} => Distinct(s)
    BY <1>5, <1>6
  <2>4. good # {} => s[i][1] # s[j][1]
    BY <1>12, <2>1, <2>3 DEF Distinct
  <2>5. s[i][1] \in Int /\ s[j][1] \in Int /\ out[i] = s[i] /\ out[j] = s[j]
    BY <1>9, <1>12
  <2> QED BY <2>2, <2>4, <2>5
<1>17. good # {} => \A i \in DOMAIN out, t \in good : t[1] = out[i][1] => Rank(out[i]) <= Rank(t)
  BY <1>5, <1>6, <1>9, <1>12
<1>18. ASSUME NEW t \in from
       PROVE  \/ \E i \in DOMAIN out : out[i][1] = t[1]
              \/ Len(out) = max /\ \A i \in DOMAIN out : out[i][1] <= t[1]
  <2>0. PICK x \in Range(s) : x[1] = t[1]
    BY <1>5, <1>6
  <2>1. PICK k \in DOMAIN s : s[k][1] = t[1]
    BY <2>0 DEF Range
  <2>2. CASE k <= n
    <3>1. k \in DOMAIN out
      BY <1>8, <2>1, <2>2
    <3> QED BY <1>12, <2>1, <3>1
  <2>3. CASE ~(k <= n)
    <3>1. n = max
      BY <1>8, <2>3
    <3>2. \A i \in DOMAIN out : i <= k
      BY <1>8, <2>3
    <3>3. \A i \in DOMAIN out : s[i][1] <= t[1]
      BY <1>12, <1>15, <2>1, <3>2
    <3> QED BY <1>12, <3>1, <3>3 DEF n
  <2> QED BY <2>2, <2>3
<1> QED BY <1>13, <1>14, <1>16, <1>17, <1>18 DEF good, out, from

\* A login is never left without a target; every address is tried once, at its best port, in order,
\* and only the highest are dropped; a call tries port 80 of every address that offers it. For any
\* number of targets, addresses and ports, and any limit.
THEOREM TargetsOrderedHolds ==
  ASSUME probe[1] = "targets" => TargetsAsked(probe[2], probe[3])
  PROVE  TargetsOrdered
<1> SUFFICES ASSUME probe[1] = "targets" PROVE TargetsOrdered
  BY DEF TargetsOrdered
<1> DEFINE ts == probe[2]
           max == probe[3]
           short == GetShortlinkTargets(ts)
           http == {t \in Range(ts) : t[2] = 80}
<1>1. ts \in Seq(Servers) /\ max \in Int
  BY DEF TargetsAsked, Servers
<1> HIDE DEF ts, max
<1>2. Len(short) = Cardinality(Range(short))
  BY <1>1, ShortTargets, DistinctCount
<1>3. Range(short) = IF http = {} THEN {KnownServer} ELSE http
  <2>1. /\ \A t \in Range(short) : IF http = {} THEN t = KnownServer ELSE t \in http
        /\ \A t \in http : \E x \in Range(short) : x[1] = t[1]
        /\ short \in Seq(Servers) /\ short # <<>>
    BY <1>1, ShortTargets
  <2>2. \A t \in http : t \in Servers /\ t[2] = 80
    BY <1>1 DEF Range
  <2>3. short[1] \in Range(short)
    BY <2>1 DEF Range
  <2> HIDE DEF short, http
  <2>4. \A t, x \in http : x[1] = t[1] => x = t
    BY <2>2 DEF Servers
  <2>5. CASE http = {}
    <3>1. \A t : t \in Range(short) <=> t = KnownServer
      BY <2>1, <2>3, <2>5
    <3> QED BY <2>5, <3>1
  <2>6. CASE http # {}
    <3>1. \A t : t \in Range(short) <=> t \in http
      BY <2>1, <2>4, <2>6
    <3> QED BY <2>6, <3>1
  <2> QED BY <2>5, <2>6
<1> HIDE DEF short, http
<1>4. LET good == {t \in Range(ts) : Rank(t) < 5}
          out == OrderLonglinkTargets(ts, max)
          from == IF good = {} THEN Range(ts) ELSE good
      IN /\ Range(out) \subseteq from
         /\ out = <<>> <=> ts = <<>>
         /\ \A i, j \in DOMAIN out : i < j =>
              IF good = {} THEN out[i][1] <= out[j][1] ELSE out[i][1] < out[j][1]
         /\ good # {} => \A i \in DOMAIN out, t \in good : t[1] = out[i][1] => Rank(out[i]) <= Rank(t)
         /\ \A t \in from : \/ \E i \in DOMAIN out : out[i][1] = t[1]
                            \/ Len(out) = max /\ \A i \in DOMAIN out : out[i][1] <= t[1]
  BY <1>1, LongTargets
<1> QED BY <1>2, <1>3, <1>4, Zenon DEF TargetsOrdered, ts, max, short, http
=============================================================================

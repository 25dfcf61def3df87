------------------------------- MODULE Charge -------------------------------
(***************************************************************************)
(* What one tariff costs one child for one month, in whole tiyin           *)
(* (src/src/billing/calculate-charge.ts), and the days of the month the    *)
(* child was enrolled and the kindergarten worked                          *)
(* (enrollment-windows.ts, billable-days.ts).  Pure operators: the trace   *)
(* and the names are left out.  Days of the month are 1..Month; 0 stands   *)
(* for the days before it and Month + 1 for those after.                   *)
(***************************************************************************)
EXTENDS Integers, Sequences, FiniteSets, Folds, FiniteSetsExt, SequencesExt

Greatest(a, b) == IF a > b THEN a ELSE b
Least(a, b) == IF a < b THEN a ELSE b

Sum(s) == FoldLeft(LAMBDA a, b : a + b, 0, s)

(***************************************************************************)
(* The rules.  byKind gives a tariff kind a mode of its own.               *)
(***************************************************************************)
AttendanceMode == {"flat_monthly", "per_attended_day", "per_working_day"}
RoundingMode == {"half_up", "floor", "ceil", "bankers"}

BillingRules(Kinds) ==
    [mode : AttendanceMode,
     byKind : [Kinds -> AttendanceMode \cup {"default"}],
     divisor : {"actual_working_days", "fixed", "calendar_days"},
     fixedDivisor : 1..366,
     capAtFullTariff : BOOLEAN,
     minCharge : Nat,
     noAttendance : {"zero", "min_charge", "full_tariff"},
     order : {<<"fixed", "percent">>, <<"percent", "fixed">>},
     multipleFixed : {"sum", "largest_only"},
     multiplePercent : {"sum", "compound"},
     appliesTo : SUBSET Kinds,
     floor : Nat,
     applyBeforeAttendance : BOOLEAN,
     unit : {"tiyin", "som", "1000_som"},
     rounding : RoundingMode,
     enrollmentMidMonth : {"per_attended_day", "full_month"},
     withdrawalMidMonth : {"per_attended_day", "full_month"},
     respectsWindow : BOOLEAN]

\* Version 1, the confirmed rules, of two of the kinds it names.
DefaultRules ==
    [mode |-> "per_attended_day",
     byKind |-> [monthly_fixed |-> "per_attended_day", registration_fee |-> "flat_monthly"],
     divisor |-> "actual_working_days", fixedDivisor |-> 22,
     capAtFullTariff |-> TRUE, minCharge |-> 0, noAttendance |-> "zero",
     order |-> <<"fixed", "percent">>, multipleFixed |-> "sum",
     multiplePercent |-> "sum", appliesTo |-> {"monthly_fixed"}, floor |-> 0,
     applyBeforeAttendance |-> FALSE, unit |-> "tiyin", rounding |-> "half_up",
     enrollmentMidMonth |-> "per_attended_day",
     withdrawalMidMonth |-> "per_attended_day", respectsWindow |-> TRUE]

ModeOf(rules, kind) ==
    IF rules.byKind[kind] = "default" THEN rules.mode ELSE rules.byKind[kind]

UnitOf(rules) ==
    CASE rules.unit = "tiyin" -> 1
      [] rules.unit = "som" -> 100
      [] rules.unit = "1000_som" -> 100000

(***************************************************************************)
(* calculateCharge.                                                        *)
(***************************************************************************)
divRound(n, d, mode) ==
    CASE d = 0 -> 0
      [] d # 0 /\ mode = "floor" -> n \div d
      [] d # 0 /\ mode = "ceil" -> (n + d - 1) \div d
      [] d # 0 /\ mode = "half_up" -> (n + d \div 2) \div d
      [] d # 0 /\ mode = "bankers" ->
            LET q == n \div d
                twice == 2 * (n % d)
            IN  IF twice < d \/ (twice = d /\ q % 2 = 0) THEN q ELSE q + 1

FullPercent == 10000        \* in basis points

Percent(amount, bp, rules) == amount - divRound(amount * bp, FullPercent, rules.rounding)

LessFixed(amount, values, rules) ==
    Greatest(0, amount - IF rules.multipleFixed = "largest_only"
                         THEN FoldLeft(Greatest, 0, values) ELSE Sum(values))

LessPercent(amount, values, rules) ==
    IF rules.multiplePercent = "compound"
    THEN FoldLeft(LAMBDA a, bp : Percent(a, bp, rules), amount, values)
    ELSE Percent(amount, Least(Sum(values), FullPercent), rules)

applyDiscounts(amount, input, rules) ==
    IF input.kind \notin rules.appliesTo THEN amount
    ELSE IF rules.order[1] = "fixed"
    THEN LessPercent(LessFixed(amount, input.fixed, rules), input.percent, rules)
    ELSE LessFixed(LessPercent(amount, input.percent, rules), input.fixed, rules)

Counted(input, rules) ==
    LET days == IF ModeOf(rules, input.kind) = "per_working_day"
                THEN input.workingDays ELSE input.attendedDays
    IN  IF rules.capAtFullTariff THEN Least(days, input.billableDays) ELSE days

NotAttended(amount, rules) ==
    CASE rules.noAttendance = "full_tariff" -> amount
      [] rules.noAttendance = "min_charge" -> rules.minCharge
      [] rules.noAttendance = "zero" -> 0

attendanceFactor(amount, input, rules) ==
    LET mode == ModeOf(rules, input.kind) IN
    IF mode = "flat_monthly" \/ input.forceFullTariff THEN amount
    ELSE IF input.attendedDays = 0 /\ mode = "per_attended_day"
    THEN NotAttended(amount, rules)
    ELSE IF input.billableDays = 0 THEN 0
    ELSE divRound(amount * Counted(input, rules), input.billableDays, rules.rounding)

Rounded(amount, rules) ==
    divRound(amount, UnitOf(rules), rules.rounding) * UnitOf(rules)

calculateCharge(input, rules) ==
    LET discounted == IF rules.applyBeforeAttendance
                      THEN applyDiscounts(input.base, input, rules) ELSE input.base
        attended == attendanceFactor(discounted, input, rules)
        amount == IF rules.applyBeforeAttendance
                  THEN attended ELSE applyDiscounts(attended, input, rules)
    IN  Rounded(Greatest(amount, rules.floor), rules)

(***************************************************************************)
(* enrollmentWindows.  history is the child's changes in the order of      *)
(* their effective dates.                                                  *)
(***************************************************************************)
None == -1      \* no date

Enrolled == {"active", "temporarily_absent", "suspended"}

Window(a, b) == [start |-> a, end |-> b]

\* The start of the first episode, or None when a change begins it.
FirstStart(child, history, firstTariff) ==
    LET dates == {d \in {child.enrollmentDate, firstTariff, history[1].on} : d # None}
    IN  IF history[1].old \in Enrolled THEN Min(dates) ELSE None

\* MUTANT: the episode ends on the day before the change.
EpisodeExclusive(e, c) ==
    IF c.new \in Enrolled
    THEN [e EXCEPT !.start = IF @ = None THEN c.on ELSE @]
    ELSE IF e.start = None THEN e
    ELSE [start |-> None, done |-> Append(e.done, Window(e.start, c.on - 1))]

\* One change: it opens an episode, closes the open one on its own day, or
\* neither.
Episode(e, c) ==
    IF c.new \in Enrolled
    THEN [e EXCEPT !.start = IF @ = None THEN c.on ELSE @]
    ELSE IF e.start = None THEN e
    ELSE [start |-> None, done |-> Append(e.done, Window(e.start, c.on))]

Episodes(child, history, firstTariff, Month) ==
    IF history = << >>
    THEN << Window(IF child.enrollmentDate = None THEN 1 ELSE child.enrollmentDate,
                   IF child.withdrawalDate = None THEN Month ELSE child.withdrawalDate) >>
    ELSE LET first == [start |-> FirstStart(child, history, firstTariff), done |-> << >>]
             e == FoldLeft(Episode, first, history)
         IN  IF e.start = None THEN e.done ELSE Append(e.done, Window(e.start, Month))

\* Join w to the windows before it when it begins no later than the day after.
Merge(windows, w) ==
    IF windows # << >> /\ w.start =< Last(windows).end + 1
    THEN [windows EXCEPT ![Len(windows)].end = Greatest(@, w.end)]
    ELSE Append(windows, w)

\* The rows of S by a date of theirs, those of one date in any order.
ByDate(S, date(_)) ==
    CHOOSE s \in SetToSeqs(S) : \A i, j \in DOMAIN s : i < j => date(s[i]) =< date(s[j])

Clip(w, from, to) == Window(Greatest(w.start, from), Least(w.end, to))

Clipped(windows, from, to) ==
    {w \in {Clip(x, from, to) : x \in windows} : w.start =< w.end}

enrollmentWindows(child, history, firstTariff, Month) ==
    LET intervals == ToSet(Episodes(child, history, firstTariff, Month))
        sorted == ByDate(Clipped(intervals, 1, Month), LAMBDA w : w.start)
    IN  ToSet(FoldLeft(Merge, << >>, sorted))

(***************************************************************************)
(* billable-days.ts.  week is the days of the month that are working days  *)
(* of the week; a holiday takes one away and a working override adds one.  *)
(***************************************************************************)
billableDaysInWindow(week, holidays, w) ==
    LET overrides == {h.on : h \in {x \in holidays : x.isWorking}}
        off == {h.on : h \in {x \in holidays : ~x.isWorking}}
    IN  Cardinality(((week \ off) \cup overrides) \cap (w.start..w.end))

DaysIn(windows, count(_)) == MapThenSumSet(count, windows)
=============================================================================

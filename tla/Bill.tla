-------------------------------- MODULE Bill --------------------------------
(***************************************************************************)
(* One child's month as the billing engine sees it: the rows its charge is *)
(* computed from, the services that edit them in any order, the dry run,   *)
(* the run's lines and their recomputation from the stored snapshot        *)
(* (src/src/billing/billing-rules.service.ts, billing-runs.service.ts,     *)
(* src/src/money/discounts.service.ts, tariffs.service.ts,                 *)
(* src/src/admin/holidays.controller.ts, children.service.ts setStatus).   *)
(*                                                                         *)
(* The month is open and over: every date up to the day after it may be    *)
(* used.  A computation is one step; BillingRun models what may come       *)
(* between preview and commit, AttendanceDay who may record which day.     *)
(***************************************************************************)
EXTENDS Charge

CONSTANTS
    Month,        \* the days of the month are 1..Month
    Week,         \* those that are working days of the week
    Kinds,        \* kinds of tariff
    Prices,       \* the tariffs' amounts
    FixedValues,  \* values of fixed discounts
    PercentValues,\* values of percentage discounts, in basis points
    RuleSets,     \* the billing rules an editor may save
    FirstRules,   \* the rules the tenant begins with
    Enrollments,  \* the enrollment dates the child may begin with
    MaxEdits      \* bound on edits

VARIABLES
    child,       \* child: enrollmentDate, withdrawalDate, status
    history,     \* child_status_history, by effective date
    assigned,    \* child_tariff with its tariff
    discounts,   \* discount
    holidays,    \* holiday
    attended,    \* the days with an attendance row of a billable status
    versions,    \* billing_rules, oldest first
    charges,     \* the lines a committed run has charged
    feeCharged,  \* a registration fee stands charged in another month
    edits        \* number of edits so far

\* The rules of the kinds the tenant has, and of others.
RulesOfKinds(r) ==
    Kinds \subseteq DOMAIN r.byKind /\ r \in BillingRules(DOMAIN r.byKind)

BillConstants ==
    /\ Month \in Nat \ {0} /\ Week \subseteq 1..Month
    /\ IsFiniteSet(Kinds)
    /\ Prices \subseteq Nat /\ FixedValues \subseteq Nat /\ PercentValues \subseteq 0..FullPercent
    /\ Enrollments \subseteq {None} \cup 0..(Month + 1)
    /\ MaxEdits \in Nat
    /\ \A r \in RuleSets \cup FirstRules : RulesOfKinds(r)

vars == <<child, history, assigned, discounts, holidays, attended, versions,
          charges, feeCharged, edits>>

Days == 0..(Month + 1)
Forever == Month + 1
WholeMonth == Window(0, Forever)

(***************************************************************************)
(* computeChildContext, for the whole month or one assignment.             *)
(***************************************************************************)
FirstTariff == IF assigned = {} THEN None ELSE Min({a.from : a \in assigned})

Count(w) == billableDaysInWindow(Week, holidays, w)
WorkingDays(windows) == DaysIn(windows, Count)

resolveBillableDays(rules) ==
    CASE rules.divisor = "fixed" -> rules.fixedDivisor
      [] rules.divisor = "calendar_days" -> Month
      [] rules.divisor = "actual_working_days" -> Count(Window(1, Month))

Divisor(rules, episodes) ==
    IF rules.divisor = "actual_working_days" /\ rules.respectsWindow
    THEN WorkingDays(episodes) ELSE resolveBillableDays(rules)

\* Discounts in force on a day, in the order they were created.
Values(kind, day) ==
    FoldLeft(LAMBDA values, d :
                IF d.kind = kind /\ ~d.revoked /\ d.from =< day /\ day =< d.to
                THEN Append(values, d.value) ELSE values,
             << >>, discounts)

ForcesFullTariff(rules, episodes) ==
    \E w \in episodes :
        \/ w.start > 1 /\ rules.enrollmentMidMonth = "full_month"
        \/ w.end < Month /\ rules.withdrawalMidMonth = "full_month"

AttendedIn(windows) ==
    Cardinality(attended \cap UNION {w.start..w.end : w \in windows})

StartOf(windows) == IF windows = {} THEN 1 ELSE Min({w.start : w \in windows})

\* A context computed from the rows as they are.
Context(rules, window) ==
    LET episodes == enrollmentWindows(child, history, FirstTariff, Month)
        windows == Clipped(episodes, window.start, window.end)
    IN  [windows |-> windows,
         billableDays |-> Divisor(rules, episodes),
         attendedDays |-> AttendedIn(windows),
         fixed |-> Values("fixed", StartOf(windows)),
         percent |-> Values("percent", StartOf(windows)),
         workingDays |-> WorkingDays(windows),
         forceFullTariff |-> ForcesFullTariff(rules, episodes)]

\* MUTANT: the discounts of the present are used.
ThawedContext(frozen, window) ==
    LET windows == Clipped(frozen.windows, window.start, window.end) IN
    [frozen EXCEPT !.windows = windows, !.attendedDays = AttendedIn(windows),
                   !.fixed = Values("fixed", StartOf(windows)),
                   !.percent = Values("percent", StartOf(windows))]

\* A context of a stored charge: only its windows are cut and its attendance
\* counted again.
FrozenContext(frozen, window) ==
    LET windows == Clipped(frozen.windows, window.start, window.end) IN
    [frozen EXCEPT !.windows = windows, !.attendedDays = AttendedIn(windows)]

(***************************************************************************)
(* One line of computeAllLines: the segments of one kind, each with its    *)
(* own context, and the context of the month.                              *)
(***************************************************************************)
Input(kind, price, context) ==
    [kind |-> kind, base |-> price, attendedDays |-> context.attendedDays,
     billableDays |-> context.billableDays, fixed |-> context.fixed,
     percent |-> context.percent, workingDays |-> context.workingDays,
     forceFullTariff |-> context.forceFullTariff]

FullTariffAnyway(rules, context) ==
    \/ context.forceFullTariff
    \/ context.attendedDays = 0 /\ rules.noAttendance = "full_tariff"

\* The rules of one segment: amounts are rounded once, at the end, and the
\* segments of a divided month count by days.
SegmentRules(rules, kind, many, context) ==
    LET byDays == many /\ (ModeOf(rules, kind) = "flat_monthly"
                           \/ FullTariffAnyway(rules, context))
    IN  [rules EXCEPT
            !.appliesTo = IF rules.applyBeforeAttendance THEN @ ELSE {},
            !.byKind[kind] = IF byDays THEN "per_working_day" ELSE @,
            !.noAttendance = IF many THEN "zero" ELSE @,
            !.unit = "tiyin", !.floor = 0]

\* MUTANT: a segment divides by its own days.
SegmentOfItsDays(rules, kind, segment, many, context) ==
    LET part == [segment.context EXCEPT
                    !.billableDays = segment.context.workingDays,
                    !.forceFullTariff = ~many /\ @]
    IN  calculateCharge(Input(kind, segment.price, part),
                        SegmentRules(rules, kind, many, context))

SegmentAmount(rules, kind, segment, many, context) ==
    LET part == [segment.context EXCEPT
                    !.billableDays = IF many /\ context.forceFullTariff
                                     THEN context.workingDays ELSE @,
                    !.forceFullTariff = ~many /\ @]
    IN  calculateCharge(Input(kind, segment.price, part),
                        SegmentRules(rules, kind, many, context))

\* MUTANT: discounts taken before attendance are taken again.
FinalRulesAgain(rules, kind) ==
    [rules EXCEPT !.byKind[kind] = "flat_monthly", !.applyBeforeAttendance = FALSE]

FinalRules(rules, kind) ==
    [rules EXCEPT !.byKind[kind] = "flat_monthly", !.applyBeforeAttendance = FALSE,
                  !.appliesTo = IF rules.applyBeforeAttendance THEN {} ELSE @]

Amount(rules, kind, segments, context) ==
    LET many == Len(segments) > 1
        total == Sum([i \in DOMAIN segments |->
                        SegmentAmount(rules, kind, segments[i], many, context)])
        minimum == /\ many /\ context.attendedDays = 0
                   /\ rules.noAttendance = "min_charge"
                   /\ ModeOf(rules, kind) = "per_attended_day"
                   /\ ~context.forceFullTariff
    IN  calculateCharge(Input(kind, IF minimum THEN rules.minCharge ELSE total, context),
                        FinalRules(rules, kind))

Line(rules, kind, segments, context) ==
    [kind |-> kind, amount |-> Amount(rules, kind, segments, context),
     rules |-> rules, segments |-> segments, context |-> context,
     attended |-> attended]

\* Assignments of a kind that touch the month, oldest first.
activeTariffsFor(kind) ==
    ByDate({a \in assigned : a.kind = kind /\ a.from =< Month /\ a.to >= 1},
           LAMBDA a : a.from)

Segments(rules, list) ==
    [i \in DOMAIN list |->
        [from |-> list[i].from, to |-> list[i].to, price |-> list[i].price,
         context |-> Context(rules, Window(list[i].from, list[i].to))]]

computeLine(rules, kind, list) ==
    Line(rules, kind, Segments(rules, list), Context(rules, WholeMonth))

Billed(kind) == \E l \in charges : l.kind = kind

\* The kind that is charged once, and not again unless that was reversed.
OneOff == "registration_fee"

Skipped(kind) == kind = OneOff /\ (feeCharged \/ Billed(kind))

computeAllLines(rules) ==
    {computeLine(rules, k, activeTariffsFor(k)) :
        k \in {x \in Kinds : activeTariffsFor(x) # << >> /\ ~Skipped(x)}}

\* What recalculate computes for a stored line.
Recomputed(line) ==
    Amount(line.rules, line.kind,
           [i \in DOMAIN line.segments |->
               [line.segments[i] EXCEPT !.context =
                    FrozenContext(@, Window(line.segments[i].from, line.segments[i].to))]],
           FrozenContext(line.context, WholeMonth))

\* The dry run, when `kind` is that of the first assignment it finds: it does
\* not ask what has been charged.
simulateForChild(rules, kind) ==
    LET a == activeTariffsFor(kind)[1] IN
    calculateCharge(Input(kind, a.price, Context(rules, Window(a.from, a.to))), rules)

(***************************************************************************)
(* Edits.                                                                  *)
(***************************************************************************)
Edit == edits < MaxEdits /\ edits' = edits + 1

activeOn(day) ==
    LET inForce == {i \in DOMAIN versions : versions[i].from =< day /\ day =< versions[i].to}
    IN  versions[Max(inForce)].rules

createRules(rules, from) ==
    /\ from > Last(versions).from
    /\ versions' = Append([versions EXCEPT ![Len(versions)].to =
                                IF @ = Forever THEN from - 1 ELSE @],
                          [from |-> from, to |-> Forever, rules |-> rules])
    /\ Edit
    /\ UNCHANGED <<child, history, assigned, discounts, holidays, attended, charges,
                   feeCharged>>

createDiscount(kind, value, from, to) ==
    /\ from =< to
    /\ discounts' = Append(discounts, [kind |-> kind, value |-> value, from |-> from,
                                       to |-> to, revoked |-> FALSE])
    /\ Edit
    /\ UNCHANGED <<child, history, assigned, holidays, attended, versions, charges,
                   feeCharged>>

revoke(i) ==
    /\ discounts' = [discounts EXCEPT ![i].revoked = TRUE]
    /\ Edit
    /\ UNCHANGED <<child, history, assigned, holidays, attended, versions, charges,
                   feeCharged>>

createHoliday(h) ==
    /\ holidays' = holidays \cup {h}
    /\ Edit
    /\ UNCHANGED <<child, history, assigned, discounts, attended, versions, charges,
                   feeCharged>>

removeHoliday(h) ==
    /\ holidays' = holidays \ {h}
    /\ Edit
    /\ UNCHANGED <<child, history, assigned, discounts, attended, versions, charges,
                   feeCharged>>

recordAttendance(day) ==
    /\ attended' = IF day \in attended THEN attended \ {day} ELSE attended \cup {day}
    /\ Edit
    /\ UNCHANGED <<child, history, assigned, discounts, holidays, versions, charges,
                   feeCharged>>

assignToChild(a) ==
    LET overlapping == {p \in assigned : p.kind = a.kind /\ p.from =< a.to /\ p.to >= a.from}
    IN  /\ a.from =< a.to
        /\ ~(Billed(a.kind) /\ a.from \in 1..Month)
        /\ \A p \in overlapping : p.from < a.from
        /\ assigned' = (assigned \ overlapping)
                         \cup {[p EXCEPT !.to = a.from - 1] : p \in overlapping} \cup {a}
        /\ Edit
        /\ UNCHANGED <<child, history, discounts, holidays, attended, versions, charges,
                   feeCharged>>

endAssignment(a, to) ==
    /\ to >= a.from
    /\ ~(charges # {} /\ to \in 1..Month)
    /\ assigned' = (assigned \ {a}) \cup {[a EXCEPT !.to = to]}
    /\ Edit
    /\ UNCHANGED <<child, history, discounts, holidays, attended, versions, charges,
                   feeCharged>>

Leaving == {"withdrawn", "graduated", "archived"}

\* The change goes behind those of its date and before later ones.
Recorded(c) ==
    LET notLater == {i \in DOMAIN history : history[i].on =< c.on}
    IN  InsertAt(history, Max(notLater \cup {0}) + 1, c)

setStatus(status, day) ==
    /\ child' = [status |-> status,
                 withdrawalDate |-> IF status \in Leaving THEN day
                                    ELSE IF status = "active" THEN None
                                    ELSE child.withdrawalDate,
                 enrollmentDate |->
                    IF status = "active" /\ (child.enrollmentDate = None
                                             \/ child.withdrawalDate # None)
                    THEN day ELSE child.enrollmentDate]
    /\ history' = Recorded([old |-> child.status, new |-> status, on |-> day])
    /\ assigned' = IF status \in Leaving
                   THEN {[a EXCEPT !.to = Least(@, day)] : a \in {x \in assigned : x.from =< day}}
                   ELSE assigned
    /\ Edit
    /\ UNCHANGED <<discounts, holidays, attended, versions, charges,
                   feeCharged>>

\* A billing run of the month is committed.
commit ==
    /\ charges = {}
    /\ charges' = computeAllLines(activeOn(1))
    /\ charges' # {}
    /\ UNCHANGED <<child, history, assigned, discounts, holidays, attended,
                   versions, feeCharged, edits>>

\* A run of another month charges the registration fee, or such a charge is
\* reversed.
feeElsewhere ==
    /\ feeCharged \/ ~Billed(OneOff)
    /\ feeCharged' = ~feeCharged
    /\ Edit
    /\ UNCHANGED <<child, history, assigned, discounts, holidays, attended,
                   versions, charges>>

-----------------------------------------------------------------------------
Assignment(from, to, kind, price) ==
    [from |-> from, to |-> to, kind |-> kind, price |-> price]

\* An active child with one tariff of each kind, whose changes of status, if there were
\* any, are older than the history; or one who has left.
Init ==
    /\ \E e \in Enrollments, w \in {None, Month - 1} :
        child = [enrollmentDate |-> e, withdrawalDate |-> w,
                 status |-> IF w = None THEN "active" ELSE "withdrawn"]
    /\ history = << >>
    /\ \E p \in Prices : assigned = {Assignment(0, Forever, k, p) : k \in Kinds}
    /\ discounts = << >> /\ holidays = {}
    /\ attended \in {{}, 1..Month}
    /\ \E r \in FirstRules : versions = <<[from |-> 0, to |-> Forever, rules |-> r]>>
    /\ charges = {} /\ feeCharged \in BOOLEAN
    /\ edits = 0

EditRules == \E r \in RuleSets, d \in Days : createRules(r, d)

EditDiscounts ==
    \/ \E v \in FixedValues, d \in {1, 2} : createDiscount("fixed", v, d, Forever)
    \/ \E v \in PercentValues, d \in {1, 2} : createDiscount("percent", v, d, Forever)
    \/ \E i \in DOMAIN discounts : revoke(i)

EditHolidays ==
    \/ \E d \in 1..Month : createHoliday([on |-> d, isWorking |-> d \notin Week])
    \/ \E h \in holidays : removeHoliday(h)

EditTariffs ==
    \/ \E d \in Days, k \in Kinds, p \in Prices : assignToChild(Assignment(d, Forever, k, p))
    \/ \E a \in assigned, d \in Days : endAssignment(a, d)

EditStatus ==
    \E s \in {"active", "temporarily_absent", "withdrawn"}, d \in Days : setStatus(s, d)

Next ==
    \/ EditRules \/ EditDiscounts \/ EditHolidays \/ EditTariffs \/ EditStatus
    \/ \E d \in 1..Month : recordAttendance(d)
    \/ feeElsewhere
    \/ commit

Spec == Init /\ [][Next]_vars

-----------------------------------------------------------------------------
(***************************************************************************)
(* Properties                                                              *)
(***************************************************************************)
TypeOK ==
    /\ child.status \in Enrolled \cup Leaving
    /\ {child.enrollmentDate, child.withdrawalDate} \subseteq Days \cup {None}
    /\ \A a \in assigned : {a.from, a.to} \subseteq -1..Forever /\ a.kind \in Kinds
    /\ attended \subseteq 1..Month /\ feeCharged \in BOOLEAN
    /\ edits \in 0..MaxEdits

Windows == enrollmentWindows(child, history, FirstTariff, Month)

Covered == UNION {w.start..w.end : w \in Windows}

\* The status with which a day begins.
StatusBefore(d) ==
    LET earlier == {i \in DOMAIN history : history[i].on < d}
    IN  IF earlier = {} THEN history[1].old ELSE history[Max(earlier)].new

\* A day counts when the child was enrolled at its beginning or its end.
EnrolledOn(d) ==
    IF history = << >>
    THEN /\ child.enrollmentDate =< d
         /\ child.withdrawalDate # None => d =< child.withdrawalDate
    ELSE \/ \E i \in DOMAIN history : history[i].on = d /\ history[i].new \in Enrolled
         \/ /\ StatusBefore(d) \in Enrolled
            /\ \/ d >= history[1].on
               \/ child.enrollmentDate # None /\ d >= child.enrollmentDate
               \/ FirstTariff # None /\ d >= FirstTariff

\* The windows a month is billed by are the days on which the status history
\* has the child enrolled, the day of leaving included, whatever the order
\* and the dates of the changes; and no two of them touch.
WindowsAreEnrolledDays ==
    /\ Covered = {d \in 1..Month : EnrolledOn(d)}
    /\ \A v, w \in Windows : v.start < w.start \/ v.end < w.end => v.end + 1 < w.start

\* "/simulate is the endpoint that makes rule changes safe": for a child with
\* one assignment of a kind, in force when its month begins, the lines of a billing
\* run hold the amount of the dry run, computed by segments and rounded once,
\* whatever the rules; and no line for a registration fee that stands charged,
\* the one thing of which the dry run does not know.
SimulatedAsBilled ==
    LET rules == activeOn(1) IN
    \A k \in Kinds :
        LET list == activeTariffsFor(k) IN
        /\ Len(list) = 1 /\ StartOf(Windows) \in list[1].from..list[1].to
        => {l.amount : l \in {x \in computeAllLines(rules) : x.kind = k}} =
               IF k = OneOff /\ (feeCharged \/ Billed(k)) THEN {}
               ELSE {simulateForChild(rules, k)}

\* A recalculation of a committed charge whose attendance has not changed
\* leaves its amount, though its discounts, holidays, statuses, tariffs and
\* rules have been edited since.
RecomputedAlike ==
    \A l \in charges : l.attended = attended => Recomputed(l) = l.amount

Consecutive(list) ==
    /\ Covered \subseteq list[1].from..list[Len(list)].to
    /\ \A i \in 1..(Len(list) - 1) :
            /\ list[i].to + 1 = list[i + 1].from
            /\ list[i].price = list[i + 1].price

\* The same assignments as a single one.
Joined(list) == <<[list[1] EXCEPT !.to = list[Len(list)].to]>>

\* A month divided between assignments of one price is billed as if it were
\* not divided, up to the rounding of each part; for assignments that cover
\* the child's month, a month with working days, the divisor of the confirmed
\* rules, attendance within it and discounts that last all month.
SplitBillsTheMonth ==
    LET r == activeOn(1) IN
    \A k \in Kinds :
        LET list == activeTariffsFor(k)
            split == computeLine(r, k, list)
            whole == computeLine(r, k, Joined(list))
        IN  /\ Len(list) > 1 /\ Consecutive(list)
            /\ r.divisor = "actual_working_days" /\ r.respectsWindow
            /\ Cardinality(attended \cap Covered) =< WorkingDays(Windows)
            /\ WorkingDays(Windows) > 0
            /\ r.applyBeforeAttendance => \A i \in DOMAIN list :
                    /\ split.segments[i].context.fixed = split.context.fixed
                    /\ split.segments[i].context.percent = split.context.percent
            => split.amount - whole.amount \in -(Len(list) + UnitOf(r))..(Len(list) + UnitOf(r))

\* "attended > divisor never costs more than 1 month": without a minimum
\* charge and a floor no line exceeds the dearest tariff the child has.
CappedAtFullTariff ==
    LET r == activeOn(1) IN
    \A k \in Kinds :
        LET list == activeTariffsFor(k) IN
        /\ list # << >> /\ r.capAtFullTariff /\ r.minCharge = 0 /\ r.floor = 0
        /\ r.unit = "tiyin"
        /\ \A i \in 1..(Len(list) - 1) : list[i].to < list[i + 1].from
        => computeLine(r, k, list).amount =< Max({list[i].price : i \in DOMAIN list}) + Len(list)

\* A change of status on or after the day of the last one leaves the earlier
\* days of the month as they were.
EarlierDaysStand ==
    [][\A d \in 1..Month :
        /\ Len(history') > Len(history)
        /\ Last(history').on > d
        /\ \A i \in DOMAIN history : history'[i] = history[i]
        => (d \in Covered <=> d \in Covered')]_vars
=============================================================================

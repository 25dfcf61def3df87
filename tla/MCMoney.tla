------------------------------- MODULE MCMoney -------------------------------
\* AllocateLoop and Bill for TLC.  They share no state: in each behaviour one
\* of them is at work while the other rests.
EXTENDS AllocateLoop

CONSTANTS
    Month, Week, Kinds, Prices, FixedValues, PercentValues, Enrollments, MaxEdits,
    RuleSets, FirstRules

VARIABLES
    which,
    child, history, assigned, discounts, holidays, attended, versions, charges,
    feeCharged, edits

C == INSTANCE Charge
R == C!DefaultRules

\* The confirmed rules, and five that differ from them in what a tenant can
\* choose.
MCFirstRules ==
    {R, [R EXCEPT !.byKind["monthly_fixed"] = "flat_monthly", !.appliesTo = {}],
     [R EXCEPT !.applyBeforeAttendance = TRUE, !.order = <<"percent", "fixed">>,
               !.multiplePercent = "compound", !.rounding = "bankers"],
     [R EXCEPT !.noAttendance = "min_charge", !.minCharge = 250, !.unit = "som",
               !.multipleFixed = "largest_only", !.floor = 120],
     [R EXCEPT !.noAttendance = "full_tariff", !.byKind["monthly_fixed"] = "default",
               !.withdrawalMidMonth = "full_month", !.rounding = "ceil"],
     [R EXCEPT !.byKind["monthly_fixed"] = "per_working_day", !.divisor = "fixed",
               !.fixedDivisor = 2, !.capAtFullTariff = FALSE, !.rounding = "floor",
               !.enrollmentMidMonth = "full_month"]}

\* What an editor saves.
MCRuleSets == {[R EXCEPT !.applyBeforeAttendance = TRUE, !.divisor = "calendar_days"]}

B == INSTANCE Bill

ASSUME BillAssumption == B!BillConstants

BillVars == <<child, history, assigned, discounts, holidays, attended, versions,
              charges, feeCharged, edits>>

OnlyLoop == which = "loop" /\ UNCHANGED <<which, BillVars>>
OnlyBill == which = "bill" /\ UNCHANGED <<which, vars>>

MCInit ==
    /\ which \in {"loop", "bill"}
    /\ Init /\ B!Init
    /\ feeCharged => versions[1].rules = R
    /\ which # "loop" =>
        /\ available = [p \in Payments |-> 0]
        /\ outstanding = [c \in Charges |-> 1]
    /\ which # "bill" =>
        /\ child.enrollmentDate = 0 /\ child.status = "active"
        /\ attended = {} /\ versions[1].rules = R

MCNext ==
    \/ OnlyLoop /\ Next
    \/ OnlyBill /\ B!Next

MCSpec == MCInit /\ [][MCNext]_<<which, vars, BillVars>>

-----------------------------------------------------------------------------
\* The first three are of the rows a charge is computed from: a committed run
\* leaves them, and the states they are reached in without one are enough.
Uncharged == charges = {}

\* The windows a month is billed by are the days the child was enrolled.
\* Every variable keeps its type.
WindowsAreEnrolledDays == B!TypeOK /\ (Uncharged => B!WindowsAreEnrolledDays)

\* The dry run gives the amount that a billing run would charge, if it does.
SimulatedAsBilled == Uncharged => B!SimulatedAsBilled

\* A month divided between assignments of one price is billed as a whole one.
SplitBillsTheMonth == Uncharged => B!SplitBillsTheMonth

\* A recalculation leaves the amount while the attendance is the same.
RecomputedAlike == B!RecomputedAlike
=============================================================================

----------------------------- MODULE BillingRun -----------------------------
(***************************************************************************)
(* Billing runs of ONE accounting period: previews, their commit with an   *)
(* idempotency key, discards, and what goes on beside them: attendance     *)
(* recorded and corrected (with the recalculation it triggers), tariffs    *)
(* assigned and ended, the period closed and reopened.                     *)
(*                                                                         *)
(* The amount of a line is a function of the price of the child's tariff   *)
(* and of the days it attended.  A line names the tariff, the comparison   *)
(* with the preview looks at what it charges: tariffs of one price pass    *)
(* for each other.                                                         *)
(*                                                                         *)
(* A tariff assignment is dated.  What the services check is the month of  *)
(* the date they are given, which need not be this period: an assignment   *)
(* that starts, or is ended, in an earlier month that was never billed     *)
(* changes this period's tariff as well.                                   *)
(*                                                                         *)
(* Row locks are the sets held by the commits in progress; a statement     *)
(* that takes a lock for one short transaction waits until no commit       *)
(* holds it.                                                               *)
(***************************************************************************)
EXTENDS Naturals, FiniteSets

CONSTANTS
  Children,    \* natural numbers, so that child ids are ordered
  Tariffs, NoTariff,
  Price,       \* what each tariff charges
  Days,        \* days attended, or whatever attendance contributes to a line
  NoCharge,
  Runs,        \* billing_run rows that may be created for the period
  Requests,    \* POST /billing-runs/:id/commit requests in progress
  Keys,        \* idempotency keys of clients
  NoKey, NoRun,
  Editors,     \* requests that end a tariff assignment within the period
  NoChild,
  ManualOnly   \* period states in which the policy is 'manual_only'

ASSUME BillingConstants ==
  /\ Children \subseteq Nat /\ IsFiniteSet(Children)
  /\ NoTariff \notin Tariffs
  /\ Price \in [Tariffs -> Nat]
  /\ NoChild \notin Children
  /\ NoRun \notin Runs
  /\ NoCharge \notin [tariff : Tariffs, days : Days]
  /\ Runs \cap Children = {}
  /\ ManualOnly \subseteq {"open", "closed"}

VARIABLES
  tariff,   \* tariff assigned to each child in the period, or NoTariff
  days,     \* attendance of each child in the period
  charge,   \* tariff and days each child's live charge amounts to, or NoCharge
  pending,  \* children with a correction whose billing is 'manual_required'
  period,   \* status of the accounting period
  runs,     \* billing_run rows: status, preview_data and idempotency_key
  req,      \* the commit requests: their place in commit(), and their answer
  ending,   \* assignment each editor has checked and is about to end
  late      \* history: children that got a tariff of the period after some
            \* commit had listed the children it locks

vars == <<tariff, days, charge, pending, period, runs, req, ending, late>>

-----------------------------------------------------------------------------
Line(c) == [tariff |-> tariff[c], days |-> days[c]]
Billable == {c \in Children : tariff[c] # NoTariff}

\* The lines of all children with a tariff.
computeAllLines == [c \in Billable |-> Line(c)]

Charged == {c \in Children : charge[c] # NoCharge}
Committed == {r \in Runs : runs[r].status = "committed"}

\* No commit holds the row lock of x, a run or a child.
IsFree(x) == \A q \in Requests : x \notin req[q].held

NoLines == [c \in {} |-> NoCharge]

Init ==
  /\ tariff \in [Children -> Tariffs \cup {NoTariff}]
  /\ days \in [Children -> Days]
  /\ charge = [c \in Children |-> NoCharge]
  /\ pending = {}
  /\ period = "open"
  /\ runs = [r \in Runs |-> [status |-> "none", preview |-> NoLines, key |-> NoKey]]
  /\ req = [q \in Requests |-> [at |-> "idle", run |-> NoRun, key |-> NoKey, todo |-> {},
                                held |-> {}, lines |-> NoLines, reply |-> "none"]]
  /\ late = {}
  /\ ending = [e \in Editors |-> NoChild]

-----------------------------------------------------------------------------
\* Runs.

preview(r) ==
  /\ runs[r].status = "none"
  /\ period = "open"
  /\ Committed = {}
  /\ runs' = [runs EXCEPT ![r] = [status |-> "preview", preview |-> computeAllLines, key |-> NoKey]]
  /\ UNCHANGED <<tariff, days, charge, pending, period, req, ending, late>>

discard(r) ==
  /\ runs[r].status = "preview"
  /\ IsFree(r)
  /\ runs' = [runs EXCEPT ![r].status = "discarded"]
  /\ UNCHANGED <<tariff, days, charge, pending, period, req, ending, late>>

\* Request q ends with an answer, and its transaction with it.
Answered(q, reply) ==
  [req EXCEPT ![q] = [@ EXCEPT !.at = "idle", !.todo = {}, !.held = {}, !.lines = NoLines,
                         !.reply = reply]]

\* MUTANT: a committed run is replayed whatever the key.
StartAnyKey(q, r, k) ==
  /\ req[q].at = "idle"
  /\ runs[r].status # "none"
  /\ LET call(at, reply) == [at |-> at, run |-> r, key |-> k, todo |-> {}, held |-> {},
                             lines |-> NoLines, reply |-> reply]
         answer == IF runs[r].status = "committed" THEN "replayed"
                   ELSE IF runs[r].status # "preview" THEN "conflict"
                   ELSE IF period = "closed" THEN "closed" ELSE "none"
     IN req' = [req EXCEPT ![q] =
                  IF answer = "none" THEN call("run", "none") ELSE call("idle", answer)]
  /\ UNCHANGED <<tariff, days, charge, pending, period, runs, ending, late>>

\* The checks of commit() before its transaction, for run r and key k.
Start(q, r, k) ==
  /\ req[q].at = "idle"
  /\ runs[r].status # "none"
  /\ LET call(at, reply) == [at |-> at, run |-> r, key |-> k, todo |-> {}, held |-> {},
                             lines |-> NoLines, reply |-> reply]
         answer == IF runs[r].status = "committed"
                   THEN IF runs[r].key = k THEN "replayed" ELSE "conflict"
                   ELSE IF runs[r].status # "preview" THEN "conflict"
                   ELSE IF period = "closed" THEN "closed" ELSE "none"
     IN req' = [req EXCEPT ![q] =
                  IF answer = "none" THEN call("run", "none") ELSE call("idle", answer)]
  /\ UNCHANGED <<tariff, days, charge, pending, period, runs, ending, late>>

\* Lock the run row, look at its status again, and list the children to lock.
LockRun(q) ==
  /\ req[q].at = "run"
  /\ IsFree(req[q].run)
  /\ LET run == runs[req[q].run]
     IN req' = IF run.status = "preview"
               THEN [req EXCEPT ![q] = [@ EXCEPT !.at = "children", !.todo = Billable,
                                                 !.held = {req[q].run}]]
               ELSE Answered(q, IF run.status = "committed" /\ run.key = req[q].key
                                THEN "replayed" ELSE "conflict")
  /\ UNCHANGED <<tariff, days, charge, pending, period, runs, ending, late>>

Locking(q, c) ==
  /\ req[q].at = "children"
  /\ c \in req[q].todo
  /\ IsFree(c)
  /\ req' = [req EXCEPT ![q].todo = @ \ {c}, ![q].held = @ \cup {c}]
  /\ UNCHANGED <<tariff, days, charge, pending, period, runs, ending, late>>

\* MUTANT: children are locked in the order the query returned them.
LockChildUnsorted(q) == \E c \in req[q].todo : Locking(q, c)

\* MUTANT: children are not locked.
LockNoChild(q) ==
  /\ req[q].at = "children"
  /\ \E c \in req[q].todo : req' = [req EXCEPT ![q].todo = @ \ {c}]
  /\ UNCHANGED <<tariff, days, charge, pending, period, runs, ending, late>>

\* Lock the next child, in the order of ids.
LockChild(q) ==
  \E c \in req[q].todo :
    /\ \A d \in req[q].todo : c <= d
    /\ Locking(q, c)

\* All children are locked: list once more the children with a tariff.
ListAgain(q) ==
  /\ req[q].at = "children"
  /\ req[q].todo = {}
  /\ req' = [req EXCEPT ![q] = [@ EXCEPT !.at = "compute", !.todo = Billable]]
  /\ UNCHANGED <<tariff, days, charge, pending, period, runs, ending, late>>

\* The lines with that of child c, whose tariff may be gone again.
WithLine(lines, c) ==
  IF c \notin Billable THEN lines
  ELSE [d \in DOMAIN lines \cup {c} |-> IF d = c THEN Line(c) ELSE lines[d]]

\* Compute the line of one of them.
ComputeLine(q) ==
  /\ req[q].at = "compute"
  /\ \E c \in req[q].todo :
       req' = [req EXCEPT ![q].todo = @ \ {c}, ![q].lines = WithLine(@, c)]
  /\ UNCHANGED <<tariff, days, charge, pending, period, runs, ending, late>>

\* MUTANT: only what is charged now is looked for in the preview.
ShownInPreview(lines, shown) ==
  \A c \in DOMAIN lines :
    c \in DOMAIN shown /\ Price[lines[c].tariff] = Price[shown[c].tariff]
                       /\ lines[c].days = shown[c].days

\* What the signatures of two lists of lines have in common if they are equal:
\* the children, what each is charged, and its days.
SameSignature(lines, shown) ==
  /\ DOMAIN lines = DOMAIN shown
  /\ \A c \in DOMAIN lines : /\ Price[lines[c].tariff] = Price[shown[c].tariff]
                             /\ lines[c].days = shown[c].days

\* Compare the fresh lines with the preview the director saw.
Compare(q) ==
  /\ req[q].at = "compute"
  /\ req[q].todo = {}
  /\ req' = IF SameSignature(req[q].lines, runs[req[q].run].preview)
            THEN [req EXCEPT ![q].at = "insert"]
            ELSE Answered(q, "stale")
  /\ UNCHANGED <<tariff, days, charge, pending, period, runs, ending, late>>

\* Index uq_billing_run_committed.
AnotherCommitted(r) == Committed \ {r} # {}

\* MUTANT: the lines of the preview are charged, with the tariffs of that day.
LinesShown(q) == runs[req[q].run].preview

\* The lines to charge.
Lines(q) == req[q].lines

\* Insert the charges and mark the run committed.  Trigger enforce_active_charge
\* locks a child that is not locked yet.
InsertCharges(q) ==
  /\ req[q].at = "insert"
  /\ LET r == req[q].run
         lines == Lines(q)
     IN /\ \A c \in DOMAIN lines : c \in req[q].held \/ IsFree(c)
        /\ IF (period = "closed" /\ lines # NoLines) \/ AnotherCommitted(r)
              \/ Charged \cap DOMAIN lines # {}
           THEN /\ req' = Answered(q, "conflict")
                /\ UNCHANGED <<charge, runs>>
           ELSE /\ charge' = [c \in Children |-> IF c \in DOMAIN lines THEN lines[c] ELSE charge[c]]
                /\ runs' = [runs EXCEPT ![r] = [@ EXCEPT !.status = "committed", !.key = req[q].key]]
                /\ req' = Answered(q, "committed")
  /\ UNCHANGED <<tariff, days, pending, period, ending, late>>

\* The transaction is rolled back: its 60 seconds are over, the connection or
\* the process is lost.
Fail(q) ==
  /\ req[q].at # "idle"
  /\ req' = Answered(q, "failed")
  /\ UNCHANGED <<tariff, days, charge, pending, period, runs, ending, late>>

-----------------------------------------------------------------------------
\* Attendance of a child changes: checkIn, setStatus and correct write the day
\* and recalculate the child's charge in one transaction.

\* The charge after a recalculation: a replacement or an adjustment makes it
\* follow the attendance, with the tariff it was issued with.
recalculated(c, d) ==
  IF charge[c] = NoCharge THEN charge ELSE [charge EXCEPT ![c].days = d]

recordAttendance(c, d) ==
  /\ IsFree(c)
  /\ days' = [days EXCEPT ![c] = d]
  /\ IF charge[c] # NoCharge /\ period \in ManualOnly
     THEN /\ pending' = pending \cup {c}
          /\ UNCHANGED charge
     ELSE /\ charge' = recalculated(c, d)
          /\ UNCHANGED pending
  /\ UNCHANGED <<tariff, period, runs, req, ending, late>>

\* An accountant applies the corrections that wait.
resolve(c) ==
  /\ c \in pending
  /\ IsFree(c)
  /\ charge' = recalculated(c, days[c])
  /\ pending' = pending \ {c}
  /\ UNCHANGED <<tariff, days, period, runs, req, ending, late>>

-----------------------------------------------------------------------------
\* The tariff of child c in the period becomes t.
Retariff(c, t) ==
  /\ tariff' = [tariff EXCEPT ![c] = t]
  /\ late' = IF c \notin Billable /\ t # NoTariff /\ \E q \in Requests : req[q].at = "children"
             THEN late \cup {c} ELSE late

\* A tariff is assigned from a day of the period on.
assignToChild(c, t) ==
  /\ IsFree(c)
  /\ charge[c] = NoCharge
  /\ Retariff(c, t)
  /\ UNCHANGED <<days, charge, pending, period, runs, req, ending>>

\* A tariff is assigned from an earlier month on, in which the child has no
\* charge.  It reaches into the period, or ends before it and takes away the
\* assignment that did.
assignEarlier(c, t) ==
  /\ IsFree(c)
  /\ Retariff(c, t)
  /\ UNCHANGED <<days, charge, pending, period, runs, req, ending>>

\* endAssignment with a date within the period reads the period and its runs,
\* and then updates the assignment, in two statements and without the child
\* lock.
CheckAssignment(e, c) ==
  /\ ending[e] = NoChild
  /\ period = "open" /\ Committed = {}
  /\ ending' = [ending EXCEPT ![e] = c]
  /\ UNCHANGED <<tariff, days, charge, pending, period, runs, req, late>>

\* The line of a child whose assignment ends within the period is another one.
EndAssignment(e) ==
  /\ ending[e] # NoChild
  /\ \E t \in Tariffs \ {tariff[ending[e]]} : Retariff(ending[e], t)
  /\ ending' = [ending EXCEPT ![e] = NoChild]
  /\ UNCHANGED <<days, charge, pending, period, runs, req>>

\* endAssignment with a date of another month: that month is checked and this
\* one is not.  The assignment leaves the period, or is prolonged into it.
EndElsewhere(c) ==
  /\ \E t \in (Tariffs \cup {NoTariff}) \ {tariff[c]} : Retariff(c, t)
  /\ UNCHANGED <<days, charge, pending, period, runs, req, ending>>

close ==
  /\ period = "open"
  /\ period' = "closed"
  /\ UNCHANGED <<tariff, days, charge, pending, runs, req, ending, late>>

reopen ==
  /\ period = "closed"
  /\ period' = "open"
  /\ UNCHANGED <<tariff, days, charge, pending, runs, req, ending, late>>

Next ==
  \/ \E r \in Runs : preview(r) \/ discard(r)
  \/ \E q \in Requests :
       \/ \E r \in Runs, k \in Keys : Start(q, r, k)
       \/ LockRun(q) \/ LockChild(q)
       \/ ListAgain(q) \/ ComputeLine(q) \/ Compare(q) \/ InsertCharges(q)
       \/ Fail(q)
  \/ \E c \in Children :
       \/ \E d \in Days : recordAttendance(c, d)
       \/ \E t \in Tariffs : assignToChild(c, t)
       \/ \E t \in Tariffs \cup {NoTariff} : assignEarlier(c, t)
       \/ EndElsewhere(c)
       \/ resolve(c)
  \/ \E e \in Editors : EndAssignment(e) \/ \E c \in Children : CheckAssignment(e, c)
  \/ close \/ reopen

Spec == Init /\ [][Next]_vars

-----------------------------------------------------------------------------
\* Properties.

LineType == [tariff : Tariffs, days : Days]
PreviewType == UNION {[S -> LineType] : S \in SUBSET Children}
Answers == {"none", "committed", "replayed", "conflict", "closed", "stale", "failed"}

\* Every variable holds rows of its table.
TypeOK ==
  /\ tariff \in [Children -> Tariffs \cup {NoTariff}]
  /\ days \in [Children -> Days]
  /\ charge \in [Children -> LineType \cup {NoCharge}]
  /\ pending \subseteq Charged
  /\ period \in {"open", "closed"}
  /\ runs \in [Runs -> [status : {"none", "preview", "committed", "discarded"},
                        preview : PreviewType, key : Keys \cup {NoKey}]]
  /\ req \in [Requests -> [at : {"idle", "run", "children", "compute", "insert"}, run : Runs \cup {NoRun},
                           key : Keys \cup {NoKey}, todo : SUBSET Children,
                           held : SUBSET (Runs \cup Children), lines : PreviewType,
                           reply : Answers]]
  /\ late \subseteq Children
  /\ ending \in [Editors -> Children \cup {NoChild}]

\* Every variable keeps its type; however many previews and commits race, one
\* run of the period is committed; and a client that is told its commit
\* succeeded, now or in a replay, has that run, under its own key.
ReplayIsHonest ==
  /\ TypeOK
  /\ Cardinality(Committed) <= 1
  /\ \A q \in Requests : req[q].reply \in {"committed", "replayed"} =>
      runs[req[q].run].status = "committed" /\ runs[req[q].run].key = req[q].key

\* A run charges what its preview showed: no child more, no child less, no
\* other amount, whatever was recorded between preview and commit and whatever
\* is recorded while the commit reads.
ChargedAsPreviewed ==
  [][\A r \in Runs : r \in Committed' \ Committed =>
       LET shown == runs[r].preview
       IN \A c \in Children :
            IF c \in DOMAIN shown
            THEN /\ charge'[c] # NoCharge
                 /\ Price[charge'[c].tariff] = Price[shown[c].tariff]
                 /\ charge'[c].days = shown[c].days
            ELSE charge'[c] = charge[c]]_vars

\* A charge comes to what the recorded attendance gives, or somebody was told
\* to resolve it: attendance that is recorded while a run commits is not lost
\* between the preview, the run's reading of it, and the recalculation.  The
\* exception is a child that got its tariff between the two lists of children:
\* it is billed and was not locked.
BilledAsAttended ==
  \A c \in Charged : charge[c].days = days[c] \/ c \in pending \cup late

\* Without the exception: violated, see the README.
BilledAsAttendedAlways ==
  \A c \in Charged : charge[c].days = days[c] \/ c \in pending

\* The tariff of a child stands once it is billed (violated, see the README).
BilledTariffStands ==
  [][\A c \in Charged : tariff'[c] = tariff[c]]_vars

\* The row locks that the next step of request q needs.
Wanted(q) ==
  CASE req[q].at = "run" -> {req[q].run}
    [] req[q].at = "children" -> {c \in req[q].todo : \A d \in req[q].todo : c <= d}
    [] req[q].at = "insert" -> DOMAIN Lines(q) \ req[q].held
    [] OTHER -> {}

\* Commits never all wait for each other: as long as one is under way, the next
\* step of one of them needs no lock that another holds, but for that of a child
\* that got its tariff meanwhile, which is locked out of order.
CommitsNeverDeadlock ==
  (\E q \in Requests : req[q].at # "idle") =>
    \E q \in Requests :
      /\ req[q].at # "idle"
      /\ \A p \in Requests \ {q} : Wanted(q) \cap req[p].held \subseteq late

\* All this comes to one step that bills children for the tariff and attendance
\* of the moment their line was computed; the attendance is still that when the
\* run commits.
Promise == INSTANCE PeriodBilling WITH
             billed <- Committed # {}, reading <- [q \in Requests |-> req[q].lines]
BillsOnce == Promise!Spec
=============================================================================

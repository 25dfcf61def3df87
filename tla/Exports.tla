------------------------------ MODULE Exports ------------------------------
(***************************************************************************)
(* Reports that are too long to answer at once: an export is queued, made  *)
(* by a worker that runs the report again, and downloaded by its requester *)
(* while their access still covers it (src/src/reports,                    *)
(* src/src/files/files.service.ts).                                        *)
(*                                                                         *)
(* One person asks.  A row of a report is where its child was: the key of  *)
(* the permission it is read under, a branch and a group.  The person's    *)
(* access changes at any time.  pg-boss is modelled from its use: a job is *)
(* retried once when its worker stops, throws or takes too long.           *)
(***************************************************************************)
EXTENDS Integers, FiniteSets

CONSTANTS
    Exported,    \* the rows export_job may have
    Workers,     \* localConcurrency of the queue
    Asked,       \* the reports that are asked for
    Branches,
    Groups,
    Accesses,    \* what the person's access may be
    MaxEdits,    \* bound on changes of the access
    MaxFaults    \* bound on stops, errors and timeouts of workers

None == "none"

(***************************************************************************)
(* The reports: the parameters their routes keep, those their entry in     *)
(* REPORT_REGISTRY reads, the permissions their queries filter by, and the *)
(* permissions DOMAINS names for them.                                     *)
(***************************************************************************)
AttendanceRoutes ==
    [r \in {"attendance/daily", "attendance/monthly", "attendance/corrections"} |->
        CASE r = "attendance/daily"   -> {"date", "groupId"}
          [] r = "attendance/monthly" -> {"year", "month", "groupId"}
          [] OTHER                    -> {"from", "to"}]

ChildrenRoutes ==
    [r \in {"children/active", "children/enrollments", "children/documents-expiring",
            "children/medical-alerts"} |->
        CASE r = "children/active"      -> {"groupId"}
          [] r = "children/enrollments" -> {"from", "to"}
          [] OTHER                      -> {}]

FinanceRoutes ==
    [r \in {"finance/charges", "finance/payments", "finance/debts", "finance/discounts",
            "finance/cancellations", "expenses/monthly"} |->
        CASE r = "finance/charges"  -> {"periodId"}
          [] r = "finance/payments" -> {"from", "to", "method"}
          [] r = "finance/debts"    -> {"ageing"}
          [] r = "expenses/monthly" -> {"year", "month"}
          [] OTHER                  -> {"from", "to"}]

Reports == DOMAIN AttendanceRoutes \cup DOMAIN ChildrenRoutes \cup DOMAIN FinanceRoutes

Kept(r) == CASE r \in DOMAIN AttendanceRoutes -> AttendanceRoutes[r]
             [] r \in DOMAIN ChildrenRoutes   -> ChildrenRoutes[r]
             [] OTHER                         -> FinanceRoutes[r]

REPORT_REGISTRY(r) ==
    CASE r = "attendance/daily"   -> {"date", "groupId"}
      [] r = "attendance/monthly" -> {"year", "month", "groupId"}
      [] r = "children/active"    -> {"groupId"}
      [] r \in {"children/documents-expiring", "children/medical-alerts"} -> {}
      [] r = "finance/charges"    -> {"periodId"}
      [] r = "finance/payments"   -> {"from", "to", "method"}
      [] r = "finance/debts"      -> {"ageing"}
      [] r = "expenses/monthly"   -> {"year", "month"}
      [] OTHER                    -> {"from", "to"}

AttendanceQueries(r) ==
    IF r = "attendance/corrections" THEN {"attendance:correct"} ELSE {"attendance:read"}

ChildrenQueries(r) ==
    IF r = "children/medical-alerts" THEN {"medical:alerts"} ELSE {"child:read"}

FinanceQueries(r) ==
    CASE r = "finance/charges"       -> {"charge:read"}
      [] r = "finance/payments"      -> {"payment:read"}
      [] r = "finance/debts"         -> {"debt:read"}
      [] r = "finance/discounts"     -> {"discount:manage"}
      [] r = "finance/cancellations" -> {"charge:read", "payment:read"}
      [] OTHER                       -> {"expense:read"}

Queries(r) == CASE r \in DOMAIN AttendanceRoutes -> AttendanceQueries(r)
                [] r \in DOMAIN ChildrenRoutes   -> ChildrenQueries(r)
                [] OTHER                         -> FinanceQueries(r)

DOMAINS(r) ==
    CASE r \in {"attendance/daily", "attendance/monthly"} -> {"attendance:read"}
      [] r = "attendance/corrections"  -> {"attendance:correct"}
      [] r = "children/medical-alerts" -> {"medical:alerts"}
      [] r \in DOMAIN ChildrenRoutes \ {"children/medical-alerts"} -> {"child:read"}
      [] r = "finance/charges"         -> {"charge:read"}
      [] r = "finance/payments"        -> {"payment:read"}
      [] r = "finance/debts"           -> {"debt:read"}
      [] r = "finance/discounts"       -> {"discount:manage"}
      [] r = "finance/cancellations"   -> {"charge:read", "payment:read"}
      [] OTHER                         -> {"expense:read"}

Keys == UNION {Queries(r) : r \in Asked}

(***************************************************************************)
(* Access: a scope and branches for each key, and the person's own groups. *)
(***************************************************************************)
\* childWhere, branchWhere and attendance's scopedWhere.  Days are left out: of
\* its branches, a scope "today" sees the rows of the day only.
Visible(a, k) ==
    [key : {k},
     branch : IF a.scope[k] = "all" THEN Branches ELSE a.branches[k],
     group : IF a.scope[k] = "own_group" THEN a.groups ELSE Groups]

\* requireScope, requireBranchIds and requireOwnGroupIds do not throw.
Granted(a, k) == a.scope[k] # None /\ (a.scope[k] # "all" => a.branches[k] # {})
Readable(a, k) == Granted(a, k) /\ (a.scope[k] = "own_group" => a.groups # {})

captureReportAccess(a, r) == \A k \in DOMAINS(r) : Granted(a, k)

\* MUTANT: the groups are not compared.
CoversBranches(saved, now, k) ==
    \/ now.scope[k] = "all"
    \/ /\ saved.scope[k] # "all"
       /\ saved.scope[k] = "branch" => now.scope[k] = "branch"
       /\ saved.branches[k] \subseteq now.branches[k]

Covers(saved, now, k) ==
    \/ now.scope[k] = "all"
    \/ /\ saved.scope[k] # "all"
       /\ saved.scope[k] = "branch" => now.scope[k] = "branch"
       /\ saved.branches[k] \subseteq now.branches[k]
       /\ now.scope[k] = "own_group" => saved.groups \subseteq now.groups

\* What an access is made of; the catalog has no report's permission with the
\* scope "self".
Scopes == {None, "all", "branch", "own_group", "today"}
AccessType ==
    [scope : [Keys -> Scopes], branches : [Keys -> SUBSET Branches], groups : SUBSET Groups]

ExportConstants ==
    /\ Asked \subseteq Reports /\ Accesses \subseteq AccessType
    /\ MaxEdits \in Nat /\ MaxFaults \in Nat

-----------------------------------------------------------------------------
VARIABLES
    access,    \* the person's access now
    edits,
    export,    \* export_job, and the file it points to
    job,       \* its job in pg-boss
    run,       \* what each worker does
    faults

vars == <<access, edits, export, job, run, faults>>

Idle == [pc |-> "idle"]
NoFile == [access |-> {}]
NoExport == [status |-> None, report |-> None, params |-> {}, file |-> NoFile, expired |-> FALSE]
NoJob == [state |-> None, tries |-> 0]

retryLimit == 1

assertExportAccess(e) ==
    /\ ~e.expired
    /\ captureReportAccess(access, e.report)
    /\ \A k \in DOMAINS(e.report) : Covers(e.file.access, access, k)

Edit ==
    /\ edits < MaxEdits /\ edits' = edits + 1
    /\ access' \in Accesses \ {access}
    /\ UNCHANGED <<export, job, run, faults>>

\* respond and create: the row is there before its job.
create(i) ==
    /\ export[i].status = None
    /\ \E r \in Asked :
        /\ \A k \in Queries(r) : Readable(access, k)
        /\ captureReportAccess(access, r)
        /\ export' = [export EXCEPT ![i] =
                        [NoExport EXCEPT !.status = "processing", !.report = r, !.params = Kept(r)]]
    /\ UNCHANGED <<access, edits, job, run, faults>>

send(i) ==
    /\ export[i].status = "processing" /\ job[i] = NoJob
    /\ job' = [job EXCEPT ![i].state = "ready"]
    /\ UNCHANGED <<access, edits, export, run, faults>>

(***************************************************************************)
(* The worker.                                                             *)
(***************************************************************************)
Fetch(w) ==
    /\ run[w] = Idle
    /\ \E i \in Exported :
        /\ job[i].state = "ready"
        /\ job' = [job EXCEPT ![i] = [state |-> "active", tries |-> @.tries + 1]]
        /\ run' = [run EXCEPT ![w] = [pc |-> "read", of |-> i]]
    /\ UNCHANGED <<access, edits, export, faults>>

\* The run of w ends; its job too, unless it has timed out and runs again.
Finish(w) ==
    /\ run' = [run EXCEPT ![w] = Idle]
    /\ job' = [job EXCEPT ![run[w].of].state = IF @ = "active" THEN "gone" ELSE @]

\* An export that is settled is left alone.  The permissions and the groups are
\* read first, the branches of each permission later.
process(w) ==
    /\ run[w].pc = "read"
    /\ IF export[run[w].of].status # "processing"
       THEN Finish(w)
       ELSE /\ run' = [run EXCEPT ![w] = [pc |-> "branches", of |-> run[w].of, read |-> access]]
            /\ UNCHANGED job
    /\ UNCHANGED <<access, edits, export, faults>>

\* The access is captured, then the report runs under it.
RunReport(w) ==
    LET i == run[w].of
        r == export[i].report
        a == [run[w].read EXCEPT !.branches = access.branches]
    IN  /\ run[w].pc = "branches"
        /\ run' = [run EXCEPT ![w] =
             IF captureReportAccess(a, r) /\ \A k \in Queries(r) : Readable(a, k)
             THEN [pc |-> "complete", of |-> i,
                   file |-> [access |-> a,
                             params |-> REPORT_REGISTRY(r) \cap export[i].params,
                             rows |-> UNION {Visible(a, k) : k \in Queries(r)}]]
             ELSE [pc |-> "fail", of |-> i]]
        /\ UNCHANGED <<access, edits, export, job, faults>>

\* One UPDATE for the status, the captured access and the file.
Complete(w) ==
    /\ run[w].pc = "complete"
    /\ export' = [export EXCEPT ![run[w].of].status = "completed", ![run[w].of].file = run[w].file]
    /\ Finish(w) /\ UNCHANGED <<access, edits, faults>>

\* MUTANT: an error is only logged.
FailSilently(w) ==
    /\ run[w].pc = "fail"
    /\ Finish(w) /\ UNCHANGED <<access, edits, export, faults>>

Fail(w) ==
    /\ run[w].pc = "fail"
    /\ export' = [export EXCEPT ![run[w].of].status = "failed"]
    /\ Finish(w) /\ UNCHANGED <<access, edits, faults>>

\* The storage or the report fails.
Break(w) ==
    /\ run[w].pc = "complete"
    /\ run' = [run EXCEPT ![w] = [pc |-> "fail", of |-> run[w].of]]
    /\ UNCHANGED <<access, edits, export, job, faults>>

Fault == faults < MaxFaults /\ faults' = faults + 1

\* The process stops, or a statement outside the try block throws.
Stop ==
    /\ Fault
    /\ \/ run' = [w \in Workers |-> Idle]
       \/ \E w \in Workers : run[w] # Idle /\ run' = [run EXCEPT ![w] = Idle]
    /\ UNCHANGED <<access, edits, export, job>>

\* pg-boss takes an active job back: its worker has stopped, or is too slow and
\* goes on.
Requeue(i) ==
    /\ job[i].state = "active"
    /\ job' = [job EXCEPT ![i].state = IF job[i].tries <= retryLimit THEN "ready" ELSE "gone"]
    /\ UNCHANGED <<access, edits, export, run>>

Retry(i) ==
    /\ \A w \in Workers : run[w].pc # "idle" => run[w].of # i
    /\ Requeue(i) /\ UNCHANGED faults

Timeout(i) ==
    /\ \E w \in Workers : run[w].pc # "idle" /\ run[w].of = i
    /\ Fault /\ Requeue(i)

\* expiresAt is a day after the completion.
Expire ==
    /\ \E i \in Exported : /\ export[i].file # NoFile /\ ~export[i].expired
                      /\ export' = [export EXCEPT ![i].expired = TRUE]
    /\ UNCHANGED <<access, edits, job, run, faults>>

-----------------------------------------------------------------------------
Init ==
    /\ access \in Accesses /\ edits = 0 /\ faults = 0
    /\ export = [i \in Exported |-> NoExport]
    /\ job = [i \in Exported |-> NoJob]
    /\ run = [w \in Workers |-> Idle]

Work(w) == Fetch(w) \/ process(w) \/ RunReport(w) \/ Complete(w) \/ Fail(w)

Next ==
    \/ Edit \/ Stop \/ Expire
    \/ \E i \in Exported : create(i) \/ send(i) \/ Retry(i) \/ Timeout(i)
    \/ \E w \in Workers : Work(w) \/ Break(w)

\* The workers run and pg-boss takes back what was left; a request may be lost
\* before it sends.
Fairness ==
    /\ \A w \in Workers : WF_vars(Work(w))
    /\ \A i \in Exported : WF_vars(Retry(i))

Spec == Init /\ [][Next]_vars /\ Fairness

-----------------------------------------------------------------------------
(***************************************************************************)
(* Properties                                                              *)
(***************************************************************************)
\* Every variable keeps its type.
TypeOK ==
    /\ access \in Accesses /\ edits \in 0..MaxEdits /\ faults \in 0..MaxFaults
    /\ \A i \in Exported :
        /\ export[i].status \in {None, "processing", "completed", "failed"}
        /\ export[i].report \in Asked \cup {None}
        /\ job[i].state \in {None, "ready", "active", "gone"}
        /\ job[i].tries \in 0..retryLimit + 1

\* Covers compares "today" with "all" and "branch" alone: from and to own
\* groups, and from one day to the next, it lets through what it does not cover.
Uncompared(saved, now, k) ==
    /\ "today" \in {saved.scope[k], now.scope[k]}
    /\ now.scope[k] \in {"own_group", "today"}

RowsSeen(i) == export[i].file.rows \subseteq UNION {Visible(access, k) : k \in Keys}

\* "Report access has narrowed; generate a new export": whoever may download an
\* export may see every row of it today, though it was made under an access
\* that was read in two steps, maybe by two workers, and edited since, unless
\* the scope "today" is set against one it is not compared with; and its file
\* answers the query that was asked, parameter by parameter.
CoversRows ==
    \A i \in Exported :
        export[i].file # NoFile =>
            /\ /\ assertExportAccess(export[i])
               /\ \A k \in DOMAINS(export[i].report) : ~Uncompared(export[i].file.access, access, k)
               => RowsSeen(i)
            /\ export[i].file.params = Kept(export[i].report)

\* The same whatever the scopes.
NarrowedIsRefused ==
    \A i \in Exported : export[i].file # NoFile /\ assertExportAccess(export[i]) => RowsSeen(i)

\* Every export whose job was sent is completed or failed in the end, though
\* its worker stops, throws or is taken for dead once.
ExportsSettle ==
    \A i \in Exported : (job[i].state # None) ~> (export[i].status \in {"completed", "failed"})

\* The same for every export that was created.
CreatedExportsSettle ==
    \A i \in Exported :
        (export[i].status = "processing") ~> (export[i].status \in {"completed", "failed"})

\* A settled export keeps its status.
StaysSettled ==
    [][\A i \in Exported : export[i].status \in {"completed", "failed"} =>
        export'[i].status = export[i].status]_vars
=============================================================================

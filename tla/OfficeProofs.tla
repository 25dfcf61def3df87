----------------------------- MODULE OfficeProofs -----------------------------
(***************************************************************************)
(* Exports, the binding of chats to the bot and the landing page are right *)
(* for any reports, accesses, workers, chats, tokens, updates, blocks,     *)
(* editors, publishers and faults.                                         *)
(*                                                                         *)
(* Exports: the strengthening follows the file from the worker that makes  *)
(* it to its row: it is of the report that the row asks for, and what it   *)
(* holds was visible under the very access that is captured with it.  The  *)
(* rest is a lemma on accesses (CoversIsEnough) and a reading of tables.   *)
(*                                                                         *)
(* The bot: a /stop is final because the polling loop leaves no update out *)
(* and goes back to none that Telegram counts as acknowledged.  The        *)
(* strengthening (LoopInv) says so of the offset, the batch and the one    *)
(* handler at work; StopInv and TokenInv are what follows for the rows.    *)
(*                                                                         *)
(* The page: no publisher holds a version beyond the next one (PageInv),   *)
(* as versions are numbered by a count of the rows; a row is written, and  *)
(* goes live, only when its version is that next one.                      *)
(***************************************************************************)
EXTENDS MCOffice, WellFoundedInduction, TLAPS

Parameters == UNION {REPORT_REGISTRY(r) : r \in Asked}

Row == [key : Keys, branch : Branches, group : Groups]
File == [access : AccessType, params : SUBSET Parameters, rows : SUBSET Row]

ExportRow ==
    [status : {None, "processing", "completed", "failed"}, report : Asked \cup {None},
     params : SUBSET Parameters, file : {NoFile} \cup File, expired : BOOLEAN]

Run == {Idle}
       \cup [pc : {"read", "fail"}, of : Exported]
       \cup [pc : {"branches"}, of : Exported, read : AccessType]
       \cup [pc : {"complete"}, of : Exported, file : File]

TypeInv ==
    /\ access \in AccessType
    /\ export \in [Exported -> ExportRow]
    /\ run \in [Workers -> Run]

\* f is what report r gives under the access that f has captured.
Answers(f, r) ==
    /\ r \in Asked
    /\ captureReportAccess(f.access, r)
    /\ f.rows = UNION {Visible(f.access, k) : k \in Queries(r)}
    /\ f.params = Kept(r)

\* An export that was created asks for a report; its file is an answer.
RowInv(e) ==
    /\ e.status # None => e.report \in Asked /\ e.params = Kept(e.report)
    /\ e.file # NoFile => e.status # None /\ e.file \in File /\ Answers(e.file, e.report)

\* A worker past its first read works for an export that was created.
RunInv(r) ==
    /\ r.pc \in {"branches", "complete", "fail"} => export[r.of].status # None
    /\ r.pc = "complete" => Answers(r.file, export[r.of].report)

IInv ==
    /\ TypeInv
    /\ \A i \in Exported : RowInv(export[i])
    /\ \A w \in Workers : RunInv(run[w])

-----------------------------------------------------------------------------
\* The tables.

LEMMA AttendanceTables ==
  \A r \in DOMAIN AttendanceRoutes :
      AttendanceRoutes[r] = REPORT_REGISTRY(r) /\ AttendanceQueries(r) = DOMAINS(r)
<1>1. \A r \in DOMAIN AttendanceRoutes : AttendanceRoutes[r] = REPORT_REGISTRY(r)
  BY DEF AttendanceRoutes, REPORT_REGISTRY
<1>2. \A r \in DOMAIN AttendanceRoutes : AttendanceQueries(r) = DOMAINS(r)
  BY DEF AttendanceRoutes, AttendanceQueries, DOMAINS, ChildrenRoutes
<1> QED  BY <1>1, <1>2

LEMMA ChildrenTables ==
  \A r \in DOMAIN ChildrenRoutes :
      ChildrenRoutes[r] = REPORT_REGISTRY(r) /\ ChildrenQueries(r) = DOMAINS(r)
<1>1. \A r \in DOMAIN ChildrenRoutes : ChildrenRoutes[r] = REPORT_REGISTRY(r)
  BY DEF ChildrenRoutes, REPORT_REGISTRY
<1>2. ASSUME NEW r \in DOMAIN ChildrenRoutes PROVE ChildrenQueries(r) = DOMAINS(r)
  <2>1. r \notin {"attendance/daily", "attendance/monthly", "attendance/corrections",
                  "finance/charges", "finance/payments", "finance/debts", "finance/discounts",
                  "finance/cancellations"}
    BY DEF ChildrenRoutes
  <2>2. CASE r = "children/medical-alerts"
    BY <2>1, <2>2 DEF ChildrenQueries, DOMAINS
  <2>3. CASE r # "children/medical-alerts"
    BY <2>1, <2>3 DEF ChildrenQueries, DOMAINS
  <2> QED  BY <2>2, <2>3
<1> QED  BY <1>1, <1>2

LEMMA FinanceTables ==
  \A r \in DOMAIN FinanceRoutes :
      FinanceRoutes[r] = REPORT_REGISTRY(r) /\ FinanceQueries(r) = DOMAINS(r)
<1>1. \A r \in DOMAIN FinanceRoutes : FinanceRoutes[r] = REPORT_REGISTRY(r)
  BY DEF FinanceRoutes, REPORT_REGISTRY
<1>2. \A r \in DOMAIN FinanceRoutes : FinanceQueries(r) = DOMAINS(r)
  BY DEF FinanceRoutes, FinanceQueries, DOMAINS, ChildrenRoutes
<1> QED  BY <1>1, <1>2

\* Every report: its registry entry reads all its route keeps, and its access
\* check names the permissions its queries filter by.
LEMMA Tables ==
  ASSUME ExportConstants, NEW r \in Asked
  PROVE  Kept(r) = REPORT_REGISTRY(r) /\ Queries(r) = DOMAINS(r) /\ Queries(r) \subseteq Keys
<1>1. r \in DOMAIN AttendanceRoutes \cup DOMAIN ChildrenRoutes \cup DOMAIN FinanceRoutes
  BY DEF ExportConstants, Reports
<1>2. DOMAIN AttendanceRoutes \cap DOMAIN ChildrenRoutes = {}
  BY DEF AttendanceRoutes, ChildrenRoutes
<1>3. DOMAIN FinanceRoutes \cap (DOMAIN AttendanceRoutes \cup DOMAIN ChildrenRoutes) = {}
  BY DEF AttendanceRoutes, ChildrenRoutes, FinanceRoutes
<1>4. Kept(r) = REPORT_REGISTRY(r) /\ Queries(r) = DOMAINS(r)
  BY <1>1, <1>2, <1>3, AttendanceTables, ChildrenTables, FinanceTables DEF Kept, Queries
<1> QED  BY <1>4 DEF Keys

-----------------------------------------------------------------------------
\* Accesses.

\* The comparison is enough: what was visible under the captured access is
\* visible now.
LEMMA CoversIsEnough ==
  ASSUME NEW saved \in AccessType, NEW present \in AccessType, NEW k \in Keys,
         Granted(saved, k), Granted(present, k), Covers(saved, present, k), ~Uncompared(saved, present, k)
  PROVE  Visible(saved, k) \subseteq Visible(present, k)
<1> DEFINE inBranch(a) == IF a.scope[k] = "all" THEN Branches ELSE a.branches[k]
           inGroup(a) == IF a.scope[k] = "own_group" THEN a.groups ELSE Groups
<1>1. /\ saved.scope[k] \in Scopes /\ present.scope[k] \in Scopes
      /\ saved.branches[k] \subseteq Branches /\ present.branches[k] \subseteq Branches
      /\ saved.groups \subseteq Groups /\ present.groups \subseteq Groups
  BY DEF AccessType
<1>2. inBranch(saved) \subseteq inBranch(present)
  BY <1>1 DEF Covers
<1>3. inGroup(saved) \subseteq inGroup(present)
  BY <1>1 DEF Covers, Uncompared, Granted, Scopes
<1>4. /\ Visible(saved, k) = [key : {k}, branch : inBranch(saved), group : inGroup(saved)]
      /\ Visible(present, k) = [key : {k}, branch : inBranch(present), group : inGroup(present)]
  BY DEF Visible
<1>5. ASSUME NEW B, NEW C, NEW G, NEW H, B \subseteq C, G \subseteq H
      PROVE  [key : {k}, branch : B, group : G] \subseteq [key : {k}, branch : C, group : H]
  BY <1>5
<1> HIDE DEF inBranch, inGroup
<1> QED  BY <1>2, <1>3, <1>4, <1>5

LEMMA VisibleRows ==
  ASSUME NEW a \in AccessType, NEW k \in Keys
  PROVE  Visible(a, k) \subseteq Row
BY DEF Visible, Row, AccessType

\* A file that answers shows nothing that is not visible now.
LEMMA AnswersAreVisible ==
  ASSUME ExportConstants, NEW f \in File, NEW r, Answers(f, r), access \in AccessType,
         captureReportAccess(access, r), \A k \in DOMAINS(r) : Covers(f.access, access, k),
         \A k \in DOMAINS(r) : ~Uncompared(f.access, access, k)
  PROVE  f.rows \subseteq UNION {Visible(access, k) : k \in Keys}
<1>1. r \in Asked /\ Queries(r) = DOMAINS(r) /\ Queries(r) \subseteq Keys
  BY Tables DEF Answers
<1>2. ASSUME NEW k \in Queries(r) PROVE Visible(f.access, k) \subseteq Visible(access, k)
  BY <1>1, <1>2, CoversIsEnough DEF Answers, captureReportAccess, File
<1> QED  BY <1>1, <1>2 DEF Answers

-----------------------------------------------------------------------------
\* The steps.

LEMMA SameInv ==
  ASSUME IInv, UNCHANGED <<export, run>>, access' \in AccessType
  PROVE  IInv'
BY DEF IInv, TypeInv, RowInv, RunInv

\* A run that ends.
LEMMA FinishStep ==
  ASSUME IInv, NEW w \in Workers, Finish(w)
  PROVE  run' \in [Workers -> Run] /\ \A x \in Workers : run'[x] = Idle \/ run'[x] = run[x]
BY DEF IInv, TypeInv, Finish, Run

\* Runs that end, or go on, beside rows that keep their report.
LEMMA RunsStay ==
  ASSUME IInv, \A x \in Workers : run'[x] = Idle \/ run'[x] = run[x],
         export' \in [Exported -> ExportRow],
         \A i \in Exported : export[i].status # None =>
             export'[i].status # None /\ export'[i].report = export[i].report
  PROVE  \A x \in Workers : RunInv(run[x])'
<1> SUFFICES ASSUME NEW x \in Workers PROVE RunInv(run[x])'
  OBVIOUS
<1>1. CASE run'[x] = Idle
  BY <1>1 DEF RunInv, Idle
<1>2. CASE run'[x] = run[x]
  <2>1. RunInv(run[x]) /\ run[x] \in Run
    BY DEF IInv, TypeInv
  <2>2. run[x].pc \in {"branches", "complete", "fail"} => run[x].of \in Exported
    BY <2>1 DEF Run, Idle
  <2> QED  BY <1>2, <2>1, <2>2 DEF RunInv
<1> QED  BY <1>1, <1>2

LEMMA EditStep ==
  ASSUME ExportConstants, IInv, Edit
  PROVE  IInv'
BY SameInv DEF Edit, ExportConstants

\* Steps of jobs alone.
LEMMA JobStep ==
  ASSUME IInv, NEW i \in Exported, send(i) \/ Retry(i) \/ Timeout(i)
  PROVE  IInv'
<1>1. UNCHANGED <<export, run, access>>
  BY DEF send, Retry, Timeout, Requeue
<1> QED  BY <1>1, SameInv DEF IInv, TypeInv

\* An export row is written, beside runs that end or go on.
LEMMA WriteStep ==
  ASSUME IInv, UNCHANGED access, run' \in [Workers -> Run],
         \A x \in Workers : run'[x] = Idle \/ run'[x] = run[x],
         NEW i \in Exported, NEW e \in ExportRow, RowInv(e), export' = [export EXCEPT ![i] = e],
         export[i].status # None => e.status # None /\ e.report = export[i].report
  PROVE  IInv'
<1>1. export' \in [Exported -> ExportRow]
  BY DEF IInv, TypeInv
<1>2. \A j \in Exported : export'[j] = IF j = i THEN e ELSE export[j]
  BY DEF IInv, TypeInv
<1>3. \A j \in Exported : RowInv(export[j])'
  <2> SUFFICES ASSUME NEW j \in Exported PROVE RowInv(export[j])'
    OBVIOUS
  <2>1. RowInv(export[j])
    BY DEF IInv
  <2> QED  BY <1>2, <2>1 DEF RowInv
<1>4. \A x \in Workers : RunInv(run[x])'
  BY <1>1, <1>2, RunsStay
<1> QED  BY <1>1, <1>3, <1>4 DEF IInv, TypeInv

LEMMA createStep ==
  ASSUME ExportConstants, IInv, NEW i \in Exported, create(i)
  PROVE  IInv'
<1>1. PICK r \in Asked :
        export' = [export EXCEPT ![i] =
                     [NoExport EXCEPT !.status = "processing", !.report = r, !.params = Kept(r)]]
  BY DEF create
<1> DEFINE e == [NoExport EXCEPT !.status = "processing", !.report = r, !.params = Kept(r)]
<1>2. Kept(r) \in SUBSET Parameters
  BY Tables DEF Parameters
<1>3. NoExport \in ExportRow /\ NoExport.file = NoFile
  BY DEF NoExport, ExportRow
<1>4. e \in ExportRow /\ RowInv(e)
  <2>1. e \in ExportRow
    BY <1>2, <1>3 DEF ExportRow
  <2>2. e.status = "processing" /\ e.report = r /\ e.params = Kept(r) /\ e.file = NoFile
    BY <1>3 DEF ExportRow
  <2> HIDE DEF e
  <2> QED  BY <2>1, <2>2 DEF RowInv, None
<1>5. export' = [export EXCEPT ![i] = e] /\ export[i].status = None
  BY <1>1 DEF create
<1>6. UNCHANGED <<access, run>> /\ run \in [Workers -> Run]
  BY DEF create, IInv, TypeInv
<1> HIDE DEF e
<1> QED  BY <1>4, <1>5, <1>6, WriteStep

LEMMA ExpireStep ==
  ASSUME IInv, Expire
  PROVE  IInv'
<1>1. PICK i \in Exported : export' = [export EXCEPT ![i].expired = TRUE]
  BY DEF Expire
<1> DEFINE e == [export[i] EXCEPT !.expired = TRUE]
<1>2. export[i] \in ExportRow /\ RowInv(export[i])
  BY DEF IInv, TypeInv
<1>3. /\ e \in ExportRow /\ e.status = export[i].status /\ e.report = export[i].report
      /\ e.params = export[i].params /\ e.file = export[i].file
  BY <1>2 DEF ExportRow
<1>4. RowInv(e)
  <2> HIDE DEF e
  <2> QED  BY <1>2, <1>3 DEF RowInv
<1>5. export' = [export EXCEPT ![i] = e]
  BY <1>1
<1>6. UNCHANGED <<access, run>> /\ run \in [Workers -> Run]
  BY DEF Expire, IInv, TypeInv
<1> HIDE DEF e
<1> QED  BY <1>3, <1>4, <1>5, <1>6, WriteStep

-----------------------------------------------------------------------------
\* The worker.

\* A run begins or ends, or goes on as r.
LEMMA RunStep ==
  ASSUME IInv, UNCHANGED <<access, export>>, NEW w \in Workers, NEW r \in Run, RunInv(r),
         run' = [run EXCEPT ![w] = r]
  PROVE  IInv'
<1>1. \A x \in Workers : RunInv(run[x])'
  <2> SUFFICES ASSUME NEW x \in Workers PROVE RunInv(run[x])'
    OBVIOUS
  <2>1. RunInv(run[x]) /\ run'[x] = IF x = w THEN r ELSE run[x]
    BY DEF IInv, TypeInv
  <2> QED  BY <2>1 DEF RunInv
<1>2. \A i \in Exported : RowInv(export[i])'
  BY DEF IInv, RowInv
<1> QED  BY <1>1, <1>2 DEF IInv, TypeInv

LEMMA Resting == Idle \in Run /\ RunInv(Idle)
BY DEF Idle, Run, RunInv

LEMMA FetchStep ==
  ASSUME IInv, NEW w \in Workers, Fetch(w)
  PROVE  IInv'
<1>1. PICK i \in Exported : run' = [run EXCEPT ![w] = [pc |-> "read", of |-> i]]
  BY DEF Fetch
<1> DEFINE r == [pc |-> "read", of |-> i]
<1>2. r \in Run /\ RunInv(r)
  BY DEF Run, RunInv
<1>3. UNCHANGED <<access, export>>
  BY DEF Fetch
<1> HIDE DEF r
<1> QED  BY <1>1, <1>2, <1>3, RunStep DEF r

LEMMA RunKinds ==
  ASSUME TypeInv, NEW w \in Workers
  PROVE  /\ run[w] \in Run
         /\ run[w].pc # "idle" => run[w].of \in Exported
         /\ run[w].pc = "branches" => run[w].read \in AccessType
         /\ run[w].pc = "complete" => run[w].file \in File
BY DEF TypeInv, Run, Idle

LEMMA processStep ==
  ASSUME IInv, NEW w \in Workers, process(w)
  PROVE  IInv'
<1>1. CASE Finish(w)
  <2>1. run' = [run EXCEPT ![w] = Idle] /\ UNCHANGED <<access, export>>
    BY <1>1 DEF Finish, process
  <2> QED  BY <2>1, Resting, RunStep
<1>2. CASE ~Finish(w)
  <2> DEFINE r == [pc |-> "branches", of |-> run[w].of, read |-> access]
  <2>1. run' = [run EXCEPT ![w] = r] /\ UNCHANGED <<access, export>>
        /\ export[run[w].of].status = "processing"
    BY <1>2 DEF process
  <2>2. run[w].of \in Exported /\ access \in AccessType
    BY RunKinds DEF process, IInv, TypeInv
  <2>3. r \in Run /\ RunInv(r)
    BY <2>1, <2>2 DEF Run, RunInv, None
  <2> HIDE DEF r
  <2> QED  BY <2>1, <2>3, RunStep
<1> QED  BY <1>1, <1>2

\* The file is made under the access that it captures.
LEMMA RunReportStep ==
  ASSUME ExportConstants, IInv, NEW w \in Workers, RunReport(w)
  PROVE  IInv'
<1>1. PICK i \in Exported : i = run[w].of
  BY RunKinds DEF RunReport, IInv
<1>2. PICK r : r = export[i].report
  OBVIOUS
<1>3. PICK a : a = [run[w].read EXCEPT !.branches = access.branches]
  OBVIOUS
<1>4. a \in AccessType
  BY <1>3, RunKinds DEF RunReport, IInv, TypeInv, AccessType
<1>5. export[i].status # None /\ RowInv(export[i]) /\ export[i] \in ExportRow
  BY <1>1 DEF RunReport, IInv, TypeInv, RunInv
<1>6. r \in Asked /\ export[i].params = Kept(r)
  BY <1>2, <1>5 DEF RowInv
<1> DEFINE f == [access |-> a, params |-> REPORT_REGISTRY(r) \cap export[i].params,
                 rows |-> UNION {Visible(a, k) : k \in Queries(r)}]
           made == [pc |-> "complete", of |-> i, file |-> f]
           broken == [pc |-> "fail", of |-> i]
<1>7. UNCHANGED <<access, export>>
  BY DEF RunReport
<1>8. \/ captureReportAccess(a, r) /\ run' = [run EXCEPT ![w] = made]
      \/ run' = [run EXCEPT ![w] = broken]
  BY <1>1, <1>2, <1>3 DEF RunReport
<1>9. broken \in Run /\ RunInv(broken)
  BY <1>5 DEF Run, RunInv
<1>10. ASSUME captureReportAccess(a, r) PROVE made \in Run /\ RunInv(made)
  <2>1. f.params = Kept(r) /\ f.params \subseteq Parameters
    BY <1>6, Tables DEF Parameters
  <2>2. f.rows \subseteq Row
    BY <1>4, <1>6, Tables, VisibleRows
  <2>3. f \in File
    BY <1>4, <2>1, <2>2 DEF File
  <2>4. Answers(f, r)
    BY <1>6, <1>10, <2>1 DEF Answers
  <2> HIDE DEF f
  <2>5. made \in Run
    BY <2>3 DEF Run
  <2> QED  BY <1>2, <1>5, <2>4, <2>5 DEF RunInv
<1> HIDE DEF made, broken
<1> QED  BY <1>7, <1>8, <1>9, <1>10, RunStep

\* The file comes to the row of the report it answers.
LEMMA CompleteStep ==
  ASSUME IInv, NEW w \in Workers, Complete(w)
  PROVE  IInv'
<1>1. PICK i \in Exported : i = run[w].of
  BY RunKinds DEF Complete, IInv
<1>2. PICK f \in File : f = run[w].file
  BY RunKinds DEF Complete, IInv
<1>3. export[i].status # None /\ Answers(f, export[i].report)
  BY <1>1, <1>2 DEF Complete, IInv, RunInv
<1>4. export[i] \in ExportRow /\ RowInv(export[i])
  BY DEF IInv, TypeInv
<1> DEFINE e == [export[i] EXCEPT !.status = "completed", !.file = f]
<1>5. /\ e \in ExportRow /\ e.status = "completed" /\ e.file = f
      /\ e.report = export[i].report /\ e.params = export[i].params
  BY <1>4 DEF ExportRow
<1>6. export' = [export EXCEPT ![i] = e]
  BY <1>1, <1>2 DEF Complete, IInv, TypeInv
<1>7. UNCHANGED access /\ Finish(w)
  BY DEF Complete
<1> HIDE DEF e
<1>8. RowInv(e)
  BY <1>3, <1>4, <1>5 DEF RowInv, None
<1> QED  BY <1>5, <1>6, <1>7, <1>8, FinishStep, WriteStep DEF None

LEMMA FailStep ==
  ASSUME IInv, NEW w \in Workers, Fail(w)
  PROVE  IInv'
<1>1. PICK i \in Exported : i = run[w].of
  BY RunKinds DEF Fail, IInv
<1>2. export[i] \in ExportRow /\ RowInv(export[i]) /\ export[i].status # None
  BY <1>1 DEF Fail, IInv, TypeInv, RunInv
<1> DEFINE e == [export[i] EXCEPT !.status = "failed"]
<1>3. /\ e \in ExportRow /\ e.status = "failed" /\ e.file = export[i].file
      /\ e.report = export[i].report /\ e.params = export[i].params
  BY <1>2 DEF ExportRow
<1>4. export' = [export EXCEPT ![i] = e]
  BY <1>1 DEF Fail
<1>5. UNCHANGED access /\ Finish(w)
  BY DEF Fail
<1> HIDE DEF e
<1>6. RowInv(e)
  BY <1>2, <1>3 DEF RowInv, None
<1> QED  BY <1>3, <1>4, <1>5, <1>6, FinishStep, WriteStep DEF None

LEMMA BreakStep ==
  ASSUME IInv, NEW w \in Workers, Break(w)
  PROVE  IInv'
<1> DEFINE r == [pc |-> "fail", of |-> run[w].of]
<1>1. run' = [run EXCEPT ![w] = r] /\ UNCHANGED <<access, export>>
  BY DEF Break
<1>2. run[w].of \in Exported /\ export[run[w].of].status # None
  BY RunKinds DEF Break, IInv, RunInv
<1>3. r \in Run /\ RunInv(r)
  BY <1>2 DEF Run, RunInv
<1> HIDE DEF r
<1> QED  BY <1>1, <1>3, RunStep

LEMMA StopStep ==
  ASSUME IInv, Stop
  PROVE  IInv'
<1>1. run' \in [Workers -> Run] /\ \A x \in Workers : run'[x] = Idle \/ run'[x] = run[x]
  BY Resting DEF Stop, IInv, TypeInv
<1>2. UNCHANGED <<access, export>>
  BY DEF Stop
<1>3. \A x \in Workers : RunInv(run[x])'
  BY <1>1, <1>2, RunsStay DEF IInv, TypeInv
<1>4. \A i \in Exported : RowInv(export[i])'
  BY <1>2 DEF IInv, RowInv
<1> QED  BY <1>1, <1>2, <1>3, <1>4 DEF IInv, TypeInv

-----------------------------------------------------------------------------
LEMMA IInvInit ==
  ASSUME ExportConstants, Init
  PROVE  IInv
<1>1. NoExport \in ExportRow /\ RowInv(NoExport)
  BY DEF NoExport, ExportRow, RowInv
<1>2. access \in AccessType
  BY DEF Init, ExportConstants
<1> QED  BY <1>1, <1>2, Resting DEF Init, IInv, TypeInv

LEMMA IInvNext ==
  ASSUME ExportConstants, IInv, [Next]_vars
  PROVE  IInv'
<1>1. CASE UNCHANGED vars
  BY <1>1, SameInv DEF vars, IInv, TypeInv
<1>2. ASSUME NEW w \in Workers, Work(w) PROVE IInv'
  BY <1>2, FetchStep, processStep, RunReportStep, CompleteStep, FailStep DEF Work
<1> QED
  BY <1>1, <1>2, EditStep, StopStep, ExpireStep, createStep, JobStep, BreakStep DEF Next

LEMMA Inductive ==
  ASSUME ExportConstants
  PROVE  Spec => []IInv
<1>1. Init => IInv
  BY IInvInit
<1>2. IInv /\ [Next]_vars => IInv'
  BY IInvNext
<1> QED  BY <1>1, <1>2, PTL DEF Spec

\* "Report access has narrowed; generate a new export": for any number of
\* exports, workers, branches and groups, and however access is edited while a
\* report is made, whoever may download a file may see its rows, but for the
\* scope "today" where it is not compared; and the file answers the query.
THEOREM DownloadsAreCovered ==
  ASSUME ExportConstants
  PROVE  Spec => []CoversRows
<1>1. ASSUME IInv PROVE CoversRows
  <2> SUFFICES ASSUME NEW i \in Exported, export[i].file # NoFile
               PROVE  /\ /\ assertExportAccess(export[i])
                         /\ \A k \in DOMAINS(export[i].report) :
                               ~Uncompared(export[i].file.access, access, k)
                         => RowsSeen(i)
                      /\ export[i].file.params = Kept(export[i].report)
    BY DEF CoversRows
  <2>1. export[i].file \in File /\ Answers(export[i].file, export[i].report)
        /\ access \in AccessType
    BY <1>1 DEF IInv, TypeInv, RowInv
  <2>2. export[i].file.params = Kept(export[i].report)
    BY <2>1 DEF Answers
  <2> QED  BY <2>1, <2>2, AnswersAreVisible DEF assertExportAccess, RowsSeen
<1> QED  BY <1>1, Inductive, PTL

\* The bounds, and the job of each export: pg-boss takes it back while it has
\* tries left.
JobInv ==
    /\ access \in Accesses /\ edits \in 0..MaxEdits /\ faults \in 0..MaxFaults
    /\ job \in [Exported -> [state : {None, "ready", "active", "gone"}, tries : 0..retryLimit + 1]]
    /\ \A i \in Exported : job[i].state = "ready" => job[i].tries <= retryLimit

LEMMA JobInvStep ==
  ASSUME ExportConstants, IInv, JobInv, Next
  PROVE  JobInv'
<1> DEFINE Job == [state : {None, "ready", "active", "gone"}, tries : 0..retryLimit + 1]
<1>1. access' \in Accesses /\ edits' \in 0..MaxEdits /\ faults' \in 0..MaxFaults
  <2>1. \/ edits < MaxEdits /\ edits' = edits + 1 /\ access' \in Accesses /\ faults' = faults
        \/ UNCHANGED <<access, edits>> /\ faults < MaxFaults /\ faults' = faults + 1
        \/ UNCHANGED <<access, edits, faults>>
    <3>1. ASSUME NEW w \in Workers, Work(w) \/ Break(w) PROVE UNCHANGED <<access, edits, faults>>
      BY <3>1 DEF Work, Fetch, process, RunReport, Complete, Fail, Break
    <3>2. ASSUME NEW i \in Exported, create(i) \/ send(i) \/ Retry(i) PROVE UNCHANGED <<access, edits, faults>>
      BY <3>2 DEF create, send, Retry, Requeue
    <3>3. ASSUME NEW i \in Exported, Timeout(i) \/ Stop
          PROVE  UNCHANGED <<access, edits>> /\ faults < MaxFaults /\ faults' = faults + 1
      BY <3>3 DEF Timeout, Stop, Fault, Requeue
    <3>4. CASE Edit \/ Expire \/ Stop
      BY <3>4 DEF Edit, Expire, Stop, Fault
    <3> QED  BY <3>1, <3>2, <3>3, <3>4 DEF Next
  <2> QED  BY <2>1 DEF ExportConstants, JobInv
<1>2. ASSUME NEW i \in Exported, NEW state \in {None, "ready", "active", "gone"},
             NEW tries \in 0..retryLimit + 1, state = "ready" => tries <= retryLimit,
             job' = [job EXCEPT ![i] = [state |-> state, tries |-> tries]]
      PROVE  JobInv'
  <2>1. job' \in [Exported -> Job] /\ \A j \in Exported : j # i => job'[j] = job[j]
    BY <1>2 DEF JobInv
  <2>2. job'[i] = [state |-> state, tries |-> tries]
    BY <1>2 DEF JobInv
  <2> QED
    BY <1>1, <1>2, <2>1, <2>2 DEF JobInv
<1>3. ASSUME NEW i \in Exported, NEW state \in {None, "ready", "active", "gone"},
             state = "ready" => job[i].tries <= retryLimit, job' = [job EXCEPT ![i].state = state]
      PROVE  JobInv'
  <2>1. job[i] \in Job
    BY DEF JobInv
  <2>2. job' = [job EXCEPT ![i] = [state |-> state, tries |-> job[i].tries]]
    <3>1. [job[i] EXCEPT !.state = state] = [state |-> state, tries |-> job[i].tries]
      BY <2>1
    <3>2. job' = [job EXCEPT ![i] = [job[i] EXCEPT !.state = state]]
      BY <1>3, Zenon
    <3> QED  BY <3>1, <3>2
  <2> QED
    BY <1>2, <1>3, <2>1, <2>2
<1>4. ASSUME NEW w \in Workers, run[w] # Idle, Finish(w) PROVE JobInv'
  <2>1. run[w] \in Run
    BY DEF IInv, TypeInv
  <2>2. run[w].of \in Exported
    BY <1>4, <2>1 DEF Run, Idle
  <2>3. PICK i \in Exported : i = run[w].of
    BY <2>2
  <2>4. job' = [job EXCEPT ![i].state = IF job[i].state = "active" THEN "gone" ELSE job[i].state]
    BY <1>4, <2>3 DEF Finish
  <2>5. PICK state : state = IF job[i].state = "active" THEN "gone" ELSE job[i].state
    OBVIOUS
  <2>6. state \in {None, "ready", "active", "gone"} /\ (state = "ready" => job[i].tries <= retryLimit)
    BY <2>5 DEF JobInv
  <2> QED
    BY <1>3, <2>4, <2>5, <2>6
<1>5. ASSUME NEW i \in Exported, send(i) \/ Requeue(i) PROVE JobInv'
  <2>1. PICK state \in {"ready", "gone"} :
          /\ job' = [job EXCEPT ![i].state = state]
          /\ state = "ready" => job[i].tries <= retryLimit
    BY <1>5 DEF send, Requeue, NoJob, retryLimit
  <2> QED
    BY <1>3, <2>1
<1>6. ASSUME NEW w \in Workers, Fetch(w) PROVE JobInv'
  <2>1. PICK i \in Exported :
          /\ job[i].state = "ready"
          /\ job' = [job EXCEPT ![i] = [state |-> "active", tries |-> job[i].tries + 1]]
    BY <1>6 DEF Fetch
  <2>2. PICK tries : tries = job[i].tries + 1
    OBVIOUS
  <2>3. tries \in 0..retryLimit + 1
    BY <2>1, <2>2 DEF JobInv, retryLimit
  <2> QED
    BY <1>2, <2>1, <2>2, <2>3
<1>7. ASSUME job' = job PROVE JobInv'
  BY <1>1, <1>7 DEF JobInv
<1>8. ASSUME NEW w \in Workers, Work(w) \/ Break(w) PROVE JobInv'
  BY <1>4, <1>6, <1>7, <1>8 DEF Work, process, RunReport, Complete, Fail, Break, Idle
<1>9. ASSUME NEW i \in Exported, create(i) \/ send(i) \/ Retry(i) \/ Timeout(i) PROVE JobInv'
  BY <1>5, <1>7, <1>9 DEF create, Retry, Timeout
<1> QED
  BY <1>7, <1>8, <1>9 DEF Next, Edit, Stop, Expire

\* Every variable of the exports keeps its type.
THEOREM ExportTypes ==
  ASSUME ExportConstants
  PROVE  Spec => []TypeOK
<1>1. Init => JobInv
  BY DEF Init, JobInv, ExportConstants, NoJob, retryLimit
<1>2. IInv /\ JobInv /\ [Next]_vars => JobInv'
  <2>1. ASSUME JobInv, UNCHANGED vars PROVE JobInv'
    BY <2>1 DEF JobInv, vars
  <2> QED  BY <2>1, JobInvStep
<1>3. IInv /\ JobInv => TypeOK
  <2> SUFFICES ASSUME IInv, JobInv PROVE TypeOK
    OBVIOUS
  <2>1. ASSUME NEW i \in Exported
        PROVE  /\ export[i].status \in {None, "processing", "completed", "failed"}
               /\ export[i].report \in Asked \cup {None}
    <3>1. export[i] \in ExportRow
      BY DEF IInv, TypeInv
    <3> QED  BY <3>1 DEF ExportRow
  <2> QED
    BY <2>1 DEF JobInv, TypeOK
<1> QED
  BY <1>1, <1>2, <1>3, Inductive, PTL DEF Spec
-----------------------------------------------------------------------------
\* The bot.

Binding == [guardian : Guardians, chat : Chats, language : {"uz", "ru"}]
LinkToken == [state : {"none", "fresh", "expired", "used"}, guardian : Guardians]
Busy == {"handle", "bind", "uz", "ru"}

\* What a handler is at fits its update.
HandlerOK(w) ==
  \/ w = Bot!Idle
  \/ /\ w \in [id : Bot!Ids, pc : Busy]
     /\ w.pc = "bind" => sent[w.id].kind = "start"
     /\ w.pc \in {"uz", "ru"} => sent[w.id].kind = "language"

BotTypes ==
  /\ mode \in {"polling", "webhook"}
  /\ sent \in Seq(Bot!Updates)
  /\ acked \subseteq Bot!Ids /\ handled \subseteq Bot!Ids /\ failed \subseteq handled
  /\ bot \in [pc : {"down", "poll", "batch", "webhook"}, offset : Nat, batch : SUBSET Bot!Ids]
  /\ DOMAIN work = Handlers /\ work = [h \in Handlers |-> work[h]]
  /\ \A h \in Handlers : HandlerOK(work[h])
  /\ token \in [Tokens -> LinkToken]

BindingsInv ==
  /\ binding \subseteq Binding
  /\ \A b, d \in binding : b.chat = d.chat \/ b.guardian = d.guardian => b = d

\* The polling loop is at one update, which lies just below the offset, and
\* leaves none out: what is neither acknowledged nor below the offset is in the
\* batch or after it.
LoopInv ==
  /\ bot.pc # "webhook"
  /\ bot.pc # "batch" => Bot!AllIdle
  /\ bot.pc = "down" => bot = Bot!Down
  /\ bot.offset <= Len(sent) + 1
  /\ \A h \in Handlers : work[h] # Bot!Idle =>
       /\ bot.offset = work[h].id + 1 /\ work[h].id \notin acked
       /\ \A k \in Handlers : work[k] # Bot!Idle => k = h
  /\ \A i \in acked, j \in Bot!Ids : j <= i => j \in acked
  /\ bot.pc = "batch" =>
       /\ \A i \in bot.batch : i >= bot.offset /\ i \notin acked
       /\ \A i \in Bot!Ids \ (acked \cup bot.batch) : i >= bot.offset =>
            \A j \in bot.batch : j < i

Binds(i, c) == sent[i].chat = c /\ sent[i].kind \in Bot!BindingKinds

\* The handler of i has returned, and no update up to i is handled again.
Passed(i) == i \in acked \/ (i < bot.offset /\ \A h \in Handlers : work[h].id # i)

Stopped(m, c) ==
  /\ Binds(m, c) /\ \A i \in Bot!Ids : Binds(i, c) => i <= m
  /\ sent[m].kind = "stop" /\ m \notin failed

StopInv ==
  \A m \in Bot!Ids, c \in Chats : Stopped(m, c) /\ Passed(m) => \A b \in binding : b.chat # c

\* A token that bound a chat is used; one that a handler has read is not.
TokenInv ==
  /\ bound \subseteq Tokens \X Chats
  /\ \A p \in bound : token[p[1]].state = "used"
  /\ \A p, q \in bound : p[1] = q[1] => p = q
  /\ \A h \in Handlers : work[h].pc = "bind" =>
       token[sent[work[h].id].token].state \in {"fresh", "expired"}

PollInv == LoopInv /\ StopInv /\ TokenInv

BotInv == BotTypes /\ BindingsInv /\ (mode = "polling" => PollInv)

LEMMA SentFields ==
  ASSUME BotTypes
  PROVE  /\ Len(sent) \in Nat /\ Bot!Ids = 1..Len(sent)
         /\ \A i \in Bot!Ids :
              /\ sent[i] \in Bot!Updates /\ sent[i].chat \in Chats
              /\ sent[i].kind \in {"start", "contact", "stop", "language"}
              /\ sent[i].kind = "start" => sent[i].token \in Tokens
              /\ sent[i].kind = "contact" => sent[i].guardian \in Guardians
<1>1. Len(sent) \in Nat /\ Bot!Ids = 1..Len(sent)
  BY DEF BotTypes, Bot!Ids
<1>2. \A i \in Bot!Ids : sent[i] \in Bot!Updates
  BY <1>1 DEF BotTypes
<1>3. ASSUME NEW u \in Bot!Updates
      PROVE  /\ u.chat \in Chats /\ u.kind \in {"start", "contact", "stop", "language"}
             /\ u.kind = "start" => u.token \in Tokens
             /\ u.kind = "contact" => u.guardian \in Guardians
  BY DEF Bot!Updates
<1> QED
  BY <1>1, <1>2, <1>3

\* The people.
LEMMA WriteStep1 ==
  ASSUME BotInv, Bot!Write
  PROVE  BotInv'
<1>1. PICK u \in Bot!Updates : sent' = Append(sent, u)
  BY DEF Bot!Write
<1>2. UNCHANGED <<mode, acked, bot, work, binding, token, inviting, bound, handled, failed>>
  BY DEF Bot!Write, Bot!Rows
<1>3. /\ Len(sent) \in Nat /\ Bot!Ids = 1..Len(sent) /\ Bot!Ids' = 1..(Len(sent) + 1)
      /\ sent' \in Seq(Bot!Updates) /\ Len(sent') = Len(sent) + 1
      /\ \A i \in Bot!Ids : sent'[i] = sent[i]
      /\ \A i \in Bot!Ids' : i \in Bot!Ids \/ i = Len(sent) + 1
  BY <1>1 DEF BotInv, BotTypes, Bot!Ids
<1>4. BotTypes'
  <2>1. ASSUME NEW h \in Handlers PROVE HandlerOK(work[h])'
    BY <1>2, <1>3 DEF BotInv, BotTypes, HandlerOK
  <2> QED  BY <1>2, <1>3, <2>1 DEF BotInv, BotTypes
<1>5. BindingsInv'
  BY <1>2 DEF BotInv, BindingsInv
<1>6. ASSUME mode = "polling" PROVE PollInv'
  <2>1. LoopInv /\ StopInv /\ TokenInv
    BY <1>6 DEF BotInv, PollInv
  <2>2. LoopInv'
    BY <1>2, <1>3, <2>1 DEF LoopInv, Bot!AllIdle, BotInv, BotTypes
  <2>3. StopInv'
    <3> SUFFICES ASSUME NEW m \in Bot!Ids', NEW c \in Chats, Stopped(m, c)', Passed(m)'
                 PROVE  \A b \in binding : b.chat # c
      BY <1>2 DEF StopInv
    <3>1. Passed(m)
      BY <1>2 DEF Passed
    <3>2. m \in Bot!Ids
      BY <1>2, <1>3, <2>1, <3>1 DEF Passed, LoopInv, BotInv, BotTypes
    <3>3. Stopped(m, c)
      BY <1>2, <1>3, <3>2 DEF Stopped, Binds
    <3> QED  BY <2>1, <3>1, <3>2, <3>3 DEF StopInv
  <2>4. TokenInv'
    BY <1>2, <1>3, <2>1 DEF TokenInv, BotInv, BotTypes, HandlerOK, Bot!Idle
  <2> QED  BY <2>2, <2>3, <2>4 DEF PollInv
<1> QED
  BY <1>2, <1>4, <1>5, <1>6 DEF BotInv

\* A token changes that no handler has read, or expires.
LEMMA TokensStep ==
  ASSUME BotInv, UNCHANGED <<mode, sent, acked, bot, work, binding, bound, handled, failed>>,
         token' \in [Tokens -> LinkToken],
         \A t \in Tokens : \/ token'[t].state = token[t].state
                           \/ token[t].state = "none"
                           \/ token[t].state = "fresh" /\ token'[t].state = "expired"
  PROVE  BotInv'
<1>1. BotTypes' /\ BindingsInv'
  BY DEF BotInv, BotTypes, HandlerOK, Bot!Ids, Bot!Idle, BindingsInv
<1>2. ASSUME mode = "polling" PROVE PollInv'
  <2>1. LoopInv /\ StopInv /\ TokenInv
    BY <1>2 DEF BotInv, PollInv
  <2>2. LoopInv' /\ StopInv'
    BY <2>1 DEF LoopInv, StopInv, Stopped, Passed, Binds, Bot!AllIdle, Bot!Ids
  <2>3. TokenInv'
    <3>1. ASSUME NEW h \in Handlers, work[h].pc = "bind"
          PROVE  sent[work[h].id].token \in Tokens
      BY <3>1, SentFields DEF BotInv, BotTypes, HandlerOK, Bot!Idle
    <3> QED  BY <2>1, <3>1 DEF TokenInv
  <2> QED  BY <2>2, <2>3 DEF PollInv
<1> QED
  BY <1>1, <1>2 DEF BotInv

LEMMA PeopleStep ==
  ASSUME BotInv, Bot!People
  PROVE  BotInv'
<1>1. token \in [Tokens -> LinkToken]
  BY DEF BotInv, BotTypes
<1>2. ASSUME NEW t \in Tokens, token[t].state = "fresh", token' = [token EXCEPT ![t].state = "expired"]
      PROVE  /\ token' \in [Tokens -> LinkToken]
             /\ \A s \in Tokens : token'[s].state = token[s].state \/ s = t
             /\ token'[t].state = "expired"
  BY <1>1, <1>2 DEF LinkToken
<1>3. CASE Bot!Lapse
  <2>1. PICK t \in Tokens : token[t].state = "fresh" /\ token' = [token EXCEPT ![t].state = "expired"]
    BY <1>3 DEF Bot!Lapse
  <2> QED
    BY <1>2, <1>3, <2>1, TokensStep DEF Bot!Lapse
<1>4. ASSUME NEW g \in Guardians, Bot!ExpireOlder(g) PROVE BotInv'
  <2>1. token' = [t \in Tokens |->
                    IF token[t].guardian = g /\ token[t].state = "fresh"
                    THEN [token[t] EXCEPT !.state = "expired"] ELSE token[t]]
    BY <1>4 DEF Bot!ExpireOlder
  <2>2. ASSUME NEW t \in Tokens
        PROVE  /\ token'[t] \in LinkToken
               /\ \/ token'[t].state = token[t].state
                  \/ token[t].state = "fresh" /\ token'[t].state = "expired"
    BY <1>1, <2>1 DEF LinkToken
  <2>3. token' \in [Tokens -> LinkToken]
    BY <2>1, <2>2
  <2> QED
    BY <1>4, <2>2, <2>3, TokensStep DEF Bot!ExpireOlder
<1>5. ASSUME NEW g \in Guardians, Bot!CreateToken(g) PROVE BotInv'
  <2>1. PICK t \in Tokens : token[t].state = "none" /\ token' = [token EXCEPT ![t] = [state |-> "fresh", guardian |-> g]]
    BY <1>5 DEF Bot!CreateToken
  <2>2. token' \in [Tokens -> LinkToken] /\ \A s \in Tokens : token'[s] = token[s] \/ s = t
    BY <1>1, <2>1 DEF LinkToken
  <2> QED
    BY <1>5, <2>1, <2>2, TokensStep DEF Bot!CreateToken
<1> QED
  BY <1>3, <1>4, <1>5, WriteStep1 DEF Bot!People

\* The handler of h returns.
LEMMA ReturnStep ==
  ASSUME BotInv, NEW h \in Handlers, work[h] # Bot!Idle, Bot!Return(h),
         failed' \subseteq failed \cup {work[h].id},
         \A i \in failed : i = work[h].id \/ i \in failed',
         BindingsInv', token' \in [Tokens -> LinkToken],
         \A b \in binding' : Binds(work[h].id, b.chat) \/ \E d \in binding : d.chat = b.chat,
         work[h].id \in failed' \/ sent[work[h].id].kind # "stop"
           \/ \A b \in binding' : b.chat # sent[work[h].id].chat,
         mode = "polling" => TokenInv'
  PROVE  BotInv'
<1> DEFINE w == work[h].id
<1>1. /\ work' = [work EXCEPT ![h] = Bot!Idle] /\ handled' = handled \cup {w}
      /\ acked' = IF mode = "polling" THEN acked ELSE acked \cup {w}
      /\ UNCHANGED <<mode, sent, bot>>
  BY DEF Bot!Return
<1>2. /\ Len(sent) \in Nat /\ Bot!Ids = 1..Len(sent) /\ Bot!Ids' = Bot!Ids
      /\ w \in Bot!Ids /\ w # 0
  BY <1>1, SentFields DEF BotInv, BotTypes, HandlerOK, Bot!Ids
<1>3. /\ DOMAIN work' = Handlers /\ work' = [k \in Handlers |-> work'[k]]
      /\ \A k \in Handlers : work'[k] = IF k = h THEN Bot!Idle ELSE work[k]
  BY <1>1 DEF BotInv, BotTypes
<1>4. ASSUME NEW k \in Handlers PROVE HandlerOK(work[k])'
  BY <1>1, <1>2, <1>3 DEF BotInv, BotTypes, HandlerOK
<1>5. acked' \subseteq Bot!Ids /\ handled' \subseteq Bot!Ids /\ failed' \subseteq handled'
  BY <1>1, <1>2 DEF BotInv, BotTypes
<1>6. BotTypes'
  BY <1>1, <1>2, <1>3, <1>4, <1>5 DEF BotInv, BotTypes
<1>7. ASSUME mode = "polling" PROVE PollInv'
  <2>1. LoopInv /\ StopInv /\ acked' = acked
    BY <1>1, <1>7 DEF BotInv, PollInv
  <2>2. LoopInv'
    <3>1. bot.pc = "batch"
      BY <2>1 DEF LoopInv, Bot!AllIdle
    <3>2. \A k \in Handlers : work'[k] # Bot!Idle => work'[k] = work[k]
      BY <1>3
    <3> QED  BY <1>1, <1>2, <2>1, <3>1, <3>2 DEF LoopInv, Bot!Down
  <2>3. StopInv'
    <3> SUFFICES ASSUME NEW m \in Bot!Ids, NEW c \in Chats, Stopped(m, c)', Passed(m)',
                        NEW b \in binding', b.chat = c
                 PROVE  FALSE
      BY <1>2 DEF StopInv
    <3>1. /\ Binds(m, c) /\ sent[m].kind = "stop" /\ m \notin failed'
          /\ \A i \in Bot!Ids : Binds(i, c) => i <= m
      BY <1>1, <1>2 DEF Stopped, Binds
    <3>2. m # w
      BY <3>1 DEF Binds
    <3>3. Stopped(m, c)
      BY <3>1, <3>2 DEF Stopped
    <3>4. Passed(m)
      <4>1. m \in acked \/ (m < bot.offset /\ \A k \in Handlers : work'[k].id # m)
        BY <1>1, <2>1 DEF Passed
      <4>2. \A k \in Handlers : work[k].id = m => work'[k].id = m
        BY <1>3, <3>2
      <4> QED  BY <4>1, <4>2 DEF Passed
    <3>5. \A d \in binding : d.chat # c
      BY <2>1, <3>3, <3>4 DEF StopInv
    <3>6. Binds(w, c)
      BY <3>5
    <3>7. w < m
      BY <1>2, <3>1, <3>2, <3>6
    <3>8. w \notin acked /\ bot.offset = w + 1
      BY <2>1 DEF LoopInv
    <3>9. m \notin acked
      BY <1>2, <2>1, <3>7, <3>8 DEF LoopInv
    <3> QED  BY <1>2, <3>4, <3>7, <3>8, <3>9 DEF Passed
  <2> QED  BY <1>7, <2>2, <2>3 DEF PollInv
<1> QED
  BY <1>1, <1>6, <1>7 DEF BotInv

\* A handler goes on to its second statement.
LEMMA ReadOnStep ==
  ASSUME BotInv, NEW h \in Handlers, work[h] # Bot!Idle, NEW pc \in {"bind", "uz", "ru"},
         work' = [work EXCEPT ![h].pc = pc],
         pc = "bind" => sent[work[h].id].kind = "start"
                        /\ token[sent[work[h].id].token].state = "fresh",
         pc # "bind" => sent[work[h].id].kind = "language",
         UNCHANGED <<mode, sent, acked, bot, handled, failed>>, UNCHANGED Bot!Rows
  PROVE  BotInv'
<1>1. UNCHANGED <<binding, token, inviting, bound>>
  BY DEF Bot!Rows
<1>2. /\ Len(sent) \in Nat /\ Bot!Ids = 1..Len(sent) /\ Bot!Ids' = Bot!Ids
      /\ work[h] \in [id : Bot!Ids, pc : Busy]
  BY SentFields DEF BotInv, BotTypes, HandlerOK, Bot!Ids
<1>3. /\ DOMAIN work' = Handlers /\ work' = [k \in Handlers |-> work'[k]]
      /\ \A k \in Handlers : k # h => work'[k] = work[k]
      /\ work'[h] = [id |-> work[h].id, pc |-> pc]
  BY <1>2 DEF BotInv, BotTypes
<1>4. work'[h] \in [id : Bot!Ids, pc : Busy] /\ work'[h].id = work[h].id /\ work'[h].pc = pc
  BY <1>2, <1>3 DEF Busy
<1>5. ASSUME NEW k \in Handlers PROVE HandlerOK(work[k])'
  BY <1>2, <1>3, <1>4 DEF BotInv, BotTypes, HandlerOK
<1>6. BotTypes' /\ BindingsInv'
  BY <1>1, <1>2, <1>3, <1>5 DEF BotInv, BotTypes, BindingsInv
<1>7. ASSUME mode = "polling" PROVE PollInv'
  <2>1. LoopInv /\ StopInv /\ TokenInv
    BY <1>7 DEF BotInv, PollInv
  <2>2. work'[h] # Bot!Idle
    BY <1>2, <1>4 DEF Bot!Idle
  <2>3. \A k \in Handlers : work'[k].id = work[k].id /\ (work'[k] # Bot!Idle => work[k] # Bot!Idle)
    BY <1>3, <1>4
  <2>4. LoopInv'
    <3>1. bot.pc = "batch"
      BY <2>1 DEF LoopInv, Bot!AllIdle
    <3> QED  BY <1>2, <2>1, <2>3, <3>1 DEF LoopInv
  <2>5. StopInv'
    BY <1>1, <1>2, <2>1, <2>3 DEF StopInv, Stopped, Passed, Binds
  <2>6. TokenInv'
    BY <1>1, <1>3, <1>4, <2>1 DEF TokenInv
  <2> QED  BY <2>4, <2>5, <2>6 DEF PollInv
<1> QED
  BY <1>6, <1>7 DEF BotInv

\* Handlers that leave the tokens alone.
LEMMA TokensStay ==
  ASSUME BotInv, NEW h \in Handlers, Bot!Return(h), UNCHANGED <<token, bound>>
  PROVE  mode = "polling" => TokenInv'
<1> SUFFICES ASSUME mode = "polling" PROVE TokenInv'
  OBVIOUS
<1>1. TokenInv
  BY DEF BotInv, PollInv
<1>2. \A k \in Handlers : work'[k] = Bot!Idle \/ work'[k] = work[k]
  BY DEF Bot!Return, BotInv, BotTypes
<1>3. sent' = sent /\ Bot!Idle.pc # "bind"
  BY DEF Bot!Return, Bot!Idle
<1> QED
  BY <1>1, <1>2, <1>3 DEF TokenInv

LEMMA BindKeeps ==
  ASSUME BindingsInv, NEW g \in Guardians, NEW c \in Chats, Bot!Bind(g, c)
  PROVE  BindingsInv' /\ \A b \in binding' : b.chat = c \/ b \in binding
<1> DEFINE new == [guardian |-> g, chat |-> c, language |-> "ru"]
<1>1. binding' = {b \in binding : b.chat # c /\ b.guardian # g} \cup {new}
  BY DEF Bot!Bind
<1>2. new \in Binding /\ new.chat = c /\ new.guardian = g
  BY DEF Binding
<1> HIDE DEF new
<1> QED
  BY <1>1, <1>2 DEF BindingsInv

LEMMA HandlerAt ==
  ASSUME BotInv, NEW h \in Handlers, work[h].pc \in Busy \/ work[h].id # 0
  PROVE  /\ work[h] # Bot!Idle /\ work[h] \in [id : Bot!Ids, pc : Busy]
         /\ sent[work[h].id].chat \in Chats
         /\ sent[work[h].id].kind = "start" => sent[work[h].id].token \in Tokens
         /\ sent[work[h].id].kind = "contact" => sent[work[h].id].guardian \in Guardians
         /\ work[h].pc = "bind" => sent[work[h].id].kind = "start"
         /\ work[h].pc \in {"uz", "ru"} => sent[work[h].id].kind = "language"
<1>1. work[h] # Bot!Idle
  BY DEF Bot!Idle, Busy
<1>2. HandlerOK(work[h])
  BY DEF BotInv, BotTypes
<1>3. work[h].id \in Bot!Ids
  BY <1>1, <1>2 DEF HandlerOK
<1> QED
  BY <1>1, <1>2, <1>3, SentFields DEF HandlerOK, BotInv

LEMMA HandleStep ==
  ASSUME BotInv, NEW h \in Handlers, Bot!Handle(h)
  PROVE  BotInv'
<1> DEFINE w == work[h].id
<1>1. BotTypes /\ BindingsInv /\ token \in [Tokens -> LinkToken]
  BY DEF BotInv, BotTypes
<1>2. ASSUME Bot!Succeed(h)
      PROVE  Bot!Return(h) /\ failed' \subseteq failed \cup {w} /\ \A i \in failed : i = w \/ i \in failed'
  BY <1>2 DEF Bot!Succeed
<1>3. work[h].pc \in Busy
  BY DEF Bot!Handle, Bot!ReadToken, Bot!UseToken, Bot!bindByPhone, Bot!unbindByChatId,
         Bot!ReadLanguage, Bot!setLanguageByChatId, Bot!Of, Busy
<1>4. /\ work[h] # Bot!Idle /\ sent[w].chat \in Chats
      /\ sent[w].kind = "start" => sent[w].token \in Tokens
      /\ sent[w].kind = "contact" => sent[w].guardian \in Guardians
      /\ work[h].pc = "bind" => sent[w].kind = "start"
      /\ work[h].pc \in {"uz", "ru"} => sent[w].kind = "language"
  BY <1>3, HandlerAt
<1> DEFINE u == sent[w]
<1>5. Bot!Update(h) = u /\ Binds(w, u.chat) = (u.kind \in Bot!BindingKinds)
  BY DEF Bot!Update, Binds
\* A handler that returns without effect on the rows.
<1>6. ASSUME Bot!Succeed(h), UNCHANGED Bot!Rows, u.kind # "stop" PROVE BotInv'
  <2>1. UNCHANGED <<binding, token, bound>> /\ BindingsInv'
    BY <1>1, <1>6 DEF Bot!Rows, BindingsInv
  <2>2. mode = "polling" => TokenInv'
    BY <1>2, <1>6, <2>1, TokensStay
  <2> QED
    BY <1>1, <1>2, <1>4, <1>6, <2>1, <2>2, ReturnStep
<1>7. CASE Bot!ReadToken(h)
  <2>1. u.kind = "start" /\ UNCHANGED Bot!Rows
    BY <1>5, <1>7 DEF Bot!ReadToken, Bot!Of
  <2>2. CASE token[u.token].state = "fresh"
    <3>1. /\ work' = [work EXCEPT ![h].pc = "bind"]
          /\ UNCHANGED <<mode, sent, acked, bot, handled, failed>>
      BY <1>5, <1>7, <2>2 DEF Bot!ReadToken
    <3> QED
      BY <1>4, <2>1, <2>2, <3>1, ReadOnStep
  <2>3. CASE token[u.token].state # "fresh"
    BY <1>5, <1>6, <1>7, <2>1, <2>3 DEF Bot!ReadToken
  <2> QED
    BY <2>2, <2>3
<1>8. CASE Bot!UseToken(h)
  <2>1. /\ work[h].pc = "bind" /\ u.kind = "start" /\ u.token \in Tokens
        /\ token' = [token EXCEPT ![u.token].state = "used"]
        /\ Bot!Bind(token[u.token].guardian, u.chat)
        /\ bound' = bound \cup {<<u.token, u.chat>>}
        /\ Bot!Succeed(h)
    BY <1>4, <1>5, <1>8 DEF Bot!UseToken
  <2>2. token[u.token].guardian \in Guardians
    BY <1>1, <2>1 DEF LinkToken
  <2>3. BindingsInv' /\ \A b \in binding' : b.chat = u.chat \/ b \in binding
    BY <1>1, <1>4, <2>1, <2>2, BindKeeps
  <2>4. /\ token' \in [Tokens -> LinkToken] /\ token'[u.token].state = "used"
        /\ \A t \in Tokens : t # u.token => token'[t] = token[t]
    BY <1>1, <2>1 DEF LinkToken
  <2>5. Binds(w, u.chat)
    BY <1>5, <2>1 DEF Bot!BindingKinds
  <2>6. ASSUME mode = "polling" PROVE TokenInv'
    <3>1. LoopInv /\ TokenInv
      BY <2>6 DEF BotInv, PollInv
    <3>2. \A k \in Handlers : work'[k] = Bot!Idle
      <4>1. work' = [work EXCEPT ![h] = Bot!Idle] /\ work = [k \in Handlers |-> work[k]]
        BY <1>1, <2>1 DEF Bot!Succeed, Bot!Return, BotTypes
      <4> QED  BY <1>4, <3>1, <4>1 DEF LoopInv
    <3>3. \A k \in Handlers : work'[k].pc # "bind"
      BY <3>2 DEF Bot!Idle
    <3>4. token[u.token].state # "used"
      BY <2>1, <3>1 DEF TokenInv
    <3> DEFINE new == <<u.token, u.chat>>
    <3>5. bound' = bound \cup {new} /\ new \in Tokens \X Chats /\ new[1] = u.token
      BY <1>4, <2>1
    <3> HIDE DEF new
    <3>6. \A p \in bound : p[1] \in Tokens /\ p[1] # u.token
      BY <3>1, <3>4 DEF TokenInv
    <3>7. bound' \subseteq Tokens \X Chats
      BY <3>1, <3>5 DEF TokenInv
    <3>8. \A p \in bound' : token'[p[1]].state = "used"
      BY <2>4, <3>1, <3>5, <3>6 DEF TokenInv
    <3>9. \A p, q \in bound' : p[1] = q[1] => p = q
      BY <3>1, <3>5, <3>6 DEF TokenInv
    <3> QED  BY <3>3, <3>7, <3>8, <3>9 DEF TokenInv
  <2> QED
    BY <1>2, <1>4, <2>1, <2>3, <2>4, <2>5, <2>6, ReturnStep
<1>9. CASE Bot!bindByPhone(h)
  <2>1. /\ u.kind = "contact" /\ Bot!Bind(u.guardian, u.chat) /\ Bot!Succeed(h)
        /\ UNCHANGED <<token, bound>>
    BY <1>5, <1>9 DEF Bot!bindByPhone, Bot!Of
  <2>2. BindingsInv' /\ \A b \in binding' : b.chat = u.chat \/ b \in binding
    BY <1>1, <1>4, <2>1, BindKeeps
  <2>3. Binds(w, u.chat)
    BY <1>5, <2>1 DEF Bot!BindingKinds
  <2>4. mode = "polling" => TokenInv'
    BY <1>2, <2>1, TokensStay
  <2> QED
    BY <1>1, <1>2, <1>4, <2>1, <2>2, <2>3, <2>4, ReturnStep
<1>10. CASE Bot!unbindByChatId(h)
  <2>1. /\ binding' = {b \in binding : b.chat # u.chat} /\ Bot!Succeed(h)
        /\ UNCHANGED <<token, bound>>
    BY <1>5, <1>10 DEF Bot!unbindByChatId
  <2>2. BindingsInv'
    BY <1>1, <2>1 DEF BindingsInv
  <2>3. mode = "polling" => TokenInv'
    BY <1>2, <2>1, TokensStay
  <2>4. (\A b \in binding' : b.chat # u.chat) /\ \A b \in binding' : \E d \in binding : d.chat = b.chat
    BY <2>1
  <2> QED
    BY <1>1, <1>2, <1>4, <2>1, <2>2, <2>3, <2>4, ReturnStep
<1>11. CASE Bot!ReadLanguage(h)
  <2>1. u.kind = "language" /\ UNCHANGED Bot!Rows
    BY <1>5, <1>11 DEF Bot!ReadLanguage, Bot!Of
  <2>2. CASE {b \in binding : b.chat = u.chat} = {}
    BY <1>5, <1>6, <1>11, <2>1, <2>2 DEF Bot!ReadLanguage
  <2>3. CASE {b \in binding : b.chat = u.chat} # {}
    <3>1. PICK pc \in {"uz", "ru"} :
            /\ work' = [work EXCEPT ![h].pc = pc]
            /\ UNCHANGED <<mode, sent, acked, bot, handled, failed>>
      BY <1>5, <1>11, <2>3 DEF Bot!ReadLanguage
    <3> QED
      BY <1>4, <2>1, <3>1, ReadOnStep
  <2> QED
    BY <2>2, <2>3
<1>12. CASE Bot!setLanguageByChatId(h)
  <2>1. PICK pc \in {"uz", "ru"} :
        /\ u.kind = "language"
        /\ binding' = {IF b.chat = u.chat THEN [b EXCEPT !.language = pc] ELSE b : b \in binding}
        /\ Bot!Succeed(h) /\ UNCHANGED <<token, bound>>
    BY <1>4, <1>5, <1>12 DEF Bot!setLanguageByChatId
  <2>2. ASSUME NEW b \in binding, NEW d, d = IF b.chat = u.chat THEN [b EXCEPT !.language = pc] ELSE b
        PROVE  d \in Binding /\ d.chat = b.chat /\ d.guardian = b.guardian
    <3>1. b \in Binding
      BY <1>1 DEF BindingsInv
    <3> QED  BY <2>2, <3>1 DEF Binding
  <2>3. \A d \in binding' : d \in Binding /\ \E b \in binding :
          d = (IF b.chat = u.chat THEN [b EXCEPT !.language = pc] ELSE b)
          /\ d.chat = b.chat /\ d.guardian = b.guardian
    BY <2>1, <2>2
  <2>4. BindingsInv'
    <3>1. ASSUME NEW d \in binding', NEW e \in binding', d.chat = e.chat \/ d.guardian = e.guardian
          PROVE  d = e
      <4>1. PICK b \in binding : d = (IF b.chat = u.chat THEN [b EXCEPT !.language = pc] ELSE b)
                                 /\ d.chat = b.chat /\ d.guardian = b.guardian
        BY <2>3
      <4>2. PICK c \in binding : e = (IF c.chat = u.chat THEN [c EXCEPT !.language = pc] ELSE c)
                                 /\ e.chat = c.chat /\ e.guardian = c.guardian
        BY <2>3
      <4>3. b = c
        BY <1>1, <3>1, <4>1, <4>2 DEF BindingsInv
      <4> QED  BY <4>1, <4>2, <4>3
    <3> QED  BY <2>3, <3>1 DEF BindingsInv
  <2>5. mode = "polling" => TokenInv'
    BY <1>2, <2>1, TokensStay
  <2> QED
    BY <1>1, <1>2, <1>4, <2>1, <2>3, <2>4, <2>5, ReturnStep
<1> QED
  BY <1>7, <1>8, <1>9, <1>10, <1>11, <1>12 DEF Bot!Handle

LEMMA ThrowStep ==
  ASSUME BotInv, NEW h \in Handlers, Bot!Throw(h)
  PROVE  BotInv'
<1>1. /\ work[h].id # 0 /\ failed' = failed \cup {work[h].id} /\ Bot!Return(h)
      /\ UNCHANGED <<binding, token, inviting, bound>>
  BY DEF Bot!Throw, Bot!Rows
<1>2. work[h] # Bot!Idle
  BY <1>1 DEF Bot!Idle
<1>3. BindingsInv' /\ token' \in [Tokens -> LinkToken]
  BY <1>1 DEF BotInv, BindingsInv, BotTypes
<1>4. mode = "polling" => TokenInv'
  BY <1>1, TokensStay
<1> QED
  BY <1>1, <1>2, <1>3, <1>4, ReturnStep

\* The transports leave the rows alone: what counts is what has passed.
LEMMA TransportStep ==
  ASSUME BotInv, UNCHANGED <<mode, sent, binding, token, inviting, bound, handled, failed>>,
         acked' \subseteq Bot!Ids,
         bot' \in [pc : {"down", "poll", "batch", "webhook"}, offset : Nat, batch : SUBSET Bot!Ids],
         DOMAIN work' = Handlers, work' = [h \in Handlers |-> work'[h]],
         \A h \in Handlers : \/ work'[h] = work[h] \/ work'[h] = Bot!Idle
                            \/ \E i \in Bot!Ids : work'[h] = [id |-> i, pc |-> "handle"],
         mode = "polling" => LoopInv' /\ \A m \in Bot!Ids : Passed(m)' => Passed(m)
  PROVE  BotInv'
<1>1. Bot!Ids' = Bot!Ids
  BY DEF Bot!Ids
<1>2. ASSUME NEW h \in Handlers PROVE HandlerOK(work[h])' /\ (work'[h].pc = "bind" => work'[h] = work[h])
  BY <1>1 DEF BotInv, BotTypes, HandlerOK, Busy, Bot!Idle
<1>3. BotTypes' /\ BindingsInv'
  BY <1>1, <1>2 DEF BotInv, BotTypes, BindingsInv
<1>4. ASSUME mode = "polling" PROVE PollInv'
  <2>1. StopInv /\ TokenInv
    BY <1>4 DEF BotInv, PollInv
  <2>2. \A m \in Bot!Ids, c \in Chats : Stopped(m, c)' => Stopped(m, c)
    BY <1>1 DEF Stopped, Binds
  <2>3. StopInv'
    BY <1>1, <1>4, <2>1, <2>2 DEF StopInv
  <2>4. TokenInv'
    BY <1>2, <2>1 DEF TokenInv
  <2> QED  BY <1>4, <2>3, <2>4 DEF PollInv
<1> QED
  BY <1>3, <1>4 DEF BotInv

LEMMA BotFields ==
  ASSUME BotTypes
  PROVE  /\ bot.offset \in Nat /\ bot.batch \subseteq Bot!Ids
         /\ Len(sent) \in Nat /\ Bot!Ids = 1..Len(sent) /\ acked \subseteq Bot!Ids
         /\ \A h \in Handlers : work[h] = Bot!Idle \/ work[h].id \in Bot!Ids
         /\ Bot!Idle.id \notin Bot!Ids
BY SentFields DEF BotTypes, HandlerOK, Bot!Idle

LEMMA StartStep ==
  ASSUME BotInv, Bot!onApplicationBootstrap
  PROVE  BotInv'
<1>1. /\ bot = Bot!Down /\ bot' = [Bot!Down EXCEPT !.pc = IF mode = "polling" THEN "poll" ELSE "webhook"]
      /\ UNCHANGED <<mode, sent, acked, work, binding, token, inviting, bound, handled, failed>>
  BY DEF Bot!onApplicationBootstrap, Bot!Rows
<1>2. bot' = [pc |-> IF mode = "polling" THEN "poll" ELSE "webhook", offset |-> 0, batch |-> {}]
  BY <1>1 DEF Bot!Down
<1>3. bot' \in [pc : {"down", "poll", "batch", "webhook"}, offset : Nat, batch : SUBSET Bot!Ids]
  BY <1>2
<1>4. ASSUME mode = "polling" PROVE LoopInv' /\ \A m \in Bot!Ids : Passed(m)' => Passed(m)
  <2>1. LoopInv /\ bot'.pc = "poll" /\ bot'.offset = 0 /\ bot.pc = "down" /\ bot.offset = 0
    BY <1>1, <1>2, <1>4 DEF BotInv, PollInv, Bot!Down
  <2>2. Bot!AllIdle
    BY <2>1 DEF LoopInv
  <2>3. LoopInv'
    BY <1>1, <2>1, <2>2, BotFields DEF LoopInv, Bot!AllIdle, Bot!Ids, BotInv
  <2> QED  BY <1>1, <2>1, <2>3 DEF Passed
<1> QED
  BY <1>1, <1>3, <1>4, TransportStep DEF BotInv, BotTypes

\* An answer to getUpdates, or none.
LEMMA PollStep ==
  ASSUME BotInv, Bot!getUpdates \/ Bot!EmptyPoll
  PROVE  BotInv'
<1>1. /\ bot.pc = "poll" /\ acked' = acked \cup Bot!Below(bot.offset)
      /\ UNCHANGED <<mode, sent, work, binding, token, inviting, bound, handled, failed>>
  BY DEF Bot!getUpdates, Bot!EmptyPoll, Bot!Rows
<1>2. \/ bot' = bot
      \/ bot' = [bot EXCEPT !.pc = "batch", !.batch = Bot!Ids \ acked']
  BY DEF Bot!getUpdates, Bot!EmptyPoll
<1>3. /\ bot.offset \in Nat /\ Len(sent) \in Nat /\ Bot!Ids = 1..Len(sent)
      /\ bot \in [pc : {"down", "poll", "batch", "webhook"}, offset : Nat, batch : SUBSET Bot!Ids]
      /\ acked \subseteq Bot!Ids
  BY BotFields DEF BotInv, BotTypes
<1>4. acked' \subseteq Bot!Ids /\ \A i \in Bot!Ids : i \in acked' <=> i \in acked \/ i < bot.offset
  BY <1>1, <1>3 DEF Bot!Below
<1>5. /\ bot' \in [pc : {"down", "poll", "batch", "webhook"}, offset : Nat, batch : SUBSET Bot!Ids]
      /\ bot'.offset = bot.offset
      /\ bot'.pc = "poll" \/ (bot'.pc = "batch" /\ bot'.batch = Bot!Ids \ acked')
  BY <1>1, <1>2, <1>3, ZenonT(60)
<1>6. ASSUME mode = "polling" PROVE LoopInv' /\ \A m \in Bot!Ids : Passed(m)' => Passed(m)
  <2>1. LoopInv /\ Bot!AllIdle
    BY <1>1, <1>6 DEF BotInv, PollInv, LoopInv
  <2>2. \A h \in Handlers : work'[h] = Bot!Idle /\ work[h] = Bot!Idle
    BY <1>1, <2>1 DEF Bot!AllIdle
  <2>3. \A i \in acked', j \in Bot!Ids : j <= i => j \in acked'
    BY <1>3, <1>4, <2>1 DEF LoopInv
  <2>4. bot'.pc = "batch" =>
          /\ \A i \in bot'.batch : i >= bot'.offset /\ i \notin acked'
          /\ Bot!Ids \ (acked' \cup bot'.batch) = {}
    BY <1>3, <1>4, <1>5
  <2>5. Bot!Ids' = Bot!Ids /\ bot'.offset <= Len(sent') + 1 /\ bot'.pc # "webhook" /\ bot'.pc # "down"
    BY <1>1, <1>5, <2>1 DEF LoopInv, Bot!Ids
  <2>6. LoopInv'
    BY <2>2, <2>3, <2>4, <2>5 DEF LoopInv, Bot!AllIdle
  <2>7. ASSUME NEW m \in Bot!Ids, Passed(m)' PROVE Passed(m)
    <3>1. m \in acked \/ m < bot.offset
      BY <1>4, <1>5, <2>7 DEF Passed
    <3>2. \A h \in Handlers : work[h].id # m
      BY <1>3, <2>2 DEF Bot!Idle
    <3> QED  BY <3>1, <3>2 DEF Passed
  <2> QED  BY <2>6, <2>7
<1> QED
  BY <1>1, <1>4, <1>5, <1>6, TransportStep DEF BotInv, BotTypes

LEMMA TakeStep ==
  ASSUME BotInv, NEW h \in Handlers, Bot!Take(h)
  PROVE  BotInv'
<1>1. PICK id \in bot.batch :
        /\ \A other \in bot.batch : id <= other
        /\ work' = [work EXCEPT ![h] = [id |-> id, pc |-> "handle"]]
        /\ bot' = [bot EXCEPT !.offset = id + 1, !.batch = bot.batch \ {id}]
  BY DEF Bot!Take
<1>2. /\ bot.pc = "batch" /\ Bot!AllIdle
      /\ UNCHANGED <<mode, sent, acked, binding, token, inviting, bound, handled, failed>>
  BY DEF Bot!Take, Bot!Rows
<1>3. /\ bot.offset \in Nat /\ Len(sent) \in Nat /\ Bot!Ids = 1..Len(sent) /\ bot.batch \subseteq Bot!Ids
      /\ bot \in [pc : {"down", "poll", "batch", "webhook"}, offset : Nat, batch : SUBSET Bot!Ids]
      /\ acked \subseteq Bot!Ids
  BY BotFields DEF BotInv, BotTypes
<1>4. id \in Bot!Ids /\ id \in Nat
  BY <1>1, <1>3
<1>5. /\ bot' \in [pc : {"down", "poll", "batch", "webhook"}, offset : Nat, batch : SUBSET Bot!Ids]
      /\ bot'.offset = id + 1 /\ bot'.pc = "batch" /\ bot'.batch = bot.batch \ {id}
  <2> DEFINE next == id + 1
             left == bot.batch \ {id}
  <2>1. next \in Nat /\ left \in SUBSET Bot!Ids
    BY <1>3, <1>4
  <2>2. bot' = [bot EXCEPT !.offset = next, !.batch = left]
    BY <1>1
  <2>3. bot'.offset = next /\ bot'.batch = left /\ bot'.pc = "batch"
        /\ bot' \in [pc : {"down", "poll", "batch", "webhook"}, offset : Nat, batch : SUBSET Bot!Ids]
    <3> HIDE DEF next, left
    <3> QED  BY <1>2, <1>3, <2>1, <2>2
  <2> QED  BY <2>3
<1>6. /\ DOMAIN work' = Handlers /\ work' = [k \in Handlers |-> work'[k]]
      /\ \A k \in Handlers : k # h => work'[k] = work[k]
      /\ work'[h] = [id |-> id, pc |-> "handle"] /\ work'[h].id = id
  BY <1>1 DEF BotInv, BotTypes
<1>7. ASSUME mode = "polling" PROVE LoopInv' /\ \A m \in Bot!Ids : Passed(m)' => Passed(m)
  <2>1. LoopInv
    BY <1>7 DEF BotInv, PollInv
  <2>2. \A k \in Handlers : work[k] = Bot!Idle /\ (k # h => work'[k] = Bot!Idle)
    BY <1>2, <1>6 DEF Bot!AllIdle
  <2>3. id >= bot.offset /\ id \notin acked
    BY <1>1, <1>2, <2>1 DEF LoopInv
  <2>4. Bot!Ids' = Bot!Ids
    BY <1>2 DEF Bot!Ids
  <2>5. \A i \in bot'.batch : i >= bot'.offset /\ i \notin acked'
    BY <1>1, <1>2, <1>3, <1>4, <1>5, <2>1 DEF LoopInv
  <2>6. ASSUME NEW i \in Bot!Ids \ (acked' \cup bot'.batch), i >= bot'.offset, NEW j \in bot'.batch
        PROVE  j < i
    <3>1. i \notin bot.batch /\ i >= bot.offset /\ j \in bot.batch
      BY <1>3, <1>4, <1>5, <2>3, <2>6
    <3> QED  BY <1>2, <2>1, <2>6, <3>1 DEF LoopInv
  <2>7. LoopInv'
    BY <1>2, <1>3, <1>4, <1>5, <1>6, <2>1, <2>2, <2>3, <2>4, <2>5, <2>6 DEF LoopInv
  <2>8. ASSUME NEW m \in Bot!Ids, Passed(m)' PROVE Passed(m)
    <3>1. CASE m \in acked
      BY <3>1 DEF Passed
    <3>2. CASE m \notin acked
      <4>1. m < id
        BY <1>2, <1>3, <1>4, <1>5, <1>6, <2>8, <3>2 DEF Passed
      <4>2. m \notin bot.batch
        BY <1>1, <1>3, <1>4, <4>1
      <4>3. m < bot.offset
        BY <1>1, <1>2, <1>3, <1>4, <2>1, <3>2, <4>1, <4>2 DEF LoopInv
      <4>4. \A k \in Handlers : work[k].id # m
        BY <1>3, <2>2 DEF Bot!Idle
      <4> QED  BY <4>3, <4>4 DEF Passed
    <3> QED  BY <3>1, <3>2
  <2> QED  BY <2>7, <2>8
<1> QED
  BY <1>2, <1>3, <1>4, <1>5, <1>6, <1>7, TransportStep

LEMMA OtherTransportStep ==
  ASSUME BotInv, (\E h \in Handlers : Bot!EndBatch(h) \/ Bot!webhook(h)) \/ Bot!Crash
  PROVE  BotInv'
<1>1. /\ bot \in [pc : {"down", "poll", "batch", "webhook"}, offset : Nat, batch : SUBSET Bot!Ids]
      /\ acked \subseteq Bot!Ids /\ Len(sent) \in Nat /\ bot.offset \in Nat /\ Bot!Ids = 1..Len(sent)
      /\ DOMAIN work = Handlers /\ work = [k \in Handlers |-> work[k]]
      /\ mode = "polling" => LoopInv
  BY BotFields DEF BotInv, BotTypes, PollInv
<1>2. ASSUME NEW h \in Handlers, Bot!EndBatch(h) PROVE BotInv'
  <2>1. /\ bot' = [bot EXCEPT !.pc = "poll"] /\ Bot!AllIdle /\ bot.pc = "batch"
        /\ UNCHANGED <<mode, sent, acked, work, binding, token, inviting, bound, handled, failed>>
    BY <1>2 DEF Bot!EndBatch, Bot!Rows
  <2>2. /\ bot' \in [pc : {"down", "poll", "batch", "webhook"}, offset : Nat, batch : SUBSET Bot!Ids]
        /\ bot'.pc = "poll" /\ bot'.offset = bot.offset
    BY <1>1, <2>1
  <2>3. ASSUME mode = "polling" PROVE LoopInv' /\ \A m \in Bot!Ids : Passed(m)' => Passed(m)
    BY <1>1, <2>1, <2>2, <2>3 DEF LoopInv, Passed, Bot!AllIdle, Bot!Ids
  <2> QED
    BY <1>1, <2>1, <2>2, <2>3, TransportStep
<1>3. ASSUME NEW h \in Handlers, Bot!webhook(h) PROVE BotInv'
  <2>1. /\ bot.pc = "webhook"
        /\ UNCHANGED <<mode, sent, acked, bot, binding, token, inviting, bound, handled, failed>>
    BY <1>3 DEF Bot!webhook, Bot!Rows
  <2>2. PICK id \in Bot!Ids : work' = [work EXCEPT ![h] = [id |-> id, pc |-> "handle"]]
    BY <1>3 DEF Bot!webhook
  <2>3. /\ DOMAIN work' = Handlers /\ work' = [k \in Handlers |-> work'[k]]
        /\ \A k \in Handlers : work'[k] = work[k] \/ work'[k] = [id |-> id, pc |-> "handle"]
    BY <1>1, <2>2
  <2>4. mode # "polling"
    BY <1>1, <2>1 DEF LoopInv
  <2> QED
    BY <1>1, <2>1, <2>3, <2>4, TransportStep
<1>4. CASE Bot!Crash
  <2>1. /\ bot' = Bot!Down /\ work' = [k \in Handlers |-> Bot!Idle]
        /\ UNCHANGED <<mode, sent, acked, binding, token, inviting, bound, handled, failed>>
    BY <1>4 DEF Bot!Crash, Bot!Rows
  <2>2. bot'.pc = "down" /\ bot'.offset = 0
        /\ bot' \in [pc : {"down", "poll", "batch", "webhook"}, offset : Nat, batch : SUBSET Bot!Ids]
    BY <2>1 DEF Bot!Down
  <2>3. ASSUME mode = "polling" PROVE LoopInv' /\ \A m \in Bot!Ids : Passed(m)' => Passed(m)
    <3>1. LoopInv'
      BY <1>1, <2>1, <2>2, <2>3 DEF LoopInv, Bot!AllIdle, Bot!Ids
    <3> QED  BY <1>1, <2>1, <2>2, <3>1 DEF Passed
  <2>4. DOMAIN work' = Handlers /\ work' = [k \in Handlers |-> work'[k]] /\ \A k \in Handlers : work'[k] = Bot!Idle
    BY <2>1
  <2> QED
    BY <1>1, <2>1, <2>2, <2>3, <2>4, TransportStep
<1> QED
  BY <1>2, <1>3, <1>4

LEMMA BotInvariance == Bot!Spec => []BotInv
<1>1. Bot!Init => BotInv
  <2> SUFFICES ASSUME Bot!Init PROVE BotInv
    OBVIOUS
  <2>1. /\ mode \in {"polling", "webhook"} /\ sent = << >> /\ acked = {} /\ handled = {} /\ failed = {}
        /\ bot = Bot!Down /\ work = [h \in Handlers |-> Bot!Idle] /\ binding = {} /\ bound = {}
        /\ token \in [Tokens -> LinkToken]
    BY DEF Bot!Init, LinkToken
  <2>2. Bot!Ids = {} /\ Len(sent) = 0 /\ sent \in Seq(Bot!Updates)
    BY <2>1 DEF Bot!Ids
  <2>3. bot \in [pc : {"down", "poll", "batch", "webhook"}, offset : Nat, batch : SUBSET Bot!Ids]
        /\ bot.pc = "down" /\ bot.offset = 0
    BY <2>1 DEF Bot!Down
  <2>4. BotTypes /\ BindingsInv
    BY <2>1, <2>2, <2>3 DEF BotTypes, HandlerOK, BindingsInv
  <2>5. LoopInv
    BY <2>1, <2>2, <2>3 DEF LoopInv, Bot!AllIdle
  <2>6. StopInv /\ TokenInv
    BY <2>1, <2>2 DEF StopInv, TokenInv, Bot!Idle
  <2> QED  BY <2>4, <2>5, <2>6 DEF BotInv, PollInv
<1>2. BotInv /\ [Bot!Next]_Bot!vars => BotInv'
  <2>1. ASSUME BotInv, Bot!Next PROVE BotInv'
    <3>1. ASSUME NEW h \in Handlers, Bot!Receive(h) \/ Bot!Handle(h) \/ Bot!Throw(h) PROVE BotInv'
      BY <2>1, <3>1, TakeStep, OtherTransportStep, HandleStep, ThrowStep DEF Bot!Receive
    <3> QED
      BY <2>1, <3>1, OtherTransportStep, PeopleStep, StartStep, PollStep DEF Bot!Next
  <2>2. ASSUME BotInv, UNCHANGED Bot!vars PROVE BotInv'
    BY <2>2 DEF Bot!vars, BotInv, BotTypes, HandlerOK, Bot!Ids, BindingsInv, PollInv, LoopInv,
       Bot!AllIdle, StopInv, Stopped, Passed, Binds, TokenInv
  <2> QED  BY <2>1, <2>2
<1> QED
  BY <1>1, <1>2, PTL DEF Bot!Spec

\* Numbers up to n have a largest.
LEMMA HasLargest ==
  ASSUME NEW n \in Nat, NEW T \in SUBSET (0..n), T # {}
  PROVE  \E x \in T : \A y \in T : y <= x
<1> DEFINE R == {ss \in Nat \X Nat : ss[1] < ss[2]}
           gaps == {m \in Nat : n - m \in T}
<1>1. IsWellFoundedOn(R, Nat)
  BY NatLessThanWellFounded DEF OpToRel
<1>2. ASSUME NEW x \in T PROVE n - x \in gaps
  <2>1. n - x \in Nat /\ n - (n - x) = x
    OBVIOUS
  <2> QED  BY <2>1
<1>3. gaps \subseteq Nat /\ gaps # {}
  BY <1>2
<1> HIDE DEF R
<1>4. PICK m \in gaps : \A k \in gaps : ~(<<k, m>> \in R)
  <2> HIDE DEF gaps
  <2> QED  BY <1>1, <1>3, WFMin
<1>5. ASSUME NEW y \in T PROVE y <= n - m
  <2>1. ~(n - y < m)
    BY <1>2, <1>3, <1>4 DEF R
  <2> QED  BY <2>1
<1>6. n - m \in T
  OBVIOUS
<1> QED
  BY <1>5, <1>6

LEMMA LastUpdate ==
  ASSUME NEW n \in Nat, NEW T \in SUBSET (1..n), T # {}
  PROVE  Bot!Max(T) \in T /\ \A y \in T : y <= Bot!Max(T)
<1>1. PICK m \in T : \A y \in T : y <= m
  <2>1. T \in SUBSET (0..n)
    OBVIOUS
  <2> QED
    BY <2>1, HasLargest
<1> QED
  BY <1>1 DEF Bot!Max

\* In polling mode, once Telegram will not deliver a chat's messages again and
\* the last of those that bind or unbind is a /stop whose handler did not fail,
\* the chat is not bound: for any number of chats, guardians, tokens and
\* updates, wherever the process stops and whatever is delivered again.
THEOREM StoppingIsFinal ==
  ASSUME ExportConstants
  PROVE  Bot!Spec /\ Spec => []StopIsFinal
<1>1. BotInv => Bot!TypeOK
  <2> SUFFICES ASSUME BotInv PROVE Bot!TypeOK
    OBVIOUS
  <2>1. \A h \in Handlers : work[h].id \in Bot!Ids \cup {0}
    BY DEF BotInv, BotTypes, HandlerOK, Bot!Idle
  <2> QED
    BY <2>1 DEF BotInv, BotTypes, BindingsInv, Bot!TypeOK
<1>2. BotInv => Bot!StopIsFinal
  <2> SUFFICES ASSUME BotInv, mode = "polling", NEW c \in Chats,
                      NEW mine, mine = {i \in Bot!Ids : sent[i].chat = c /\ sent[i].kind \in Bot!BindingKinds},
                      mine # {}, mine \subseteq acked,
                      sent[Bot!Max(mine)].kind = "stop", Bot!Max(mine) \notin failed
               PROVE  \A b \in binding : b.chat # c
    BY DEF Bot!StopIsFinal
  <2>1. Len(sent) \in Nat /\ mine \in SUBSET (1..Len(sent))
    BY SentFields DEF BotInv
  <2>2. PICK m \in mine : m = Bot!Max(mine) /\ \A i \in mine : i <= m
    BY <2>1, LastUpdate
  <2>3. m \in Bot!Ids /\ m \in acked /\ Stopped(m, c)
    BY <2>2 DEF Stopped, Binds
  <2> QED
    BY <2>3 DEF BotInv, PollInv, StopInv, Passed
<1>3. Spec => []TypeOK
  BY ExportTypes
<1> QED
  BY <1>1, <1>2, <1>3, BotInvariance, PTL DEF StopIsFinal

\* In polling mode a link token binds one chat at most, though it is read and
\* marked used by two statements.
THEOREM OneChatForALink == Bot!Spec => []Bot!OneTimeLink
<1>1. BotInv => Bot!OneTimeLink
  BY DEF BotInv, PollInv, TokenInv, Bot!OneTimeLink
<1> QED
  BY <1>1, BotInvariance, PTL

-----------------------------------------------------------------------------
\* The landing page.

\* What a publisher has read is a version that was the next one when it read
\* the page, and a snapshot.
WorkOK(p) ==
  LET w == publishing[p] IN
  \/ w = L!Idle
  \/ /\ w.version \in 1..MaxVersion /\ w.version <= page.version + 1
     /\ \/ w.at = "page" /\ w.seo \in Seos
        \/ w.at = "read" /\ w.snapshot \in L!Snapshot /\ w.restores \in BOOLEAN
        \/ /\ w.at = "stamped" /\ w.snapshot \in L!Snapshot /\ w.restores \in BOOLEAN
           /\ w.publishedAt \in 1..now

\* The inductive invariant.
PageInv ==
  /\ L!LiveIsLatest
  /\ L!DifferenceIsSeen
  /\ publishing = [p \in Publishers |-> publishing[p]]
  /\ \A p \in Publishers : WorkOK(p)

LEMMA VisibleIsShown ==
  ASSUME NEW d, DOMAIN d \subseteq Blocks, \A b \in DOMAIN d : d[b] \in L!Block
  PROVE  L!Visible(d) \in L!Shown
<1>1. \A b \in DOMAIN d : d[b].content \in Contents
  BY DEF L!Block
<1>2. L!Visible(d) \in [{c \in DOMAIN d : d[c].isVisible} -> Contents]
  BY <1>1 DEF L!Visible
<1>3. {c \in DOMAIN d : d[c].isVisible} \in SUBSET Blocks
  OBVIOUS
<1>4. QED
  BY <1>2, <1>3 DEF L!Shown

LEMMA CurrentIsSnapshot ==
  ASSUME L!TypeOK
  PROVE  L!Visible(draft) \in L!Shown /\ L!Current \in L!Snapshot
BY VisibleIsShown DEF L!TypeOK, L!Current, L!Snapshot

LEMMA PageInit == ASSUME L!LandingConstants, L!Init PROVE PageInv
<1> USE DEF L!Init
<1>0. 0 \in 0..MaxNow /\ 0 \in 0..MaxStops /\ 0 \in 0..MaxVersion
  BY DEF L!LandingConstants
<1>a. DOMAIN draft = {}
  BY Zenon
<1>1. L!TypeOK
  <2>1. page \in [seo : Seos, updatedAt : 0..now, publishedAt : {L!Never} \cup 1..now,
                  version : 0..MaxVersion, live : L!VersionRow \cup {L!Nothing}]
    BY <1>0
  <2>2. edit \in [Editors -> [at : {"idle", "touch"}, stamp : 0..now]]
    <3>1. L!Free \in [at : {"idle", "touch"}, stamp : 0..now]
      BY <1>0 DEF L!Free
    <3> QED
      BY <3>1
  <2>3. QED
    BY <1>0, <1>a, <2>1, <2>2 DEF L!TypeOK, L!Nothing, L!Never
<1>2. L!LiveIsLatest
  BY <1>1 DEF L!LiveIsLatest
<1>3. L!DifferenceIsSeen
  BY DEF L!DifferenceIsSeen, L!Differs
<1>4. QED
  BY <1>2, <1>3 DEF PageInv, WorkOK

LEMMA LastEditIsLast ==
  ASSUME NEW p, NEW d, NEW n \in Nat, p.updatedAt \in 0..n,
         \A b \in DOMAIN d : d[b].updatedAt \in 0..n
  PROVE  /\ L!lastEdit(p, d) \in 0..n
         /\ L!lastEdit(p, d) >= p.updatedAt
         /\ \A b \in DOMAIN d : L!lastEdit(p, d) >= d[b].updatedAt
<1> DEFINE S == {p.updatedAt} \cup {d[b].updatedAt : b \in DOMAIN d}
<1>1. S \in SUBSET (0..n) /\ S # {}
  OBVIOUS
<1>2. PICK m \in S : \A y \in S : y <= m
  BY <1>1, HasLargest
<1>3. L!lastEdit(p, d) \in S /\ \A y \in S : L!lastEdit(p, d) >= y
  <2> HIDE DEF S
  <2>1. L!Max(S) \in S /\ \A y \in S : L!Max(S) >= y
    BY <1>1, <1>2 DEF L!Max
  <2> QED
    BY <2>1 DEF L!lastEdit, S
<1>4. QED
  BY <1>1, <1>3

\* A step of an editor: the versions and what publishers have read stay, and
\* the page keeps what it shows.
LEMMA EditorStep ==
  ASSUME L!LandingConstants, PageInv,
         versions' = versions, publishing' = publishing, behind' \in BOOLEAN,
         page' = page \/ page' = [page EXCEPT !.seo = page'.seo, !.updatedAt = page'.updatedAt],
         page'.seo \in Seos, page'.updatedAt \in 0..now',
         now' \in Nat, now <= now', now' <= MaxNow,
         DOMAIN draft' \subseteq Blocks,
         \A b \in DOMAIN draft' : draft'[b] \in L!Block /\ draft'[b].updatedAt <= now',
         edit' \in [Editors -> [at : {"idle", "touch"}, stamp : 0..now']], stops' \in 0..MaxStops,
         L!DifferenceIsSeen'
  PROVE  PageInv'
<1> USE DEF L!LandingConstants
<1>t. L!TypeOK
  BY DEF PageInv, L!LiveIsLatest
<1>1. /\ page'.version = page.version /\ page'.live = page.live
      /\ page'.publishedAt = page.publishedAt
  BY <1>t DEF L!TypeOK
<1>2. page' \in [seo : Seos, updatedAt : 0..now', publishedAt : {L!Never} \cup 1..now',
                 version : 0..MaxVersion, live : L!VersionRow \cup {L!Nothing}]
  <2> DEFINE Lives == L!VersionRow \cup {L!Nothing}
             Old == [seo : Seos, updatedAt : 0..now, publishedAt : {L!Never} \cup 1..now,
                     version : 0..MaxVersion, live : Lives]
             New == [seo : Seos, updatedAt : 0..now', publishedAt : {L!Never} \cup 1..now',
                     version : 0..MaxVersion, live : Lives]
  <2>1. page \in Old /\ now \in Nat
    BY <1>t DEF L!TypeOK
  <2> HIDE DEF Lives
  <2>2. page.publishedAt \in {L!Never} \cup 1..now'
    BY <2>1
  <2>3. page \in New
    <3>1. 0..now \subseteq 0..now' /\ page.updatedAt \in 0..now'
      BY <2>1
    <3> QED
      BY <2>1, <2>2, <3>1
  <2>4. [page EXCEPT !.seo = page'.seo, !.updatedAt = page'.updatedAt] \in New
    BY <2>1, <2>2
  <2> QED
    BY <2>3, <2>4 DEF Lives
<1>3. L!TypeOK'
  BY <1>t, <1>1, <1>2 DEF L!TypeOK, L!VersionRow
<1>4. L!LiveIsLatest'
  BY <1>1, <1>3 DEF PageInv, L!LiveIsLatest
<1>5. ASSUME NEW p \in Publishers PROVE WorkOK(p)'
  BY <1>1, <1>t DEF PageInv, WorkOK, L!TypeOK
<1> QED
  BY <1>4, <1>5 DEF PageInv

\* Every edit but a touch leaves its editor touching, or has stamped the page
\* itself; a page whose stamp is later than its publication's is dirty.
LEMMA StampedIsDirty ==
  ASSUME L!LandingConstants, PageInv, NEW at \in 0..now, at > page.publishedAt,
         page' = [page EXCEPT !.seo = page'.seo, !.updatedAt = at],
         draft' = draft
  PROVE  L!isDraftDirty(page', draft')
<1> USE DEF L!LandingConstants
<1>t. L!TypeOK
  BY DEF PageInv, L!LiveIsLatest
<1>1. now \in Nat
  BY <1>t DEF L!TypeOK
<1>2. page'.updatedAt = at /\ page'.publishedAt = page.publishedAt
  BY <1>t DEF L!TypeOK
<1>3. page.publishedAt \in {L!Never} \cup 1..now
  BY <1>t DEF L!TypeOK
<1>4. \A b \in DOMAIN draft' : draft'[b].updatedAt \in 0..now
  BY <1>t, <1>1 DEF L!TypeOK, L!Block
<1>5. L!lastEdit(page', draft') >= at /\ L!lastEdit(page', draft') \in 0..now
  <2> DEFINE p == page'
             d == draft'
  <2>1. now \in Nat /\ p.updatedAt \in 0..now
    BY <1>1, <1>2
  <2>2. \A b \in DOMAIN d : d[b].updatedAt \in 0..now
    BY <1>4
  <2> HIDE DEF p, d
  <2>3. L!lastEdit(p, d) >= p.updatedAt /\ L!lastEdit(p, d) \in 0..now
    BY <2>1, <2>2, LastEditIsLast
  <2> QED
    BY <2>3, <1>2 DEF p, d
<1> QED
  BY <1>1, <1>2, <1>3, <1>5 DEF L!isDraftDirty, L!Never

LEMMA EditKeeps ==
  ASSUME L!LandingConstants, PageInv, NEW e \in Editors, L!Edit(e)
  PROVE  PageInv'
<1> USE DEF L!LandingConstants
<1>t. L!TypeOK
  BY DEF PageInv, L!LiveIsLatest
<1>n. /\ now \in Nat /\ now <= MaxNow /\ page.seo \in Seos /\ page.updatedAt \in 0..now
  BY <1>t DEF L!TypeOK
<1>e. edit \in [Editors -> [at : {"idle", "touch"}, stamp : 0..now]]
      /\ edit[e].stamp \in 0..now
  BY <1>t DEF L!TypeOK
\* The editor's state after a step that leaves the clock as it is.
<1>m. ASSUME NEW at \in {"idle", "touch"}, NEW n \in Nat, NEW stamp \in 0..n, now <= n
      PROVE  [edit EXCEPT ![e] = [at |-> at, stamp |-> stamp]]
               \in [Editors -> [at : {"idle", "touch"}, stamp : 0..n]]
  <2>1. 0..now \subseteq 0..n
    BY <1>m, <1>n
  <2>2. edit \in [Editors -> [at : {"idle", "touch"}, stamp : 0..n]]
    BY <1>e, <2>1
  <2> QED
    BY <2>2
<1>w. ASSUME NEW rows, L!WriteBlocks(e, rows), DOMAIN rows \subseteq Blocks,
             \A b \in DOMAIN rows : rows[b] \in L!Block /\ rows[b].updatedAt <= now
      PROVE  PageInv'
  <2>1. edit'[e].at = "touch"
    BY <1>w, <1>e DEF L!WriteBlocks
  <2>2. L!DifferenceIsSeen'
    BY <2>1 DEF L!DifferenceIsSeen, L!Touching
  <2>3. edit' \in [Editors -> [at : {"idle", "touch"}, stamp : 0..now]]
    BY <1>w, <1>m, <1>n DEF L!WriteBlocks
  <2> QED
    BY <1>w, <1>t, <1>n, <2>2, <2>3, EditorStep DEF L!WriteBlocks, L!TypeOK
<1>b. ASSUME NEW c \in Contents, NEW v \in BOOLEAN
      PROVE  L!NewBlock(e, c, v) \in L!Block /\ L!NewBlock(e, c, v).updatedAt <= now
  BY <1>b, <1>e, <1>n DEF L!NewBlock, L!Block
<1>d. ASSUME NEW b \in DOMAIN draft PROVE draft[b] \in L!Block /\ draft[b].updatedAt <= now
  BY <1>d, <1>t, <1>n DEF L!TypeOK, L!Block
<1>1. ASSUME NEW b \in Blocks, L!createBlock(e, b) PROVE PageInv'
  <2>1. b \notin DOMAIN draft
    BY <1>1 DEF L!createBlock
  <2>2. PICK c \in Contents, v \in BOOLEAN :
          L!WriteBlocks(e, [x \in DOMAIN draft \cup {b} |->
            IF x = b THEN L!NewBlock(e, c, v) ELSE draft[x]])
    BY <1>1 DEF L!createBlock
  <2> DEFINE new == L!NewBlock(e, c, v)
  <2>3. new \in L!Block /\ new.updatedAt <= now
    BY <1>b
  <2> HIDE DEF new
  <2> QED
    BY <2>1, <2>2, <2>3, <1>w, <1>d, <1>t DEF L!TypeOK, new
<1>2. ASSUME NEW b \in Blocks, L!updateBlock(e, b) PROVE PageInv'
  <2>1. b \in DOMAIN draft
    BY <1>2 DEF L!updateBlock
  <2>2. PICK c \in Contents, v \in BOOLEAN :
          L!WriteBlocks(e, [draft EXCEPT ![b] = L!NewBlock(e, c, v)])
    BY <1>2 DEF L!updateBlock
  <2> DEFINE new == L!NewBlock(e, c, v)
  <2>3. new \in L!Block /\ new.updatedAt <= now
    BY <1>b
  <2> HIDE DEF new
  <2> QED
    BY <2>1, <2>2, <2>3, <1>w, <1>d, <1>t DEF L!TypeOK, new
<1>3. ASSUME NEW b \in Blocks, L!deleteBlock(e, b) PROVE PageInv'
  BY <1>3, <1>w, <1>d, <1>t DEF L!deleteBlock, L!TypeOK
<1>4. ASSUME L!reorder(e) PROVE PageInv'
  <2>2. PICK B \in SUBSET DOMAIN draft : \E to \in [B -> Contents] :
          L!WriteBlocks(e, [x \in DOMAIN draft |->
            IF x \in B THEN L!NewBlock(e, to[x], draft[x].isVisible) ELSE draft[x]])
    BY <1>4 DEF L!reorder
  <2>3. PICK to \in [B -> Contents] :
          L!WriteBlocks(e, [x \in DOMAIN draft |->
            IF x \in B THEN L!NewBlock(e, to[x], draft[x].isVisible) ELSE draft[x]])
    BY <2>2
  <2> DEFINE new(x) == L!NewBlock(e, to[x], draft[x].isVisible)
  <2>4. ASSUME NEW x \in B PROVE new(x) \in L!Block /\ new(x).updatedAt <= now
    BY <1>b, <1>t DEF L!TypeOK, L!Block
  <2> HIDE DEF new
  <2>5. L!WriteBlocks(e, [x \in DOMAIN draft |-> IF x \in B THEN new(x) ELSE draft[x]])
    BY <2>3 DEF new
  <2> QED
    BY <2>4, <2>5, <1>w, <1>d, <1>t DEF L!TypeOK
\* The page's row: its stamp tells of a difference, or behind' does.
<1>s. ASSUME NEW seo \in Seos, edit[e].stamp # 0,
             L!WritePage(e, [page EXCEPT !.seo = seo, !.updatedAt = edit[e].stamp])
      PROVE  PageInv'
  <2> DEFINE at == edit[e].stamp
  <2>1. /\ page' = [page EXCEPT !.seo = seo, !.updatedAt = at]
        /\ edit' = [edit EXCEPT ![e] = L!Free]
        /\ behind' = (L!Differs' /\ at <= page.publishedAt)
        /\ UNCHANGED <<draft, versions, publishing, stops, now>>
    BY <1>s DEF L!WritePage
  <2> HIDE DEF at
  <2>2. page'.seo = seo /\ page'.updatedAt = at /\ page'.publishedAt = page.publishedAt
    BY <2>1, <1>t DEF L!TypeOK
  <2>3. page' = [page EXCEPT !.seo = page'.seo, !.updatedAt = page'.updatedAt]
        /\ page' = [page EXCEPT !.seo = page'.seo, !.updatedAt = at]
    BY <2>1, <2>2
  <2>4. at \in 0..now /\ page.publishedAt \in Int
    BY <1>e, <1>t, <1>n DEF at, L!TypeOK, L!Never
  <2>5. L!DifferenceIsSeen'
    <3>1. CASE at > page.publishedAt
      <4>1. L!isDraftDirty(page', draft')
        BY <3>1, <2>1, <2>3, <2>4, StampedIsDirty
      <4> QED
        BY <4>1, Zenon DEF L!DifferenceIsSeen
    <3>2. CASE at <= page.publishedAt
      BY <3>2, <2>1, Zenon DEF L!DifferenceIsSeen
    <3> QED
      BY <3>1, <3>2, <2>4
  <2>6. edit' \in [Editors -> [at : {"idle", "touch"}, stamp : 0..now]]
    BY <2>1, <1>m, <1>n DEF L!Free
  <2>7. behind' \in BOOLEAN
    BY <2>1
  <2> QED
    BY <2>1, <2>2, <2>3, <2>4, <2>5, <2>6, <2>7, <1>n, <1>d, <1>t, EditorStep DEF L!TypeOK
<1>5. ASSUME L!updateSeo(e) PROVE PageInv'
  BY <1>5, <1>s, Zenon DEF L!updateSeo, L!MayEdit
<1>6. ASSUME L!touch(e) PROVE PageInv'
  <2>1. edit[e].stamp # 0 /\ L!WritePage(e, [page EXCEPT !.updatedAt = edit[e].stamp])
    BY <1>6 DEF L!touch
  <2>2. [page EXCEPT !.updatedAt = edit[e].stamp]
          = [page EXCEPT !.seo = page.seo, !.updatedAt = edit[e].stamp]
    <3> DEFINE Published == {L!Never} \cup 1..now
               Lives == L!VersionRow \cup {L!Nothing}
    <3>1. page \in [seo : Seos, updatedAt : 0..now, publishedAt : Published,
                    version : 0..MaxVersion, live : Lives]
      BY <1>t DEF L!TypeOK
    <3> HIDE DEF Published, Lives
    <3> QED
      BY <3>1
  <2>3. L!WritePage(e, [page EXCEPT !.seo = page.seo, !.updatedAt = edit[e].stamp])
    BY <2>1, <2>2, Zenon
  <2> QED
    BY <2>1, <2>3, <1>n, <1>s, Zenon
<1>7. ASSUME L!StopBeforeTouch(e) PROVE PageInv'
  <2>1. /\ UNCHANGED <<draft, page, versions, publishing, behind, now>>
        /\ edit' = [edit EXCEPT ![e] = L!Free] /\ stops' = stops + 1 /\ stops < MaxStops
    BY <1>7 DEF L!StopBeforeTouch
  <2>2. stops' \in 0..MaxStops /\ stops' # 0
    BY <2>1, <1>t DEF L!TypeOK
  <2>3. L!DifferenceIsSeen'
    BY <2>2 DEF L!DifferenceIsSeen
  <2>4. edit' \in [Editors -> [at : {"idle", "touch"}, stamp : 0..now]]
    BY <2>1, <1>m, <1>n DEF L!Free
  <2> QED
    BY <2>1, <2>2, <2>3, <2>4, <1>n, <1>t, EditorStep DEF L!TypeOK
<1>8. ASSUME L!Stamp(e) PROVE PageInv'
  <2>1. /\ UNCHANGED <<draft, page, versions, publishing, stops, behind>>
        /\ now' = now + 1 /\ now < MaxNow
        /\ edit' = [edit EXCEPT ![e].stamp = now']
    BY <1>8 DEF L!Stamp, L!Tick
  <2>2. now' \in Nat /\ now <= now' /\ now' <= MaxNow /\ now' \in 0..now'
    BY <2>1, <1>n
  <2>3. edit' \in [Editors -> [at : {"idle", "touch"}, stamp : 0..now']]
    <3>1. [at |-> edit[e].at, stamp |-> now'] = [edit[e] EXCEPT !.stamp = now']
          /\ edit[e].at \in {"idle", "touch"}
      BY <1>e
    <3>2. edit' = [edit EXCEPT ![e] = [edit[e] EXCEPT !.stamp = now']]
      BY <2>1
    <3>3. edit' = [edit EXCEPT ![e] = [at |-> edit[e].at, stamp |-> now']]
      BY <3>1, <3>2, Zenon
    <3> QED
      BY <3>1, <3>3, <2>2, <1>m
  <2>4. \A f \in Editors : edit'[f].at = edit[f].at
    BY <2>1, <1>e
  <2>5. L!Touching' = L!Touching
    BY <2>4 DEF L!Touching
  <2>6. L!DifferenceIsSeen'
    BY <2>1, <2>5 DEF PageInv, L!DifferenceIsSeen, L!Differs, L!Current
  <2>7. \A b \in DOMAIN draft' : draft'[b] \in L!Block /\ draft'[b].updatedAt <= now'
    BY <2>1, <2>2, <1>d, <1>n DEF L!Block
  <2>8. page'.updatedAt \in 0..now'
    BY <2>1, <2>2, <1>n
  <2> QED
    BY <2>1, <2>2, <2>3, <2>6, <2>7, <2>8, <1>n, <1>t, EditorStep DEF L!TypeOK
<1> QED
  BY <1>1, <1>2, <1>3, <1>4, <1>5, <1>6, <1>7, <1>8 DEF L!Edit

LEMMA PublishKeeps ==
  ASSUME L!LandingConstants, PageInv, NEW p \in Publishers, L!Publish(p)
  PROVE  PageInv'
<1> USE DEF L!LandingConstants
<1>t. L!TypeOK
  BY DEF PageInv, L!LiveIsLatest
<1>v. page.version \in 0..MaxVersion /\ page.seo \in Seos /\ now \in 0..MaxNow
  BY <1>t DEF L!TypeOK
<1>p. WorkOK(p)
  BY DEF PageInv
\* What a publisher reads or notes.
<1>r. ASSUME NEW w, L!Step(p, w), UNCHANGED <<draft, page, versions, edit, stops, behind>>,
             now' \in now..MaxNow,
             \/ w = L!Idle
             \/ /\ w.version \in 1..MaxVersion /\ w.version <= page.version + 1
                /\ \/ w.at = "page" /\ w.seo \in Seos
                   \/ w.at = "read" /\ w.snapshot \in L!Snapshot /\ w.restores \in BOOLEAN
                   \/ /\ w.at = "stamped" /\ w.snapshot \in L!Snapshot /\ w.restores \in BOOLEAN
                      /\ w.publishedAt \in 1..now'
      PROVE  PageInv'
  <2>1. L!TypeOK'
    <3> DEFINE Lives == L!VersionRow \cup {L!Nothing}
    <3>1. page \in [seo : Seos, updatedAt : 0..now, publishedAt : {L!Never} \cup 1..now,
                    version : 0..MaxVersion, live : Lives]
      BY <1>t DEF L!TypeOK
    <3> HIDE DEF Lives
    <3>2. 0..now \subseteq 0..now' /\ {L!Never} \cup 1..now \subseteq {L!Never} \cup 1..now'
          /\ now' \in 0..MaxNow
      BY <1>r, <1>v
    <3>3. page' \in [seo : Seos, updatedAt : 0..now', publishedAt : {L!Never} \cup 1..now',
                     version : 0..MaxVersion, live : Lives]
      BY <3>1, <3>2, <1>r
    <3>4. \A b \in DOMAIN draft : draft[b].updatedAt <= now'
      BY <1>t, <1>r DEF L!TypeOK, L!Block
    <3> QED
      BY <1>t, <1>r, <3>2, <3>3, <3>4 DEF L!TypeOK, L!VersionRow, Lives
  <2>2. L!LiveIsLatest' /\ L!DifferenceIsSeen'
    BY <1>r, <2>1 DEF PageInv, L!LiveIsLatest, L!DifferenceIsSeen, L!Differs, L!Touching, L!Current
  <2>3. publishing' = [publishing EXCEPT ![p] = w]
    BY <1>r DEF L!Step
  <2>4. publishing' = [q \in Publishers |-> publishing'[q]]
    BY <2>3 DEF PageInv
  <2>5. ASSUME NEW q \in Publishers PROVE WorkOK(q)'
    BY <1>r, <1>v, <2>3 DEF PageInv, WorkOK
  <2> QED
    BY <2>2, <2>4, <2>5 DEF PageInv
<1>1. ASSUME L!ReadPage(p) PROVE PageInv'
  <2> DEFINE w == [at |-> "page", version |-> page.version + 1, seo |-> page.seo]
  <2>1. L!Step(p, w) /\ UNCHANGED <<draft, page, versions, edit, stops, behind, now>>
        /\ page.version < MaxVersion
    BY <1>1 DEF L!ReadPage
  <2>2. w.version \in 1..MaxVersion /\ w.version <= page.version + 1 /\ w.at = "page" /\ w.seo \in Seos
    BY <1>v, <2>1
  <2> HIDE DEF w
  <2> QED
    BY <2>1, <2>2, <1>v, <1>r
<1>s. ASSUME NEW snapshot \in L!Snapshot, NEW restores \in BOOLEAN, L!Read(p, snapshot, restores)
      PROVE  PageInv'
  <2> DEFINE w == [at |-> "read", version |-> publishing[p].version,
                   snapshot |-> snapshot, restores |-> restores]
  <2>1. L!Step(p, w) /\ UNCHANGED <<draft, page, versions, edit, stops, behind, now>>
        /\ publishing[p].at = "page"
    BY <1>s DEF L!Read
  <2>2. w.version \in 1..MaxVersion /\ w.version <= page.version + 1 /\ w.at = "read"
        /\ w.snapshot \in L!Snapshot /\ w.restores \in BOOLEAN
    BY <1>p, <2>1 DEF WorkOK, L!Idle
  <2> HIDE DEF w
  <2> QED
    BY <2>1, <2>2, <1>v, <1>r
<1>2. ASSUME L!ReadBlocks(p) PROVE PageInv'
  <2>1. publishing[p].seo \in Seos
    BY <1>2, <1>p DEF L!ReadBlocks, WorkOK, L!Idle
  <2>2. [seo |-> publishing[p].seo, blocks |-> L!Visible(draft)] \in L!Snapshot
    BY <2>1, <1>t, CurrentIsSnapshot DEF L!Snapshot
  <2> QED
    BY <1>2, <2>2, <1>s DEF L!ReadBlocks
<1>3. ASSUME L!getVersion(p) PROVE PageInv'
  BY <1>3, <1>s, <1>t DEF L!getVersion, L!TypeOK, L!VersionRow
<1>4. ASSUME L!StampPublishedAt(p) PROVE PageInv'
  <2> DEFINE w == [at |-> "stamped", version |-> publishing[p].version,
                   snapshot |-> publishing[p].snapshot, restores |-> publishing[p].restores,
                   publishedAt |-> now']
  <2>1. L!Step(p, w) /\ UNCHANGED <<draft, page, versions, edit, stops, behind>>
        /\ publishing[p].at = "read"
    BY <1>4 DEF L!StampPublishedAt
  <2>2. now' = now + 1 /\ now < MaxNow
    BY <1>4 DEF L!StampPublishedAt, L!Tick
  <2>3. w.version \in 1..MaxVersion /\ w.version <= page.version + 1 /\ w.at = "stamped"
        /\ w.snapshot \in L!Snapshot /\ w.restores \in BOOLEAN /\ w.publishedAt \in 1..now'
    BY <1>p, <1>v, <2>1, <2>2 DEF WorkOK, L!Idle
  <2> HIDE DEF w
  <2> QED
    BY <2>1, <2>2, <2>3, <1>v, <1>r
<1>5. ASSUME L!CONCURRENT_PUBLISH(p) PROVE PageInv'
  BY <1>5, <1>v, <1>r DEF L!CONCURRENT_PUBLISH
<1>6. ASSUME L!writeVersion(p) PROVE PageInv'
  <2> DEFINE w == publishing[p]
             new == [version |-> w.version, snapshot |-> w.snapshot]
  <2>1. /\ w.at = "stamped" /\ ~L!Taken(w.version)
        /\ page' = L!Published(w)
        /\ draft' = IF w.restores THEN L!Restored(w) ELSE draft
        /\ versions' = versions \cup {new}
        /\ behind' = (~w.restores /\ w.snapshot # L!Current)
        /\ L!Step(p, L!Idle)
        /\ UNCHANGED <<edit, stops, now>>
    BY <1>6 DEF L!writeVersion
  <2>2. /\ w.version \in 1..MaxVersion /\ w.version <= page.version + 1
        /\ w.snapshot \in L!Snapshot /\ w.restores \in BOOLEAN /\ w.publishedAt \in 1..now
    BY <1>p, <2>1 DEF WorkOK, L!Idle
  <2>h. /\ {r.version : r \in versions} = 1..page.version
        /\ \A r, s \in versions : r.version = s.version => r = s
        /\ versions \subseteq L!VersionRow
    BY <1>t DEF PageInv, L!LiveIsLatest, L!TypeOK
  <2>3. w.version = page.version + 1
    <3>1. w.version \notin {r.version : r \in versions}
      BY <2>1 DEF L!Taken
    <3> QED
      BY <3>1, <2>2, <2>h, <1>v
  <2>4. new \in L!VersionRow /\ new.version = w.version /\ new.snapshot = w.snapshot
    BY <2>2 DEF L!VersionRow
  <2>5. w.snapshot.seo \in Seos /\ w.snapshot.blocks \in L!Shown
        /\ w.snapshot = [seo |-> w.snapshot.seo, blocks |-> w.snapshot.blocks]
    BY <2>2 DEF L!Snapshot
  <2>6. /\ page'.seo = (IF w.restores THEN w.snapshot.seo ELSE page.seo)
        /\ page'.updatedAt = w.publishedAt /\ page'.publishedAt = w.publishedAt
        /\ page'.version = w.version /\ page'.live = new
    BY <2>1 DEF L!Published
  <2>7. page' \in [seo : Seos, updatedAt : 0..now', publishedAt : {L!Never} \cup 1..now',
                   version : 0..MaxVersion, live : L!VersionRow \cup {L!Nothing}]
    <3> DEFINE seo == IF w.restores THEN w.snapshot.seo ELSE page.seo
               Lives == L!VersionRow \cup {L!Nothing}
    <3>1. page' = [seo |-> seo, updatedAt |-> w.publishedAt, publishedAt |-> w.publishedAt,
                   version |-> w.version, live |-> new]
      BY <2>1 DEF L!Published
    <3>2. seo \in Seos /\ new \in Lives
      BY <1>v, <2>2, <2>4, <2>5
    <3>3. w.publishedAt \in 0..now' /\ w.publishedAt \in {L!Never} \cup 1..now'
          /\ w.version \in 0..MaxVersion
      BY <2>1, <2>2, <1>v
    <3> HIDE DEF seo, Lives, new, w
    <3> QED
      BY <3>1, <3>2, <3>3 DEF Lives
  <2>8. /\ DOMAIN draft' \subseteq Blocks
        /\ \A b \in DOMAIN draft' : draft'[b] \in L!Block /\ draft'[b].updatedAt <= now'
    <3>1. CASE ~w.restores
      BY <3>1, <2>1, <1>t DEF L!TypeOK
    <3>2. CASE w.restores
      <4>1. draft' = L!Restored(w)
        BY <3>2, <2>1
      <4>2. PICK B \in SUBSET Blocks : w.snapshot.blocks \in [B -> Contents]
        BY <2>5 DEF L!Shown
      <4>3. DOMAIN draft' = B
        BY <4>1, <4>2 DEF L!Restored
      <4>4. ASSUME NEW b \in B
            PROVE  draft'[b] = [content |-> w.snapshot.blocks[b], isVisible |-> TRUE,
                                updatedAt |-> w.publishedAt]
        BY <4>1, <4>2 DEF L!Restored
      <4>5. w.publishedAt \in 0..MaxNow /\ w.publishedAt <= now'
        BY <2>1, <2>2, <1>v
      <4>6. ASSUME NEW b \in B PROVE draft'[b] \in L!Block /\ draft'[b].updatedAt <= now'
        <5>1. w.snapshot.blocks[b] \in Contents
          BY <4>2
        <5> DEFINE content == w.snapshot.blocks[b]
                   at == w.publishedAt
        <5>2. draft'[b] = [content |-> content, isVisible |-> TRUE, updatedAt |-> at]
          BY <4>4
        <5>3. content \in Contents /\ at \in 0..MaxNow /\ at <= now'
          BY <5>1, <4>5
        <5> HIDE DEF content, at
        <5>4. draft'[b] \in L!Block
          BY <5>2, <5>3 DEF L!Block
        <5>5. draft'[b].updatedAt = at
          BY <5>2
        <5> QED
          BY <5>3, <5>4, <5>5
      <4> QED
        BY <4>2, <4>3, <4>6
    <3> QED
      BY <3>1, <3>2
  <2>9. L!TypeOK'
    <3>1. new # L!Nothing
      BY <2>2, <2>4 DEF L!Nothing
    <3>2. page'.publishedAt # L!Never /\ page'.live # L!Nothing
      BY <2>2, <2>6, <3>1 DEF L!Never
    <3> QED
      BY <1>t, <2>1, <2>4, <2>7, <2>8, <3>2 DEF L!TypeOK, L!VersionRow
  <2>10. L!LiveIsLatest'
    <3>1. {r.version : r \in versions'} = 1..page'.version
      BY <1>v, <2>h, <2>1, <2>3, <2>4, <2>6
    <3>2. \A r \in versions : r.version # new.version
      BY <2>1, <2>4 DEF L!Taken
    <3>3. \A r, s \in versions' : r.version = s.version => r = s
      BY <2>1, <2>h, <3>2
    <3> QED
      BY <2>1, <2>4, <2>6, <2>9, <3>1, <3>3 DEF L!LiveIsLatest
  <2>11. L!DifferenceIsSeen'
    <3>1. CASE ~w.restores
      <4>1. L!Current' = L!Current
        BY <3>1, <2>1, <2>6 DEF L!Current
      <4> QED
        BY <3>1, <4>1, <2>1, <2>4, <2>6 DEF L!DifferenceIsSeen, L!Differs
    <3>2. CASE w.restores
      <4>1. PICK B \in SUBSET Blocks : w.snapshot.blocks \in [B -> Contents]
        BY <2>5 DEF L!Shown
      <4>2. L!Visible(L!Restored(w)) = w.snapshot.blocks
        BY <4>1 DEF L!Visible, L!Restored
      <4>3. L!Current' = w.snapshot
        BY <3>2, <4>2, <2>1, <2>5, <2>6 DEF L!Current
      <4> QED
        BY <4>3, <2>4, <2>6 DEF L!DifferenceIsSeen, L!Differs
    <3> QED
      BY <3>1, <3>2
  <2>12. publishing' = [publishing EXCEPT ![p] = L!Idle]
    BY <2>1 DEF L!Step
  <2>13. publishing' = [q \in Publishers |-> publishing'[q]]
    BY <2>12 DEF PageInv
  <2>14. ASSUME NEW q \in Publishers PROVE WorkOK(q)'
    BY <1>v, <2>1, <2>3, <2>6, <2>12 DEF PageInv, WorkOK
  <2> QED
    BY <2>10, <2>11, <2>13, <2>14 DEF PageInv
<1> QED
  BY <1>1, <1>2, <1>3, <1>4, <1>5, <1>6 DEF L!Publish

LEMMA PageInvariance ==
  ASSUME L!LandingConstants
  PROVE  L!Spec => []PageInv
<1>1. L!Init => PageInv
  BY PageInit
<1>2. PageInv /\ [L!Next]_L!vars => PageInv'
  <2>1. ASSUME PageInv, L!Next PROVE PageInv'
    BY <2>1, EditKeeps, PublishKeeps DEF L!Next
  <2>2. ASSUME PageInv, UNCHANGED L!vars PROVE PageInv'
    BY <2>2 DEF L!vars, PageInv, WorkOK, L!LiveIsLatest, L!DifferenceIsSeen, L!TypeOK,
       L!Differs, L!Touching, L!Current, L!Visible, L!isDraftDirty, L!lastEdit
  <2> QED
    BY <2>1, <2>2
<1> QED
  BY <1>1, <1>2, PTL DEF L!Spec

\* What visitors see is the last row of the history, which has one row for every
\* version from the first, and every variable keeps its type: for any number of
\* blocks, editors, publishers and versions.
THEOREM TheLastVersionIsLive ==
  ASSUME L!LandingConstants
  PROVE  L!Spec => []LiveIsLatest
<1>1. PageInv => LiveIsLatest
  BY DEF PageInv, LiveIsLatest
<1> QED
  BY <1>1, PageInvariance, PTL

\* A draft that is not what visitors see is reported as unpublished, however
\* edits, publications and restores interleave, once every editor's touch is
\* written; unless the last publication overwrote an edit it had not read, or the
\* last write of the page was stamped before that publication and came after it.
THEOREM UnpublishedIsReported ==
  ASSUME L!LandingConstants
  PROVE  L!Spec => []DifferenceIsSeen
<1>1. PageInv => DifferenceIsSeen
  BY DEF PageInv, DifferenceIsSeen
<1> QED
  BY <1>1, PageInvariance, PTL
=============================================================================

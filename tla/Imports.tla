------------------------------ MODULE Imports ------------------------------
(***************************************************************************)
(* Importing a spreadsheet: it is validated without writing anything, and  *)
(* committed in one transaction with a savepoint for each row              *)
(* (src/src/imports/imports.service.ts, import-handlers.ts, xlsx-parse.ts).*)
(*                                                                         *)
(* A row is what its validation and its creation look at: whether its cells *)
(* are well formed, the branch or role it names by code, and the phone that *)
(* must be new.  Creating one is two inserts, the record and its audit      *)
(* entry (an opening balance is a charge alone, without an entry, and not   *)
(* modelled).  Other requests remove branches and take phones meanwhile.    *)
(***************************************************************************)
EXTENDS Integers, FiniteSets, Sequences

CONSTANTS
    Jobs,       \* the rows import_job may have
    Calls,      \* identities of commit requests
    Sheets,     \* the spreadsheets that are uploaded: sequences of rows
    Codes,      \* codes of branches and roles
    Phones,
    MaxCalls    \* bound on commit requests

None == "none"
Cells == [wellFormed : BOOLEAN, code : Codes, phone : Phones \cup {None}]

ImportConstants == Sheets \subseteq Seq(Cells) /\ MaxCalls \in Nat

VARIABLES
    codes,      \* the codes that exist
    phones,     \* the phones of records that were not imported
    job,        \* import_job, with the file it points to
    record,     \* imported rows: job, row, part of it, and the commit's number
    call,       \* what each commit does and has written
    made        \* number of commits so far

vars == <<codes, phones, job, record, call, made>>

Free == [pc |-> "idle"]
NoJob == [status |-> None, sheet |-> << >>, valid |-> 0, failed |-> 0]
Parts == {"record", "audit"}

\* parseRow: required cells, dates, numbers, and codes that are known.
parseRow(row) == row.wellFormed /\ row.code \in codes

\* The numbers of the rows that are sound; blank rows are not in the sheet.
Parsed(sheet) == {i \in 1..Len(sheet) : parseRow(sheet[i])}

\* The rows are created in the order of the sheet.
Of(q) == job[call[q].job]
First(todo) == CHOOSE i \in todo : \A k \in todo : i <= k
Number(q) == First(call[q].todo)
Row(q) == Of(q).sheet[Number(q)]
Rest(todo) == todo \ {First(todo)}

\* A phone in rows of another transaction that has not ended.
PhonesOf(rows) ==
    {job[r[1]].sheet[r[2]].phone : r \in {x \in rows : x[3] = "record"}} \ {None}

Inserting == {q \in Calls : call[q].pc \in {"row", "audit"}}
Locked(j) == \E q \in Inserting : call[q].job = j

Unused == {j \in Jobs : job[j].status = None}

Done(q) == call' = [call EXCEPT ![q] = Free]

(***************************************************************************)
(* validate: what it finds is not used again.                              *)
(***************************************************************************)
validate ==
    /\ Unused # {}
    /\ \E s \in Sheets :
        job' = [job EXCEPT ![CHOOSE j \in Unused : TRUE] =
                    [status |-> "validated", sheet |-> s, valid |-> Cardinality(Parsed(s)),
                     failed |-> Len(s) - Cardinality(Parsed(s))]]
    /\ UNCHANGED <<codes, phones, record, call, made>>

(***************************************************************************)
(* commit                                                                  *)
(***************************************************************************)
commit(q) ==
    /\ call[q] = Free /\ made < MaxCalls
    /\ made' = made + 1
    /\ \E j \in Jobs, skip \in BOOLEAN :
        /\ job[j].status # None
        /\ call' = [call EXCEPT ![q] = [pc |-> "lock", job |-> j, skipInvalid |-> skip,
                                         no |-> made']]
    /\ UNCHANGED <<codes, phones, job, record>>

Begin(q) ==
    LET sheet == Of(q).sheet
        parsed == Parsed(sheet)
    IN  IF Cardinality(parsed) = Len(sheet) \/ call[q].skipInvalid
        THEN call' = [call EXCEPT ![q] =
               [pc |-> "row", job |-> call[q].job, skipInvalid |-> call[q].skipInvalid,
                todo |-> parsed, written |-> {}, saved |-> {}, no |-> call[q].no,
                committed |-> 0, failed |-> Len(sheet) - Cardinality(parsed)]]
        ELSE Done(q)

\* FOR UPDATE, then the status: a completed job is the answer, a failed one a
\* conflict.  The stored file is parsed again; without skipInvalid one bad row
\* ends the commit.
Lock(q) ==
    /\ call[q].pc = "lock" /\ ~Locked(call[q].job)
    /\ IF Of(q).status = "validated" THEN Begin(q) ELSE Done(q)
    /\ UNCHANGED <<codes, phones, job, record, made>>

\* SAVEPOINT and the record's insert; a phone that another transaction has
\* inserted is waited for.
commitRow(q) ==
    /\ call[q].pc = "row" /\ call[q].todo # {}
    /\ Row(q).code \in codes
    /\ Row(q).phone \notin phones \cup PhonesOf(record \cup call[q].written)
    /\ \A o \in Inserting : o # q => Row(q).phone \notin PhonesOf(call[o].written)
    /\ call' = [call EXCEPT ![q].pc = "audit",
                            ![q].written = @ \cup {<<call[q].job, Number(q), "record",
                                                     call[q].no>>}]
    /\ UNCHANGED <<codes, phones, job, record, made>>

\* The audit entry's insert and RELEASE SAVEPOINT.
ReleaseRow(q) ==
    /\ call[q].pc = "audit"
    /\ LET rows == call[q].written \cup {<<call[q].job, Number(q), "audit", call[q].no>>}
       IN  call' = [call EXCEPT ![q].pc = "row", ![q].todo = Rest(@), ![q].written = rows,
                                ![q].saved = rows, ![q].committed = @ + 1]
    /\ UNCHANGED <<codes, phones, job, record, made>>

\* MUTANT: ROLLBACK TO SAVEPOINT is forgotten.
FailRowInPlace(q) ==
    /\ q \in Inserting /\ call[q].todo # {}
    /\ IF call[q].skipInvalid
       THEN call' = [call EXCEPT ![q].pc = "row", ![q].todo = Rest(@), ![q].failed = @ + 1]
       ELSE Done(q)
    /\ UNCHANGED <<codes, phones, job, record, made>>

\* A row that cannot be created is rolled back to its savepoint and counted,
\* or ends the commit.
FailRow(q) ==
    /\ q \in Inserting /\ call[q].todo # {}
    /\ IF call[q].skipInvalid
       THEN call' = [call EXCEPT ![q].pc = "row", ![q].todo = Rest(@), ![q].failed = @ + 1,
                                 ![q].written = call[q].saved]
       ELSE Done(q)
    /\ UNCHANGED <<codes, phones, job, record, made>>

Complete(q) ==
    /\ call[q].pc = "row" /\ call[q].todo = {}
    /\ record' = record \cup call[q].written
    /\ job' = [job EXCEPT ![call[q].job] =
                [@ EXCEPT !.status = IF call[q].committed > 0 THEN "completed" ELSE "failed",
                          !.valid = call[q].committed, !.failed = call[q].failed]]
    /\ Done(q) /\ UNCHANGED <<codes, phones, made>>

\* The request, its connection or the process is lost: so is the transaction.
Lose(q) ==
    /\ call[q] # Free
    /\ Done(q) /\ UNCHANGED <<codes, phones, job, record, made>>

\* Other requests.
Elsewhere ==
    /\ \/ /\ \E c \in codes : codes' = codes \ {c}
          /\ UNCHANGED phones
       \/ /\ \E p \in Phones \ PhonesOf(record) :
                /\ \A q \in Inserting : p \notin PhonesOf(call[q].written)
                /\ phones' = phones \cup {p}
          /\ UNCHANGED codes
    /\ UNCHANGED <<job, record, call, made>>

-----------------------------------------------------------------------------
Init ==
    /\ codes = Codes /\ phones = {} /\ record = {}
    /\ job = [j \in Jobs |-> NoJob]
    /\ call = [q \in Calls |-> Free]
    /\ made = 0

Next ==
    \/ validate \/ Elsewhere
    \/ \E q \in Calls :
        \/ commit(q) \/ Lock(q) \/ commitRow(q) \/ ReleaseRow(q)
        \/ FailRow(q) \/ Complete(q) \/ Lose(q)

Spec == Init /\ [][Next]_vars

-----------------------------------------------------------------------------
(***************************************************************************)
(* Properties                                                              *)
(***************************************************************************)
\* Every variable keeps its type.
TypeOK ==
    /\ codes \subseteq Codes /\ phones \subseteq Phones /\ made \in 0..MaxCalls
    /\ \A j \in Jobs : /\ job[j].status \in {None, "validated", "completed", "failed"}
                       /\ job[j].sheet \in Sheets \cup {<< >>}
    /\ \A r \in record : r[1] \in Jobs /\ r[3] \in Parts

\* A completed job has written each of the rows it counts once and whole, the
\* record with its audit entry, and its counts add up to the file; any other job has written
\* nothing.  Whatever was retried, overlapped, skipped or cut off in the middle.
ImportedOnce ==
    \A j \in Jobs :
        LET mine == {r \in record : r[1] = j}
            numbers == {r[2] : r \in mine}
        IN  /\ job[j].status # "completed" => mine = {}
            /\ job[j].status = "completed" =>
                /\ Cardinality(numbers) = job[j].valid /\ numbers # {}
                /\ \A n \in numbers :
                    {<<r[3], r[4]>> : r \in {x \in mine : x[2] = n}} \in
                        {Parts \X {no} : no \in 1..MaxCalls}
            /\ job[j].valid + job[j].failed = Len(job[j].sheet)
=============================================================================

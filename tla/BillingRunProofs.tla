--------------------------- MODULE BillingRunProofs ---------------------------
(***************************************************************************)
(* For any number of children, runs and commit requests: an accounting     *)
(* period is billed once, as its preview showed and as its attendance was  *)
(* recorded, a client is told so only of its own commit, and the requests  *)
(* that wait for row locks never wait in a circle.                         *)
(*                                                                         *)
(* The strengthening is about the middle of a commit.  A request that      *)
(* holds the lock of its run holds it alone, and the run is still a        *)
(* preview; while it locks children, those it has locked come before those *)
(* it is about to lock, and every child with a tariff is among the two, or *)
(* is known to be late; so the children it bills are locked or late, and   *)
(* the days of a line are still those of the child, or the child is late.  *)
(***************************************************************************)
EXTENDS BillingRun, FiniteSetTheorems, WellFoundedInduction, TLAPS

\* The request has begun its transaction and holds the lock of its run.
Holds(m) == m.at \in {"children", "compute", "insert"}

\* What is known of a request m in the course of commit().
RequestInv(m) ==
  /\ m.at # "idle" => m.run \in Runs
  /\ ~Holds(m) => m.held = {} /\ m.todo = {} /\ m.lines = NoLines
  /\ Holds(m) => m.run \in m.held /\ runs[m.run].status = "preview"
  /\ m.at = "children" => /\ m.lines = NoLines
                          /\ Billable \subseteq m.todo \cup m.held \cup late
                          /\ \A c \in m.held \cap Children, d \in m.todo : c < d
  /\ m.at = "compute" => m.todo \subseteq m.held \cup late
  /\ m.at = "insert" => SameSignature(m.lines, runs[m.run].preview)
  /\ DOMAIN m.lines \subseteq m.held \cup late
  /\ \A c \in DOMAIN m.lines : m.lines[c].days = days[c] \/ c \in late
  /\ m.reply \in {"committed", "replayed"} =>
       m.run \in Runs /\ runs[m.run].status = "committed" /\ runs[m.run].key = m.key

RequestsInv == \A q \in Requests : RequestInv(req[q])

\* A row lock has one holder.
LocksInv == \A p, q \in Requests : p # q => req[p].held \cap req[q].held = {}

\* One run is committed, and nothing is charged before it is.
RunsInv ==
  /\ \A r, s \in Committed : r = s
  /\ Committed = {} => Charged = {}

IInv == TypeOK /\ RunsInv /\ LocksInv /\ RequestsInv /\ BilledAsAttended

Req == [at : {"idle", "run", "children", "compute", "insert"}, run : Runs \cup {NoRun},
        key : Keys \cup {NoKey}, todo : SUBSET Children,
        held : SUBSET (Runs \cup Children), lines : PreviewType, reply : Answers]

RunRow == [status : {"none", "preview", "committed", "discarded"},
           preview : PreviewType, key : Keys \cup {NoKey}]

-----------------------------------------------------------------------------
\* Steps of a request.

\* One row of a table is replaced.
LEMMA Replaced ==
  ASSUME NEW S, NEW T, NEW f \in [S -> T], NEW x \in S, NEW y \in T
  PROVE  LET g == [f EXCEPT ![x] = y]
         IN g \in [S -> T] /\ g[x] = y /\ \A z \in S \ {x} : g[z] = f[z]
OBVIOUS

\* TypeOK, part by part.
LEMMA Types ==
  ASSUME BillingConstants, TypeOK
  PROVE  /\ computeAllLines \in PreviewType /\ DOMAIN computeAllLines = Billable
         /\ Billable \subseteq Children
         /\ \A c \in Billable : computeAllLines[c] \in LineType
         /\ req \in [Requests -> Req] /\ runs \in [Runs -> RunRow]
         /\ \A P \in PreviewType : /\ DOMAIN P \subseteq Children
                                   /\ \A c \in DOMAIN P : P[c] \in LineType
         /\ \A c \in Children : Line(c).days = days[c]
         /\ NoCharge \notin LineType /\ NoLines \in PreviewType /\ DOMAIN NoLines = {}
<1>1. req \in [Requests -> Req] /\ runs \in [Runs -> RunRow]
  BY DEF TypeOK, Req, RunRow
<1>2. ASSUME NEW P \in PreviewType
      PROVE  DOMAIN P \subseteq Children /\ \A c \in DOMAIN P : P[c] \in LineType
  <2>1. PICK S \in SUBSET Children : P \in [S -> LineType]
    BY DEF PreviewType
  <2>2. QED
    BY <2>1
<1>3. Billable \subseteq Children /\ \A c \in Billable : Line(c) \in LineType
  BY DEF TypeOK, Billable, Line, LineType
<1>4. computeAllLines \in [Billable -> LineType]
  BY <1>3 DEF computeAllLines
<1>5. computeAllLines \in PreviewType
  BY <1>3, <1>4 DEF PreviewType
<1>6. NoLines \in [{} -> LineType]
  BY DEF NoLines
<1>7. NoLines \in PreviewType /\ DOMAIN NoLines = {}
  BY <1>6 DEF PreviewType
<1>8. \A c \in Children : Line(c).days = days[c]
  BY DEF Line
<1>9. QED
  BY <1>1, <1>2, <1>3, <1>4, <1>5, <1>7, <1>8 DEF BillingConstants, LineType

\* Request q becomes m: it takes locks that nobody holds, and what m says of
\* its place in commit() is so.
LEMMA RequestStep ==
  ASSUME TypeOK, RequestsInv, LocksInv,
         NEW q \in Requests, NEW m \in Req, req' = [req EXCEPT ![q] = m],
         UNCHANGED <<tariff, days, runs, late>>,
         RequestInv(m), \A x \in m.held \ req[q].held : IsFree(x)
  PROVE  req' \in [Requests -> Req] /\ RequestsInv' /\ LocksInv'
<1>1. req \in [Requests -> Req]
  BY DEF TypeOK, Req
<1>2. req'[q] = m /\ \A p \in Requests \ {q} : req'[p] = req[p]
  BY <1>1
<1>3. ASSUME NEW p \in Requests PROVE RequestInv(req[p])'
  <2>1. \E n : n = req'[p] /\ RequestInv(n)
    BY <1>2 DEF RequestsInv
  <2>2. PICK n : n = req'[p] /\ RequestInv(n)
    BY <2>1
  <2>3. Billable' = Billable
    BY DEF Billable
  <2>4. QED
    BY <2>2, <2>3 DEF RequestInv, Holds
<1>4. ASSUME NEW p \in Requests, p # q PROVE req'[p].held \cap req'[q].held = {}
  BY <1>2, <1>4 DEF LocksInv, IsFree
<1>5. LocksInv'
  <2>1. SUFFICES ASSUME NEW p \in Requests, NEW o \in Requests, p # o
                 PROVE  req'[p].held \cap req'[o].held = {}
    BY DEF LocksInv
  <2>2. CASE o = q
    BY <2>1, <2>2, <1>4
  <2>3. CASE p = q
    BY <2>1, <2>3, <1>4
  <2>4. CASE p # q /\ o # q
    BY <2>1, <2>4, <1>2 DEF LocksInv
  <2>5. QED
    BY <2>2, <2>3, <2>4
<1>6. QED
  BY <1>1, <1>3, <1>5 DEF RequestsInv

\* The row of a request that is answered.
LEMMA AnsweredRow ==
  ASSUME BillingConstants, TypeOK, NEW q \in Requests, NEW reply \in Answers
  PROVE  \E m \in Req :
           /\ Answered(q, reply) = [req EXCEPT ![q] = m]
           /\ m.at = "idle" /\ m.todo = {} /\ m.held = {} /\ m.lines = NoLines
           /\ m.reply = reply /\ m.run = req[q].run /\ m.key = req[q].key
<1> DEFINE m == [req[q] EXCEPT !.at = "idle", !.todo = {}, !.held = {}, !.lines = NoLines,
                               !.reply = reply]
<1>1. req[q] \in Req /\ NoLines \in PreviewType
  BY Types
<1>2. m \in Req /\ m.at = "idle" /\ m.todo = {} /\ m.held = {} /\ m.lines = NoLines
      /\ m.reply = reply /\ m.run = req[q].run /\ m.key = req[q].key
  BY <1>1 DEF Req
<1>3. Answered(q, reply) = [req EXCEPT ![q] = m]
  BY DEF Answered
<1>4. QED
  BY <1>2, <1>3

\* A request that ends without success.
LEMMA AnsweredStep ==
  ASSUME BillingConstants, TypeOK, RequestsInv, LocksInv, NEW q \in Requests, NEW reply \in Answers,
         reply \in {"committed", "replayed"} =>
           /\ req[q].run \in Runs
           /\ runs[req[q].run].status = "committed" /\ runs[req[q].run].key = req[q].key,
         req' = Answered(q, reply), UNCHANGED <<tariff, days, runs, late>>
  PROVE  req' \in [Requests -> Req] /\ RequestsInv' /\ LocksInv'
<1>1. PICK m \in Req :
        /\ Answered(q, reply) = [req EXCEPT ![q] = m]
        /\ m.at = "idle" /\ m.todo = {} /\ m.held = {} /\ m.lines = NoLines
        /\ m.reply = reply /\ m.run = req[q].run /\ m.key = req[q].key
  BY AnsweredRow
<1>2. RequestInv(m)
  BY <1>1, Types DEF RequestInv, Holds
<1>3. QED
  BY <1>1, <1>2, RequestStep

-----------------------------------------------------------------------------
\* One lemma for each action of commit().

\* Requests move and the rest of the state stays.
LEMMA OnlyRequests ==
  ASSUME IInv, req' \in [Requests -> Req] /\ RequestsInv' /\ LocksInv',
         UNCHANGED <<tariff, days, charge, pending, period, runs, ending, late>>
  PROVE  IInv'
<1>1. TypeOK'
  BY DEF IInv, TypeOK, Req, Charged
<1>2. RunsInv'
  BY DEF IInv, RunsInv, Committed, Charged
<1>3. BilledAsAttended'
  BY DEF IInv, BilledAsAttended, Charged
<1>4. QED
  BY <1>1, <1>2, <1>3 DEF IInv

LEMMA FailKeeps ==
  ASSUME BillingConstants, IInv, NEW q \in Requests, Fail(q) PROVE IInv'
<1>1. "failed" \in Answers
  BY DEF Answers
<1>2. req' \in [Requests -> Req] /\ RequestsInv' /\ LocksInv'
  BY <1>1, AnsweredStep DEF IInv, Fail
<1>3. QED
  BY <1>2, OnlyRequests DEF Fail

LEMMA StartKeeps ==
  ASSUME BillingConstants, IInv, NEW q \in Requests, NEW r \in Runs, NEW k \in Keys, Start(q, r, k)
  PROVE  IInv'
<1> DEFINE call(at, reply) == [at |-> at, run |-> r, key |-> k, todo |-> {}, held |-> {},
                               lines |-> NoLines, reply |-> reply]
<1>1. PICK m \in Req : /\ req' = [req EXCEPT ![q] = m]
                       /\ m.at \in {"idle", "run"} /\ m.run = r /\ m.key = k
                       /\ m.todo = {} /\ m.held = {} /\ m.lines = NoLines
                       /\ m.reply \in {"committed", "replayed"} =>
                            runs[r].status = "committed" /\ runs[r].key = k
  <2>1. ASSUME NEW at \in {"idle", "run"}, NEW reply \in Answers
        PROVE  call(at, reply) \in Req
    BY Types DEF Req, IInv
  <2>2. \A reply \in {"none", "replayed", "conflict", "closed"} : reply \in Answers
    BY DEF Answers
  <2>3. CASE runs[r].status = "committed" /\ runs[r].key = k
    <3>1. req' = [req EXCEPT ![q] = call("idle", "replayed")]
      BY <2>3 DEF Start
    <3>2. QED
      BY <3>1, <2>1, <2>2, <2>3
  <2>4. CASE ~(runs[r].status = "committed" /\ runs[r].key = k)
    <3>1. \E at \in {"idle", "run"}, reply \in {"none", "conflict", "closed"} :
             req' = [req EXCEPT ![q] = call(at, reply)]
      BY <2>4 DEF Start
    <3>2. PICK at \in {"idle", "run"}, reply \in {"none", "conflict", "closed"} :
             req' = [req EXCEPT ![q] = call(at, reply)]
      BY <3>1
    <3>3. QED
      BY <3>2, <2>1, <2>2
  <2>5. QED
    BY <2>3, <2>4
<1>2. RequestInv(m)
  BY <1>1, Types DEF RequestInv, Holds, IInv
<1>3. \A x \in m.held \ req[q].held : IsFree(x)
  BY <1>1
<1>4. UNCHANGED <<tariff, days, runs, late>>
  BY DEF Start
<1>5. req' \in [Requests -> Req] /\ RequestsInv' /\ LocksInv'
  BY <1>1, <1>2, <1>3, <1>4, RequestStep DEF IInv
<1>6. QED
  BY <1>5, OnlyRequests DEF Start

LEMMA LockRunKeeps ==
  ASSUME BillingConstants, IInv, NEW q \in Requests, LockRun(q) PROVE IInv'
<1>0. /\ req[q] \in Req /\ RequestInv(req[q]) /\ req[q].run \in Runs /\ req[q].held = {}
      /\ req[q].lines = NoLines
  BY Types DEF IInv, RequestsInv, RequestInv, Holds, LockRun
<1>1. CASE runs[req[q].run].status = "preview"
  <2> DEFINE m == [req[q] EXCEPT !.at = "children", !.todo = Billable, !.held = {req[q].run}]
  <2>1. /\ m \in Req /\ m.at = "children" /\ m.run = req[q].run
        /\ m.todo = Billable /\ m.held = {req[q].run} /\ m.reply = req[q].reply /\ m.key = req[q].key
        /\ m.lines = NoLines
    BY <1>0, Types DEF Req, IInv
  <2>2. req' = [req EXCEPT ![q] = m]
    BY <1>1 DEF LockRun
  <2> HIDE DEF m
  <2>3. RequestInv(m)
    BY <2>1, <1>0, <1>1, Types DEF RequestInv, Holds, IInv, BillingConstants
  <2>4. \A x \in m.held \ req[q].held : IsFree(x)
    BY <2>1 DEF LockRun
  <2>5. req' \in [Requests -> Req] /\ RequestsInv' /\ LocksInv'
    BY <2>1, <2>2, <2>3, <2>4, RequestStep DEF IInv, LockRun
  <2>6. QED
    BY <2>5, OnlyRequests DEF LockRun
<1>2. CASE runs[req[q].run].status # "preview"
  <2>1. PICK reply \in {"replayed", "conflict"} :
          /\ req' = Answered(q, reply)
          /\ reply = "replayed" => /\ runs[req[q].run].status = "committed"
                                   /\ runs[req[q].run].key = req[q].key
    BY <1>2 DEF LockRun
  <2>2. reply \in Answers
    BY DEF Answers
  <2>3. req' \in [Requests -> Req] /\ RequestsInv' /\ LocksInv'
    BY <1>0, <2>1, <2>2, AnsweredStep DEF IInv, LockRun
  <2>4. QED
    BY <2>3, OnlyRequests DEF LockRun
<1>3. QED
  BY <1>1, <1>2

LEMMA LockChildKeeps ==
  ASSUME BillingConstants, IInv, NEW q \in Requests, LockChild(q) PROVE IInv'
<1>0. PICK c \in req[q].todo : (\A d \in req[q].todo : c <= d) /\ Locking(q, c)
  BY DEF LockChild
<1>1. req[q] \in Req /\ RequestInv(req[q]) /\ req[q].at = "children"
      /\ c \in Children /\ req[q].todo \subseteq Children
  BY <1>0, Types DEF IInv, RequestsInv, Locking, Req
<1> DEFINE m == [req[q] EXCEPT !.todo = req[q].todo \ {c}, !.held = req[q].held \cup {c}]
<1>2. /\ m \in Req /\ m.at = "children" /\ m.run = req[q].run /\ m.key = req[q].key
      /\ m.todo = req[q].todo \ {c} /\ m.held = req[q].held \cup {c} /\ m.reply = req[q].reply
      /\ m.lines = req[q].lines
  BY <1>1 DEF Req
<1>3. req' = [req EXCEPT ![q] = m]
  BY <1>0 DEF Locking
<1> HIDE DEF m
<1>4. ASSUME NEW b \in m.held \cap Children, NEW d \in m.todo PROVE b < d
  <2>1. b \in Nat /\ c \in Nat /\ d \in Nat /\ d \in req[q].todo /\ d # c
    BY <1>1, <1>2 DEF BillingConstants
  <2>2. CASE b \in req[q].held
    BY <1>1, <2>1, <2>2 DEF RequestInv
  <2>3. CASE b = c
    BY <1>0, <2>1, <2>3
  <2>4. QED
    BY <1>2, <2>2, <2>3
<1>5. RequestInv(m)
  BY <1>1, <1>2, <1>4 DEF RequestInv, Holds
<1>6. \A x \in m.held \ req[q].held : IsFree(x)
  BY <1>2, <1>0 DEF Locking
<1>7. req' \in [Requests -> Req] /\ RequestsInv' /\ LocksInv'
  BY <1>0, <1>2, <1>3, <1>5, <1>6, RequestStep DEF IInv, Locking
<1>8. QED
  BY <1>0, <1>7, OnlyRequests DEF Locking

LEMMA ListAgainKeeps ==
  ASSUME BillingConstants, IInv, NEW q \in Requests, ListAgain(q) PROVE IInv'
<1>1. req[q] \in Req /\ RequestInv(req[q]) /\ req[q].at = "children" /\ req[q].todo = {}
  BY Types DEF IInv, RequestsInv, ListAgain
<1> DEFINE m == [req[q] EXCEPT !.at = "compute", !.todo = Billable]
<1>2. /\ m \in Req /\ m.at = "compute" /\ m.run = req[q].run /\ m.key = req[q].key
      /\ m.todo = Billable /\ m.held = req[q].held /\ m.reply = req[q].reply
      /\ m.lines = req[q].lines
  BY <1>1, Types DEF Req, IInv
<1>3. req' = [req EXCEPT ![q] = m]
  BY DEF ListAgain
<1> HIDE DEF m
<1>4. RequestInv(m)
  BY <1>1, <1>2 DEF RequestInv, Holds
<1>5. req' \in [Requests -> Req] /\ RequestsInv' /\ LocksInv'
  BY <1>2, <1>3, <1>4, RequestStep DEF IInv, ListAgain
<1>6. QED
  BY <1>5, OnlyRequests DEF ListAgain

\* Some lines, and one more.
LEMMA LineAdded ==
  ASSUME BillingConstants, TypeOK, NEW lines \in PreviewType, NEW c \in Billable
  PROVE  /\ WithLine(lines, c) \in PreviewType
         /\ DOMAIN WithLine(lines, c) = DOMAIN lines \cup {c}
         /\ WithLine(lines, c)[c] = Line(c)
         /\ \A d \in DOMAIN lines \ {c} : WithLine(lines, c)[d] = lines[d]
<1>1. /\ DOMAIN lines \subseteq Children /\ \A d \in DOMAIN lines : lines[d] \in LineType
      /\ c \in Children /\ Line(c) \in LineType
  BY Types DEF computeAllLines
<1> DEFINE S == DOMAIN lines \cup {c}
<1>2. S \in SUBSET Children /\ WithLine(lines, c) \in [S -> LineType]
  BY <1>1 DEF WithLine
<1>3. WithLine(lines, c) \in PreviewType
  BY <1>2 DEF PreviewType
<1>4. QED
  BY <1>3 DEF WithLine

LEMMA ComputeLineKeeps ==
  ASSUME BillingConstants, IInv, NEW q \in Requests, ComputeLine(q) PROVE IInv'
<1>1. req[q] \in Req /\ RequestInv(req[q]) /\ req[q].at = "compute"
  BY Types DEF IInv, RequestsInv, ComputeLine
<1>2. PICK c \in req[q].todo :
        req' = [req EXCEPT ![q] = [req[q] EXCEPT !.todo = req[q].todo \ {c},
                                                 !.lines = WithLine(req[q].lines, c)]]
  BY DEF ComputeLine
<1> DEFINE lines == WithLine(req[q].lines, c)
           m == [req[q] EXCEPT !.todo = req[q].todo \ {c}, !.lines = lines]
<1>3. /\ lines \in PreviewType
      /\ DOMAIN lines \subseteq req[q].held \cup late
      /\ \A d \in DOMAIN lines : lines[d].days = days[d] \/ d \in late
  <2>1. /\ req[q].lines \in PreviewType /\ DOMAIN req[q].lines \subseteq req[q].held \cup late
        /\ \A d \in DOMAIN req[q].lines : req[q].lines[d].days = days[d] \/ d \in late
        /\ c \in req[q].held \cup late
    BY <1>1 DEF Req, RequestInv
  <2>2. CASE c \in Billable
    <3>1. /\ lines \in PreviewType
          /\ DOMAIN lines = DOMAIN req[q].lines \cup {c} /\ lines[c] = Line(c)
          /\ \A d \in DOMAIN req[q].lines \ {c} : lines[d] = req[q].lines[d]
      BY <2>1, <2>2, LineAdded DEF IInv
    <3>2. Line(c).days = days[c]
      BY DEF Line
    <3> HIDE DEF lines
    <3>3. QED
      BY <2>1, <3>1, <3>2
  <2>3. CASE c \notin Billable
    BY <2>1, <2>3 DEF WithLine
  <2>4. QED
    BY <2>2, <2>3
<1> HIDE DEF lines
<1>4. /\ m \in Req /\ m.at = "compute" /\ m.run = req[q].run /\ m.key = req[q].key
      /\ m.todo = req[q].todo \ {c} /\ m.held = req[q].held /\ m.reply = req[q].reply
      /\ m.lines = lines
  BY <1>1, <1>3 DEF Req
<1>5. req' = [req EXCEPT ![q] = m]
  BY <1>2 DEF lines
<1> HIDE DEF m
<1>6. RequestInv(m)
  BY <1>1, <1>3, <1>4 DEF RequestInv, Holds
<1>7. req' \in [Requests -> Req] /\ RequestsInv' /\ LocksInv'
  BY <1>4, <1>5, <1>6, RequestStep DEF IInv, ComputeLine
<1>8. QED
  BY <1>7, OnlyRequests DEF ComputeLine

LEMMA CompareKeeps ==
  ASSUME BillingConstants, IInv, NEW q \in Requests, Compare(q) PROVE IInv'
<1>1. req[q] \in Req /\ RequestInv(req[q]) /\ req[q].at = "compute" /\ req[q].todo = {}
  BY Types DEF IInv, RequestsInv, Compare
<1>2. CASE SameSignature(req[q].lines, runs[req[q].run].preview)
  <2> DEFINE m == [req[q] EXCEPT !.at = "insert"]
  <2>1. /\ m \in Req /\ m.at = "insert" /\ m.run = req[q].run /\ m.key = req[q].key
        /\ m.todo = {} /\ m.held = req[q].held /\ m.reply = req[q].reply
        /\ m.lines = req[q].lines
    BY <1>1 DEF Req
  <2>2. req' = [req EXCEPT ![q] = m]
    BY <1>2 DEF Compare
  <2> HIDE DEF m
  <2>3. RequestInv(m)
    BY <1>1, <1>2, <2>1 DEF RequestInv, Holds
  <2>4. req' \in [Requests -> Req] /\ RequestsInv' /\ LocksInv'
    BY <2>1, <2>2, <2>3, RequestStep DEF IInv, Compare
  <2>5. QED
    BY <2>4, OnlyRequests DEF Compare
<1>3. CASE ~SameSignature(req[q].lines, runs[req[q].run].preview)
  <2>1. req' = Answered(q, "stale") /\ "stale" \in Answers
    BY <1>3 DEF Compare, Answers
  <2>2. req' \in [Requests -> Req] /\ RequestsInv' /\ LocksInv'
    BY <2>1, AnsweredStep DEF IInv, Compare
  <2>3. QED
    BY <2>2, OnlyRequests DEF Compare
<1>4. QED
  BY <1>2, <1>3

\* A run that no request holds, and that is not committed yet, changes.
LEMMA OtherRun ==
  ASSUME NEW p \in Requests, RequestInv(req[p]), req'[p] = req[p],
         UNCHANGED <<tariff, days, late>>,
         NEW r \in Runs, \A s \in Runs \ {r} : runs'[s] = runs[s],
         runs[r].status # "committed", Holds(req[p]) => req[p].run # r
  PROVE  RequestInv(req[p])'
<1>1. Billable' = Billable
  BY DEF Billable
<1>2. CASE req[p].run = r
  BY <1>1, <1>2 DEF RequestInv, Holds
<1>3. CASE req[p].run \in Runs \ {r}
  <2>1. runs'[req[p].run] = runs[req[p].run]
    BY <1>3
  <2>2. QED
    BY <1>1, <2>1 DEF RequestInv, Holds
<1>4. CASE req[p].run \notin Runs
  BY <1>1, <1>4 DEF RequestInv, Holds
<1>5. QED
  BY <1>2, <1>3, <1>4

\* The charges are inserted and the run is committed.
LEMMA Inserted ==
  ASSUME BillingConstants, IInv, NEW q \in Requests, req[q].at = "insert",
         NEW r \in Runs, r = req[q].run, ~AnotherCommitted(r),
         NEW lines \in PreviewType, lines = req[q].lines,
         charge' = [c \in Children |-> IF c \in DOMAIN lines THEN lines[c] ELSE charge[c]],
         runs' = [runs EXCEPT ![r] = [@ EXCEPT !.status = "committed", !.key = req[q].key]],
         req' = Answered(q, "committed"),
         UNCHANGED <<tariff, days, pending, period, ending, late>>
  PROVE  IInv' /\ Committed' = {r} /\ Committed = {} /\ \A s \in Runs : runs'[s].preview = runs[s].preview
<1>0. RequestInv(req[q]) /\ req[q] \in Req /\ runs[r] \in RunRow /\ runs[r].status = "preview"
  BY Types DEF IInv, RequestsInv, RequestInv, Holds
<1> DEFINE w == [runs[r] EXCEPT !.status = "committed", !.key = req[q].key]
<1>1. /\ w \in RunRow /\ w.status = "committed" /\ w.key = req[q].key
      /\ w.preview = runs[r].preview /\ runs' = [runs EXCEPT ![r] = w]
  BY <1>0 DEF RunRow, Req
<1> HIDE DEF w
<1>2. runs \in [Runs -> RunRow] /\ req \in [Requests -> Req]
  BY Types DEF IInv
<1>3. runs' \in [Runs -> RunRow] /\ runs'[r] = w /\ \A s \in Runs \ {r} : runs'[s] = runs[s]
  <2> DEFINE g == [runs EXCEPT ![r] = w]
  <2>1. w \in RunRow /\ runs \in [Runs -> RunRow] /\ r \in Runs
    BY <1>1, <1>2
  <2>2. g \in [Runs -> RunRow] /\ g[r] = w /\ \A s \in Runs \ {r} : g[s] = runs[s]
    BY <2>1, Replaced
  <2>3. runs' = g
    BY <1>1
  <2> HIDE DEF g
  <2>4. QED
    BY <2>2, <2>3
<1>4. Committed' = {r} /\ Committed = {}
  BY <1>0, <1>1, <1>3 DEF Committed, AnotherCommitted
<1>5. PICK m \in Req : /\ req' = [req EXCEPT ![q] = m]
                       /\ m.at = "idle" /\ m.todo = {} /\ m.held = {} /\ m.lines = NoLines
                       /\ m.reply = "committed" /\ m.run = r /\ m.key = req[q].key
  <2>1. "committed" \in Answers
    BY DEF Answers
  <2>2. QED
    BY <2>1, AnsweredRow DEF IInv
<1>6. req' \in [Requests -> Req] /\ req'[q] = m /\ \A p \in Requests \ {q} : req'[p] = req[p]
  BY <1>2, <1>5
<1>7. RequestsInv'
  <2>1. ASSUME NEW p \in Requests, p # q PROVE RequestInv(req[p])'
    <3>1. RequestInv(req[p]) /\ req'[p] = req[p] /\ req[p].held \cap req[q].held = {}
      BY <2>1, <1>6 DEF IInv, RequestsInv, LocksInv
    <3>2. r \in req[q].held
      BY <1>0 DEF RequestInv, Holds
    <3>3. Holds(req[p]) => req[p].run # r
      BY <3>1, <3>2 DEF RequestInv
    <3>4. QED
      BY <1>0, <1>3, <3>1, <3>3, OtherRun
  <2>2. RequestInv(req[q])'
    BY <1>1, <1>3, <1>5, <1>6, Types DEF RequestInv, Holds, IInv
  <2>3. QED
    BY <2>1, <2>2 DEF RequestsInv
<1>8. LocksInv'
  BY <1>5, <1>6 DEF IInv, LocksInv
<1>9. DOMAIN lines \subseteq Children /\ \A c \in DOMAIN lines : lines[c] \in LineType /\ lines[c] # NoCharge
  BY Types DEF IInv
<1>10. TypeOK'
  <2>1. charge' \in [Children -> LineType \cup {NoCharge}]
    BY <1>9 DEF IInv, TypeOK
  <2>2. pending \subseteq Charged'
    BY <1>9 DEF IInv, TypeOK, Charged
  <2>3. QED
    BY <2>1, <2>2, <1>3, <1>6 DEF IInv, TypeOK, RunRow, Req
<1>11. RunsInv' /\ \A s \in Runs : runs'[s].preview = runs[s].preview
  BY <1>1, <1>3, <1>4 DEF RunsInv
<1>12. BilledAsAttended'
  <2>1. ASSUME NEW c \in Charged' PROVE charge'[c].days = days[c] \/ c \in pending \cup late
    <3>1. CASE c \in DOMAIN lines
      BY <1>0, <1>9, <3>1 DEF RequestInv
    <3>2. CASE c \notin DOMAIN lines
      BY <3>2 DEF IInv, BilledAsAttended, Charged
    <3>3. QED
      BY <3>1, <3>2
  <2>2. QED
    BY <2>1 DEF BilledAsAttended
<1>13. QED
  BY <1>1, <1>3, <1>4, <1>7, <1>8, <1>10, <1>11, <1>12 DEF IInv

LEMMA InsertChargesKeeps ==
  ASSUME BillingConstants, IInv, NEW q \in Requests, InsertCharges(q) PROVE IInv'
<1> DEFINE r == req[q].run
           lines == Lines(q)
<1>1. r \in Runs /\ lines = req[q].lines /\ lines \in PreviewType /\ req[q].at = "insert"
  BY Types DEF IInv, RequestsInv, RequestInv, InsertCharges, Lines, Req
<1>2. CASE req' = Answered(q, "conflict") /\ UNCHANGED <<charge, runs>>
  <2>1. "conflict" \in Answers
    BY DEF Answers
  <2>2. req' \in [Requests -> Req] /\ RequestsInv' /\ LocksInv'
    BY <1>2, <2>1, AnsweredStep DEF IInv, InsertCharges
  <2>3. QED
    BY <1>2, <2>2, OnlyRequests DEF InsertCharges
<1>3. CASE /\ charge' = [c \in Children |-> IF c \in DOMAIN lines THEN lines[c] ELSE charge[c]]
           /\ runs' = [runs EXCEPT ![r] = [@ EXCEPT !.status = "committed", !.key = req[q].key]]
           /\ req' = Answered(q, "committed")
           /\ ~AnotherCommitted(r)
  BY <1>1, <1>3, Inserted DEF InsertCharges
<1>4. QED
  BY <1>2, <1>3 DEF InsertCharges

-----------------------------------------------------------------------------
\* What goes on beside the commits.

\* The requests and the runs stay, and so does the attendance of the locked
\* children; a child that gets its first tariff while a commit locks children
\* is late.
LEMMA RequestsUnmoved ==
  ASSUME BillingConstants, IInv, UNCHANGED <<req, runs>>,
         \A c \in Children : IsFree(c) \/ days'[c] = days[c],
         late \subseteq late',
         \A q \in Requests : req[q].at = "children" => Billable' \subseteq Billable \cup late'
  PROVE  RequestsInv' /\ LocksInv'
<1>1. ASSUME NEW q \in Requests PROVE RequestInv(req[q])'
  <2>1. RequestInv(req[q]) /\ req[q] \in Req
    BY Types DEF IInv, RequestsInv
  <2>2. ASSUME NEW c \in DOMAIN req[q].lines
        PROVE  req[q].lines[c].days = days'[c] \/ c \in late'
    <3>1. c \in Children /\ c \in req[q].held \cup late
      BY <2>1, Types DEF IInv, RequestInv, Req
    <3>2. c \in req[q].held => days'[c] = days[c]
      BY <3>1 DEF IsFree
    <3>3. QED
      BY <2>1, <3>1, <3>2 DEF RequestInv
  <2>3. req[q].at = "children" => Billable' \subseteq req[q].todo \cup req[q].held \cup late'
    BY <2>1 DEF RequestInv
  <2>4. DOMAIN req[q].lines \subseteq req[q].held \cup late'
        /\ req[q].at = "compute" => req[q].todo \subseteq req[q].held \cup late'
    BY <2>1 DEF RequestInv
  <2>5. QED
    BY <2>1, <2>2, <2>3, <2>4 DEF RequestInv, Holds
<1>2. QED
  BY <1>1 DEF IInv, RequestsInv, LocksInv

\* The attendance of a child that no commit has locked changes, or its charge.
LEMMA AttendanceKeeps ==
  ASSUME BillingConstants, IInv, NEW c \in Children, IsFree(c), NEW d \in Days,
         days' = [days EXCEPT ![c] = d],
         UNCHANGED <<tariff, period, runs, req, ending, late>>,
         \/ charge[c] # NoCharge /\ pending' = pending \cup {c} /\ UNCHANGED charge
         \/ charge' = recalculated(c, d) /\ pending' \in {pending, pending \ {c}}
  PROVE  IInv'
<1>1. days' \in [Children -> Days] /\ days'[c] = d /\ \A b \in Children \ {c} : days'[b] = days[b]
  BY DEF IInv, TypeOK
<1>2. RequestsInv' /\ LocksInv'
  BY <1>1, RequestsUnmoved DEF Billable
<1>3. charge' \in [Children -> LineType \cup {NoCharge}]
      /\ \A b \in Children : /\ (charge'[b] = NoCharge) = (charge[b] = NoCharge)
                             /\ b # c => charge'[b] = charge[b]
                             /\ b = c /\ charge[b] # NoCharge => charge'[b].days = d \/ b \in pending'
  <2>1. charge \in [Children -> LineType \cup {NoCharge}] /\ NoCharge \notin LineType
    BY Types DEF IInv, TypeOK
  <2>2. CASE charge[c] = NoCharge
    BY <2>1, <2>2 DEF recalculated
  <2>3. CASE charge[c] # NoCharge
    <3> DEFINE l == [charge[c] EXCEPT !.days = d]
    <3>1. l \in LineType /\ l.days = d
      BY <2>1, <2>3 DEF LineType
    <3>2. CASE charge' = recalculated(c, d)
      <4>1. charge' = [charge EXCEPT ![c] = l]
        BY <2>3, <3>2 DEF recalculated
      <4> HIDE DEF l
      <4>2. QED
        BY <2>1, <2>3, <3>1, <4>1
    <3>3. CASE pending' = pending \cup {c} /\ UNCHANGED charge
      BY <2>1, <3>3
    <3>4. QED
      BY <3>2, <3>3
  <2>4. QED
    BY <2>2, <2>3
<1>4. Charged' = Charged
  BY <1>3 DEF Charged
<1>5. TypeOK'
  <2>1. pending' \subseteq Charged'
    BY <1>4 DEF IInv, TypeOK, Charged
  <2>2. QED
    BY <1>1, <1>3, <2>1 DEF IInv, TypeOK
<1>6. RunsInv'
  BY <1>4 DEF IInv, RunsInv, Committed
<1>7. BilledAsAttended'
  <2>1. ASSUME NEW b \in Charged', b # c PROVE charge'[b].days = days'[b] \/ b \in pending' \cup late
    <3>1. charge[b].days = days[b] \/ b \in pending \cup late
      BY <2>1, <1>4 DEF IInv, BilledAsAttended
    <3>2. QED
      BY <2>1, <3>1, <1>1, <1>3 DEF Charged
  <2>2. QED
    BY <2>1, <1>1, <1>3, <1>4 DEF BilledAsAttended, Charged
<1>8. QED
  BY <1>2, <1>5, <1>6, <1>7 DEF IInv

LEMMA recordAttendanceKeeps ==
  ASSUME BillingConstants, IInv, NEW c \in Children, NEW d \in Days, recordAttendance(c, d)
  PROVE  IInv'
<1>1. \/ charge[c] # NoCharge /\ pending' = pending \cup {c} /\ UNCHANGED charge
      \/ charge' = recalculated(c, d) /\ pending' \in {pending, pending \ {c}}
  BY DEF recordAttendance
<1>2. IsFree(c) /\ days' = [days EXCEPT ![c] = d] /\ UNCHANGED <<tariff, period, runs, req, ending, late>>
  BY DEF recordAttendance
<1>3. QED
  BY <1>1, <1>2, AttendanceKeeps

LEMMA resolveKeeps ==
  ASSUME BillingConstants, IInv, NEW c \in Children, resolve(c) PROVE IInv'
<1>1. days[c] \in Days /\ days = [days EXCEPT ![c] = days[c]]
  BY DEF IInv, TypeOK
<1>2. /\ IsFree(c) /\ days' = [days EXCEPT ![c] = days[c]]
      /\ UNCHANGED <<tariff, period, runs, req, ending, late>>
      /\ charge' = recalculated(c, days[c]) /\ pending' \in {pending, pending \ {c}}
  BY <1>1 DEF resolve
<1>3. QED
  BY <1>1, <1>2, AttendanceKeeps

\* The tariff of a child changes.
LEMMA TariffKeeps ==
  ASSUME BillingConstants, IInv, NEW c \in Children, NEW t \in Tariffs \cup {NoTariff},
         Retariff(c, t), ending' \in [Editors -> Children \cup {NoChild}],
         UNCHANGED <<days, charge, pending, period, runs, req>>
  PROVE  IInv'
<1>1. tariff' \in [Children -> Tariffs \cup {NoTariff}] /\ tariff'[c] = t
      /\ \A b \in Children \ {c} : tariff'[b] = tariff[b]
  BY DEF IInv, TypeOK, Retariff
<1>2. late \subseteq late' /\ late' \in SUBSET Children
  BY DEF IInv, TypeOK, Retariff
<1>3. ASSUME NEW q \in Requests, req[q].at = "children"
      PROVE  Billable' \subseteq Billable \cup late'
  BY <1>1, <1>3 DEF Billable, Retariff
<1>4. RequestsInv' /\ LocksInv'
  BY <1>2, <1>3, RequestsUnmoved
<1>5. RunsInv'
  BY DEF IInv, RunsInv, Committed, Charged
<1>6. TypeOK' /\ BilledAsAttended'
  BY <1>1, <1>2 DEF IInv, TypeOK, BilledAsAttended, Charged
<1>7. QED
  BY <1>4, <1>5, <1>6 DEF IInv

LEMMA assignKeeps ==
  ASSUME BillingConstants, IInv, NEW c \in Children, NEW t \in Tariffs \cup {NoTariff},
         assignToChild(c, t) \/ assignEarlier(c, t)
  PROVE  IInv'
<1>1. ending' \in [Editors -> Children \cup {NoChild}]
  BY DEF IInv, TypeOK, assignToChild, assignEarlier
<1>2. QED
  BY <1>1, TariffKeeps DEF assignToChild, assignEarlier

LEMMA EndAssignmentKeeps ==
  ASSUME BillingConstants, IInv, NEW e \in Editors, EndAssignment(e) PROVE IInv'
<1>1. ending[e] \in Children /\ ending' \in [Editors -> Children \cup {NoChild}]
  BY DEF IInv, TypeOK, EndAssignment
<1>2. PICK t \in Tariffs : Retariff(ending[e], t)
  BY DEF EndAssignment
<1>3. QED
  BY <1>1, <1>2, TariffKeeps DEF EndAssignment

LEMMA EndElsewhereKeeps ==
  ASSUME BillingConstants, IInv, NEW c \in Children, EndElsewhere(c) PROVE IInv'
<1>1. ending' \in [Editors -> Children \cup {NoChild}]
  BY DEF IInv, TypeOK, EndElsewhere
<1>2. PICK t \in Tariffs \cup {NoTariff} : Retariff(c, t)
  BY DEF EndElsewhere
<1>3. QED
  BY <1>1, <1>2, TariffKeeps DEF EndElsewhere

\* Neither the requests nor what they read changes.
LEMMA Aside ==
  ASSUME BillingConstants, IInv, TypeOK',
         UNCHANGED <<tariff, days, charge, pending, runs, req, late>>
  PROVE  IInv'
<1>1. RequestsInv' /\ LocksInv'
  BY RequestsUnmoved DEF Billable
<1>2. RunsInv' /\ BilledAsAttended'
  BY DEF IInv, RunsInv, BilledAsAttended, Committed, Charged
<1>3. QED
  BY <1>1, <1>2 DEF IInv

LEMMA CheckAssignmentKeeps ==
  ASSUME BillingConstants, IInv, NEW e \in Editors, NEW c \in Children, CheckAssignment(e, c)
  PROVE  IInv'
<1>1. TypeOK'
  BY DEF IInv, TypeOK, CheckAssignment, Charged
<1>2. QED
  BY <1>1, Aside DEF CheckAssignment

LEMMA PeriodKeeps ==
  ASSUME BillingConstants, IInv, close \/ reopen PROVE IInv'
<1>1. TypeOK'
  BY DEF IInv, TypeOK, close, reopen, Charged
<1>2. QED
  BY <1>1, Aside DEF close, reopen

\* A run that is not committed changes, and does not become committed.
LEMMA RunKeeps ==
  ASSUME BillingConstants, IInv, NEW r \in Runs, NEW w \in RunRow,
         runs' = [runs EXCEPT ![r] = w], runs[r].status # "committed", w.status # "committed",
         \A q \in Requests : Holds(req[q]) => req[q].run # r,
         UNCHANGED <<tariff, days, charge, pending, period, req, ending, late>>
  PROVE  IInv'
<1>1. runs' \in [Runs -> RunRow] /\ runs'[r] = w /\ \A s \in Runs \ {r} : runs'[s] = runs[s]
  <2>1. runs \in [Runs -> RunRow]
    BY Types DEF IInv
  <2>2. QED
    BY <2>1
<1>2. RequestsInv' /\ LocksInv'
  BY <1>1, OtherRun DEF IInv, RequestsInv, LocksInv
<1>3. Committed' = Committed
  BY <1>1 DEF Committed
<1>4. RunsInv'
  BY <1>3 DEF IInv, RunsInv, Charged
<1>5. TypeOK' /\ BilledAsAttended'
  BY <1>1 DEF IInv, TypeOK, RunRow, BilledAsAttended, Charged
<1>6. QED
  BY <1>2, <1>4, <1>5 DEF IInv

LEMMA previewKeeps ==
  ASSUME BillingConstants, IInv, NEW r \in Runs, preview(r) PROVE IInv'
<1> DEFINE w == [status |-> "preview", preview |-> computeAllLines, key |-> NoKey]
<1>1. w \in RunRow /\ w.status # "committed"
  BY Types DEF IInv, RunRow
<1>2. ASSUME NEW q \in Requests, Holds(req[q]) PROVE req[q].run # r
  BY <1>2 DEF IInv, RequestsInv, RequestInv, preview
<1>3. runs' = [runs EXCEPT ![r] = w] /\ runs[r].status # "committed"
      /\ UNCHANGED <<tariff, days, charge, pending, period, req, ending, late>>
  BY DEF preview
<1> HIDE DEF w
<1>4. QED
  BY <1>1, <1>2, <1>3, RunKeeps

LEMMA discardKeeps ==
  ASSUME BillingConstants, IInv, NEW r \in Runs, discard(r) PROVE IInv'
<1> DEFINE w == [runs[r] EXCEPT !.status = "discarded"]
<1>1. w \in RunRow /\ w.status # "committed"
  <2>1. runs[r] \in RunRow
    BY Types DEF IInv
  <2>2. QED
    BY <2>1 DEF RunRow
<1>2. ASSUME NEW q \in Requests, Holds(req[q]) PROVE req[q].run # r
  BY <1>2 DEF IInv, RequestsInv, RequestInv, discard, IsFree
<1>3. runs' = [runs EXCEPT ![r] = w] /\ runs[r].status # "committed"
      /\ UNCHANGED <<tariff, days, charge, pending, period, req, ending, late>>
  BY DEF discard
<1> HIDE DEF w
<1>4. QED
  BY <1>1, <1>2, <1>3, RunKeeps

-----------------------------------------------------------------------------
\* The invariant.

LEMMA IInvInit == ASSUME BillingConstants, Init PROVE IInv
<1> DEFINE row == [status |-> "none", preview |-> NoLines, key |-> NoKey]
           m == [at |-> "idle", run |-> NoRun, key |-> NoKey, todo |-> {}, held |-> {},
                 lines |-> NoLines, reply |-> "none"]
<1>1. row \in RunRow /\ row.status = "none" /\ NoLines \in PreviewType /\ DOMAIN NoLines = {}
  <2>1. NoLines \in [{} -> LineType]
    BY DEF NoLines
  <2>2. NoLines \in PreviewType /\ DOMAIN NoLines = {}
    BY <2>1 DEF PreviewType
  <2>3. QED
    BY <2>2 DEF RunRow
<1>2. m \in Req /\ m.at = "idle" /\ m.held = {} /\ m.todo = {} /\ m.lines = NoLines
      /\ m.reply = "none"
  BY <1>1 DEF Req, Answers
<1>3. /\ \A r \in Runs : runs[r] = row
      /\ \A q \in Requests : req[q] = m
      /\ runs = [r \in Runs |-> row] /\ req = [q \in Requests |-> m]
  BY DEF Init
<1> HIDE DEF row, m
<1>4. Charged = {} /\ Committed = {}
  BY <1>1, <1>3 DEF Init, Charged, Committed
<1>5. TypeOK
  BY <1>1, <1>2, <1>3, <1>4 DEF Init, TypeOK, RunRow, Req
<1>6. RunsInv /\ BilledAsAttended
  BY <1>1, <1>3, <1>4 DEF RunsInv, BilledAsAttended
<1>7. RequestsInv /\ LocksInv
  BY <1>1, <1>2, <1>3 DEF RequestsInv, RequestInv, LocksInv, Holds
<1>8. QED
  BY <1>5, <1>6, <1>7 DEF IInv

LEMMA IInvNext == ASSUME BillingConstants, IInv, [Next]_vars PROVE IInv'
<1>1. ASSUME NEW r \in Runs, preview(r) \/ discard(r) PROVE IInv'
  BY <1>1, previewKeeps, discardKeeps
<1>2. ASSUME NEW q \in Requests, \E r \in Runs, k \in Keys : Start(q, r, k) PROVE IInv'
  BY <1>2, StartKeeps
<1>3. ASSUME NEW q \in Requests,
             \/ LockRun(q) \/ LockChild(q) \/ ListAgain(q) \/ ComputeLine(q)
             \/ Compare(q) \/ InsertCharges(q) \/ Fail(q)
      PROVE  IInv'
  BY <1>3, LockRunKeeps, LockChildKeeps, ListAgainKeeps, ComputeLineKeeps, CompareKeeps,
     InsertChargesKeeps, FailKeeps
<1>4. ASSUME NEW c \in Children,
             \/ \E d \in Days : recordAttendance(c, d)
             \/ \E t \in Tariffs : assignToChild(c, t)
             \/ \E t \in Tariffs \cup {NoTariff} : assignEarlier(c, t)
             \/ EndElsewhere(c)
             \/ resolve(c)
      PROVE  IInv'
  BY <1>4, recordAttendanceKeeps, assignKeeps, EndElsewhereKeeps, resolveKeeps
<1>5. ASSUME NEW e \in Editors, EndAssignment(e) \/ \E c \in Children : CheckAssignment(e, c)
      PROVE  IInv'
  BY <1>5, EndAssignmentKeeps, CheckAssignmentKeeps
<1>6. CASE close \/ reopen
  BY <1>6, PeriodKeeps
<1>7. CASE UNCHANGED vars
  <2>1. TypeOK'
    BY <1>7 DEF vars, IInv, TypeOK, Charged
  <2>2. QED
    BY <1>7, <2>1, Aside DEF vars
<1>8. QED
  BY <1>1, <1>2, <1>3, <1>4, <1>5, <1>6, <1>7 DEF Next

\* The invariant above holds of every state the system reaches.
THEOREM Inductive == ASSUME BillingConstants PROVE Spec => []IInv
<1>1. Init => IInv
  BY IInvInit
<1>2. IInv /\ [Next]_vars => IInv'
  BY IInvNext
<1>3. QED
  BY <1>1, <1>2, PTL DEF Spec

-----------------------------------------------------------------------------
\* One run of a period is committed, and a client that is told that its commit
\* succeeded has that run, under its own key (commit, its replay by
\* idempotency key and index uq_billing_run_committed).
THEOREM AnswersAreHonest == ASSUME BillingConstants PROVE Spec => []ReplayIsHonest
<1>1. ASSUME IInv PROVE ReplayIsHonest
  <2>1. Cardinality(Committed) <= 1
    <3>1. \A r, s \in Committed : r = s
      BY <1>1 DEF IInv, RunsInv
    <3>2. CASE Committed = {}
      BY <3>2, FS_EmptySet
    <3>3. CASE Committed # {}
      <4>1. PICK r \in Committed : Committed = {r}
        BY <3>1, <3>3
      <4>2. Cardinality({r}) = 1
        BY FS_Singleton
      <4>3. QED
        BY <4>1, <4>2
    <3>4. QED
      BY <3>2, <3>3
  <2>2. QED
    BY <1>1, <2>1 DEF ReplayIsHonest, IInv, RequestsInv, RequestInv
<1>2. QED
  BY <1>1, Inductive, PTL

\* A charge comes to what the recorded attendance gives, or its correction
\* waits for somebody, whatever is recorded while a run commits and whatever
\* becomes of the tariffs; but for children with a late tariff.
THEOREM AttendanceIsBilled == ASSUME BillingConstants PROVE Spec => []BilledAsAttended
<1>1. IInv => BilledAsAttended
  BY DEF IInv
<1>2. QED
  BY <1>1, Inductive, PTL

\* A run charges exactly what its preview showed: the children, what each is
\* charged and its days, although it charges lines computed afresh.
THEOREM RunsChargeTheirPreview == ASSUME BillingConstants PROVE Spec => ChargedAsPreviewed
<1> DEFINE Shows(r) == LET shown == runs[r].preview
                       IN \A c \in Children :
                            IF c \in DOMAIN shown
                            THEN /\ charge'[c] # NoCharge
                                 /\ Price[charge'[c].tariff] = Price[shown[c].tariff]
                                 /\ charge'[c].days = shown[c].days
                            ELSE charge'[c] = charge[c]
           AsPreviewed == \A r \in Runs : r \in Committed' \ Committed => Shows(r)
<1>1. ASSUME BillingConstants, IInv, Next PROVE AsPreviewed
  <2>1. ASSUME NEW q \in Requests, InsertCharges(q) PROVE AsPreviewed
    <3> DEFINE w == req[q].run
               lines == Lines(q)
    <3>1. CASE UNCHANGED runs
      BY <3>1 DEF Committed
    <3>2. CASE /\ runs' = [runs EXCEPT ![w] = [@ EXCEPT !.status = "committed", !.key = req[q].key]]
               /\ charge' = [c \in Children |-> IF c \in DOMAIN lines THEN lines[c] ELSE charge[c]]
      <4>1. \A r \in Runs \ {w} : runs'[r] = runs[r]
        BY <3>2, <1>1 DEF IInv, TypeOK
      <4>2. /\ SameSignature(lines, runs[w].preview)
            /\ \A c \in DOMAIN lines : lines[c] # NoCharge
        BY <1>1, <2>1, Types DEF IInv, RequestsInv, RequestInv, InsertCharges, Lines, Req
      <4> HIDE DEF lines
      <4>3. Shows(w)
        BY <3>2, <4>2 DEF SameSignature
      <4> HIDE DEF Shows
      <4>4. QED
        BY <4>1, <4>3 DEF Committed
    <3>3. QED
      BY <2>1, <3>1, <3>2 DEF InsertCharges
  <2>2. ASSUME NEW r \in Runs, preview(r) \/ discard(r) PROVE Committed' \subseteq Committed
    <3>1. \A s \in Runs \ {r} : runs'[s] = runs[s]
      BY <1>1, <2>2 DEF IInv, TypeOK, preview, discard
    <3>2. runs'[r].status # "committed"
      BY <1>1, <2>2 DEF IInv, TypeOK, preview, discard
    <3>3. QED
      BY <3>1, <3>2 DEF Committed
  <2>3. CASE UNCHANGED runs
    BY <2>3 DEF Committed
  <2>4. QED
    BY <1>1, <2>1, <2>2, <2>3 DEF Next, Start, LockRun, LockChild, Locking, ListAgain, ComputeLine,
       Compare, Fail, recordAttendance, assignToChild, assignEarlier, resolve, EndElsewhere,
       EndAssignment, CheckAssignment, close, reopen
<1>2. BillingConstants /\ IInv /\ [Next]_vars => [AsPreviewed]_vars
  BY <1>1
<1>3. QED
  BY <1>2, Inductive, PTL DEF Spec, ChargedAsPreviewed

-----------------------------------------------------------------------------
\* Commits never wait in a circle.

\* A set of numbers that is not empty has a first one, and a last one if it is
\* finite.
LEMMA First ==
  ASSUME NEW T \in SUBSET Nat, T # {}
  PROVE  \E x \in T : \A y \in T : x <= y
<1> DEFINE R == {ss \in Nat \X Nat : ss[1] < ss[2]}
<1>1. IsWellFoundedOn(R, Nat)
  BY NatLessThanWellFounded DEF OpToRel
<1> HIDE DEF R
<1>2. PICK x \in T : \A y \in T : ~(<<y, x>> \in R)
  BY <1>1, WFMin
<1>3. ASSUME NEW y \in T PROVE x <= y
  <2>1. x \in Nat /\ y \in Nat
    OBVIOUS
  <2>2. ~(y < x)
    BY <1>2, <2>1 DEF R
  <2>3. QED
    BY <2>1, <2>2
<1>4. QED
  BY <1>3

LEMMA Last ==
  ASSUME NEW T \in SUBSET Nat, T # {}, IsFiniteSet(T)
  PROVE  \E x \in T : \A y \in T : y <= x
<1> DEFINE After(x) == {y \in T : x < y}
           R == StrictSubsetOrdering(T)
           Tails == {After(x) : x \in T}
<1>1. IsWellFoundedOn(R, SUBSET T)
  BY FS_StrictSubsetOrderingWellFounded, FS_FiniteSubsetsOfFinite
<1>2. Tails \subseteq SUBSET T /\ Tails # {}
  OBVIOUS
<1>3. PICK tail \in Tails : \A other \in Tails : ~(<<other, tail>> \in R)
  <2> HIDE DEF Tails, R
  <2> QED BY <1>1, <1>2, WFMin
<1>4. PICK x \in T : tail = After(x)
  OBVIOUS
<1>5. ASSUME NEW y \in T, x < y PROVE FALSE
  <2>1. After(y) \subseteq After(x)
    <3>1. ASSUME NEW z \in T, y < z PROVE x < z
      <4>1. x \in Nat /\ y \in Nat /\ z \in Nat
        OBVIOUS
      <4>2. QED
        BY <1>5, <3>1, <4>1
    <3>2. QED
      BY <3>1
  <2>2. y \in After(x) /\ y \notin After(y)
    BY <1>5
  <2>3. After(y) \in Tails /\ After(x) \in SUBSET T /\ After(y) \in SUBSET T
    OBVIOUS
  <2> HIDE DEF After
  <2>4. <<After(y), tail>> \in R
    BY <1>4, <2>1, <2>2, <2>3 DEF StrictSubsetOrdering
  <2>5. QED
    BY <1>3, <2>3, <2>4
<1>6. QED
  BY <1>5

\* A commit that has locked its children waits for nobody but over late ones;
\* and if none has, the request that waits for the last child does not wait for
\* another commit: who holds that child is about to lock a later one.
LEMMA SomeCommitProceeds == ASSUME BillingConstants, IInv PROVE CommitsNeverDeadlock
<1> DEFINE Busy == {q \in Requests : req[q].at # "idle"}
           Goes(q) == \A p \in Requests \ {q} : Wanted(q) \cap req[p].held \subseteq late
           Locking_ == {q \in Busy : req[q].at = "children"}
           Next_ == {c \in Children : \E q \in Locking_ : c \in Wanted(q)}
<1>1. ASSUME NEW q \in Requests
      PROVE  /\ RequestInv(req[q]) /\ req[q] \in Req
             /\ req[q].at = "run" => Wanted(q) = {req[q].run}
             /\ req[q].at = "children" =>
                  Wanted(q) = {c \in req[q].todo : \A d \in req[q].todo : c <= d}
             /\ req[q].at = "compute" => Wanted(q) = {}
             /\ req[q].at = "insert" => Wanted(q) \subseteq late
  <2>1. RequestInv(req[q]) /\ req[q] \in Req
    BY Types DEF IInv, RequestsInv
  <2>2. DOMAIN Lines(q) \subseteq req[q].held \cup late
    BY <2>1 DEF RequestInv, Lines
  <2>3. QED
    BY <2>1, <2>2 DEF Wanted
<1>2. SUFFICES ASSUME Busy # {} PROVE \E q \in Busy : Goes(q)
  BY DEF CommitsNeverDeadlock
<1>3. CASE \E q \in Busy : Wanted(q) \subseteq late
  BY <1>3
<1>4. CASE \A q \in Busy : ~(Wanted(q) \subseteq late)
  <2>1. \A q \in Busy : req[q].at \in {"run", "children"}
    BY <1>1, <1>4 DEF Req
  <2>2. CASE Locking_ = {}
    <3>1. PICK q \in Busy : TRUE
      BY <1>2
    <3>2. \A p \in Requests : req[p].held = {}
      BY <1>1, <2>1, <2>2 DEF RequestInv, Holds
    <3>3. QED
      BY <3>1, <3>2
  <2>3. CASE Locking_ # {}
    <3>1. ASSUME NEW q \in Locking_
          PROVE  /\ q \in Requests /\ req[q].todo \subseteq Children
                 /\ Wanted(q) = {c \in req[q].todo : \A d \in req[q].todo : c <= d}
                 /\ Wanted(q) # {}
      BY <1>1, <1>4 DEF Req
    <3>2. Next_ # {} /\ Next_ \in SUBSET Nat /\ IsFiniteSet(Next_)
      <4>1. Next_ # {}
        BY <2>3, <3>1
      <4>2. QED
        BY <4>1, FS_Subset DEF BillingConstants
    <3>3. PICK last \in Next_ : \A c \in Next_ : c <= last
      <4> HIDE DEF Next_
      <4> QED BY <3>2, Last
    <3>4. PICK q \in Locking_ : last \in Wanted(q)
      BY <3>3
    <3>5. \A c \in Wanted(q) : c = last
      BY <3>1, <3>2, <3>3, <3>4 DEF BillingConstants
    <3>6. ASSUME NEW p \in Requests \ {q}, last \in req[p].held PROVE FALSE
      <4>1. p \in Locking_
        BY <1>1, <2>1, <3>6 DEF RequestInv, Holds
      <4>2. PICK c \in Wanted(p) : TRUE
        BY <3>1, <4>1
      <4>3. c \in Next_ /\ c \in req[p].todo /\ last \in Children
        BY <3>1, <4>1, <4>2
      <4>4. last < c /\ last \in Nat /\ c \in Nat
        BY <1>1, <3>6, <4>1, <4>3 DEF RequestInv, BillingConstants
      <4>5. QED
        BY <3>3, <4>3, <4>4
    <3>7. Goes(q)
      BY <3>5, <3>6
    <3>8. QED
      BY <3>7
  <2>4. QED
    BY <2>2, <2>3
<1>5. QED
  BY <1>3, <1>4

\* Commits never all wait for each other, however many children there are to
\* lock and whatever becomes of them meanwhile.
THEOREM CommitsProceed == ASSUME BillingConstants PROVE Spec => []CommitsNeverDeadlock
<1>1. IInv => CommitsNeverDeadlock
  BY SomeCommitProceeds
<1>2. QED
  BY <1>1, Inductive, PTL

-----------------------------------------------------------------------------
\* The refinement of PeriodBilling.

\* The lines each request has computed.
Reading == [q \in Requests |-> req[q].lines]

\* Request q becomes m.
LEMMA ReadingStep ==
  ASSUME BillingConstants, IInv, NEW q \in Requests, NEW m \in Req, req' = [req EXCEPT ![q] = m]
  PROVE  Reading' = [Reading EXCEPT ![q] = m.lines] /\ Reading[q] = req[q].lines
<1>1. req'[q] = m /\ \A p \in Requests \ {q} : req'[p] = req[p]
  BY Types DEF IInv
<1>2. \A p \in Requests : req'[p].lines = IF p = q THEN m.lines ELSE req[p].lines
  BY <1>1
<1>3. Reading' = [p \in Requests |-> IF p = q THEN m.lines ELSE req[p].lines]
  BY <1>2, Zenon DEF Reading
<1>4. [Reading EXCEPT ![q] = m.lines] = [p \in Requests |-> IF p = q THEN m.lines ELSE req[p].lines]
  BY DEF Reading
<1>5. Reading[q] = req[q].lines
  BY DEF Reading
<1>6. QED
  BY <1>3, <1>4, <1>5

LEMMA NothingIsNoLines == NoLines = Promise!Nothing
BY DEF NoLines, Promise!Nothing

\* A request that is answered forgets its lines.
LEMMA Forgets ==
  ASSUME BillingConstants, IInv, NEW q \in Requests, NEW reply, reply \in Answers,
         req' = Answered(q, reply), UNCHANGED <<tariff, days, charge, runs, late>>
  PROVE  [Promise!Next]_Promise!vars
<1>1. PICK m \in Req : req' = [req EXCEPT ![q] = m] /\ m.lines = NoLines
  BY AnsweredRow DEF IInv
<1>2. Reading' = [Reading EXCEPT ![q] = Promise!Nothing]
  <2>1. Reading' = [Reading EXCEPT ![q] = m.lines]
    BY <1>1, ReadingStep
  <2>2. m.lines = Promise!Nothing
    BY <1>1, NothingIsNoLines
  <2>3. QED
    BY <2>1, <2>2, Zenon
<1>3. Promise!Forget(q)
  BY <1>2 DEF Promise!Forget, Committed, Reading
<1>4. QED
  BY <1>3 DEF Promise!Next

\* A request whose lines stay, whatever else becomes of it.
LEMMA LinesStay ==
  ASSUME BillingConstants, IInv, NEW q \in Requests, NEW m \in Req, req' = [req EXCEPT ![q] = m],
         m.lines = req[q].lines, UNCHANGED <<tariff, days, charge, runs, late>>
  PROVE  UNCHANGED Promise!vars
<1>1. req' \in [Requests -> Req] /\ req'[q] = m /\ \A p \in Requests \ {q} : req'[p] = req[p]
  BY Types DEF IInv
<1>2. Reading' = Reading
  BY <1>1 DEF Reading
<1>3. QED
  BY <1>2 DEF Reading, Promise!vars, Committed

LEMMA StartRefines ==
  ASSUME BillingConstants, IInv, NEW q \in Requests, NEW r \in Runs, NEW k \in Keys, Start(q, r, k)
  PROVE  UNCHANGED Promise!vars
<1> DEFINE call(at, reply) == [at |-> at, run |-> r, key |-> k, todo |-> {}, held |-> {},
                               lines |-> NoLines, reply |-> reply]
<1>1. ASSUME NEW at \in {"idle", "run"}, NEW reply \in {"none", "replayed", "conflict", "closed"}
      PROVE  call(at, reply) \in Req /\ call(at, reply).lines = NoLines
  BY Types DEF Req, IInv, Answers
<1>2. PICK at \in {"idle", "run"}, reply \in {"none", "replayed", "conflict", "closed"} :
        req' = [req EXCEPT ![q] = call(at, reply)]
  <2>1. \/ req' = [req EXCEPT ![q] = call("run", "none")]
        \/ req' = [req EXCEPT ![q] = call("idle", "replayed")]
        \/ req' = [req EXCEPT ![q] = call("idle", "conflict")]
        \/ req' = [req EXCEPT ![q] = call("idle", "closed")]
    BY DEF Start
  <2> HIDE DEF call
  <2>2. QED
    BY <2>1
<1>3. req[q].lines = NoLines /\ UNCHANGED <<tariff, days, charge, runs, late>>
  BY DEF IInv, RequestsInv, RequestInv, Holds, Start
<1> HIDE DEF call
<1>4. QED
  BY <1>1, <1>2, <1>3, LinesStay

LEMMA LockRefines ==
  ASSUME BillingConstants, IInv, NEW q \in Requests, LockRun(q) \/ LockChild(q) \/ ListAgain(q)
  PROVE  [Promise!Next]_Promise!vars
<1>1. req[q] \in Req /\ UNCHANGED <<tariff, days, charge, runs, late>>
  BY Types DEF IInv, LockRun, LockChild, Locking, ListAgain
<1>2. ASSUME NEW reply \in {"replayed", "conflict"}, req' = Answered(q, reply)
      PROVE  [Promise!Next]_Promise!vars
  <2>1. reply \in Answers
    BY DEF Answers
  <2>2. QED
    BY <1>1, <1>2, <2>1, Forgets
<1>3. Billable \subseteq Children /\ req[q].held \subseteq Runs \cup Children
      /\ req[q].todo \subseteq Children
  BY <1>1, Types DEF IInv, Req
<1>4. CASE LockRun(q)
  <2>1. req[q].run \in Runs
    BY <1>4 DEF IInv, RequestsInv, RequestInv, LockRun
  <2>2. CASE req' = [req EXCEPT ![q] = [@ EXCEPT !.at = "children", !.todo = Billable,
                                                 !.held = {req[q].run}]]
    <3> DEFINE m == [req[q] EXCEPT !.at = "children", !.todo = Billable, !.held = {req[q].run}]
    <3>1. m \in Req /\ m.lines = req[q].lines
      BY <1>1, <1>3, <2>1 DEF Req
    <3>2. req' = [req EXCEPT ![q] = m]
      BY <2>2
    <3> HIDE DEF m
    <3>3. QED
      BY <1>1, <3>1, <3>2, LinesStay
  <2>3. QED
    BY <1>2, <1>4, <2>2 DEF LockRun
<1>5. CASE LockChild(q)
  <2>1. PICK c \in req[q].todo : Locking(q, c)
    BY <1>5 DEF LockChild
  <2> DEFINE m == [req[q] EXCEPT !.todo = req[q].todo \ {c}, !.held = req[q].held \cup {c}]
  <2>2. m \in Req /\ m.lines = req[q].lines
    BY <1>1, <1>3 DEF Req
  <2>3. req' = [req EXCEPT ![q] = m]
    BY <2>1 DEF Locking
  <2> HIDE DEF m
  <2>4. QED
    BY <1>1, <2>2, <2>3, LinesStay
<1>6. CASE ListAgain(q)
  <2> DEFINE m == [req[q] EXCEPT !.at = "compute", !.todo = Billable]
  <2>1. m \in Req /\ m.lines = req[q].lines
    BY <1>1, <1>3 DEF Req
  <2>2. req' = [req EXCEPT ![q] = m]
    BY <1>6 DEF ListAgain
  <2> HIDE DEF m
  <2>3. QED
    BY <1>1, <2>1, <2>2, LinesStay
<1>7. QED
  BY <1>4, <1>5, <1>6

LEMMA ComputeLineRefines ==
  ASSUME BillingConstants, IInv, NEW q \in Requests, ComputeLine(q)
  PROVE  [Promise!Next]_Promise!vars
<1>1. PICK c \in req[q].todo :
        req' = [req EXCEPT ![q] = [req[q] EXCEPT !.todo = req[q].todo \ {c},
                                                 !.lines = WithLine(req[q].lines, c)]]
  BY DEF ComputeLine
<1>2. req[q] \in Req /\ req[q].lines \in PreviewType /\ c \in Children
      /\ UNCHANGED <<tariff, days, charge, runs, late>>
  BY Types DEF IInv, Req, ComputeLine
<1> DEFINE lines == WithLine(req[q].lines, c)
           m == [req[q] EXCEPT !.todo = req[q].todo \ {c}, !.lines = lines]
<1>3. lines \in PreviewType
  <2>1. CASE c \in Billable
    BY <1>2, <2>1, LineAdded DEF IInv
  <2>2. CASE c \notin Billable
    BY <1>2, <2>2 DEF WithLine
  <2>3. QED
    BY <2>1, <2>2
<1>4. m \in Req /\ m.lines = lines
  <2> HIDE DEF lines
  <2> QED BY <1>2, <1>3 DEF Req
<1>5. req' = [req EXCEPT ![q] = m]
  BY <1>1
<1>6. CASE c \notin Billable
  <2>1. m.lines = req[q].lines
    BY <1>4, <1>6 DEF WithLine
  <2> HIDE DEF m
  <2>2. QED
    BY <1>2, <1>4, <1>5, <2>1, LinesStay
<1>7. CASE c \in Billable
  <2>1. m.lines = WithLine(req[q].lines, c)
    BY <1>4, <1>7
  <2> HIDE DEF m
  <2>2. Reading' = [Reading EXCEPT ![q] = WithLine(Reading[q], c)]
    BY <1>4, <1>5, <2>1, ReadingStep
  <2>3. Promise!Note(q, c)
    BY <1>2, <1>7, <2>2
       DEF Promise!Note, Promise!Line, WithLine, Line, Billable, Committed, Reading
  <2>4. QED
    BY <1>2, <2>3 DEF Promise!Next
<1>8. QED
  BY <1>6, <1>7

LEMMA CompareRefines ==
  ASSUME BillingConstants, IInv, NEW q \in Requests, Compare(q)
  PROVE  [Promise!Next]_Promise!vars
<1>1. req[q] \in Req /\ UNCHANGED <<tariff, days, charge, runs, late>>
  BY Types DEF IInv, Compare
<1>2. CASE req' = Answered(q, "stale")
  BY <1>1, <1>2, Forgets DEF Answers
<1>3. CASE req' = [req EXCEPT ![q].at = "insert"]
  <2> DEFINE m == [req[q] EXCEPT !.at = "insert"]
  <2>1. m \in Req /\ m.lines = req[q].lines
    BY <1>1 DEF Req
  <2>2. req' = [req EXCEPT ![q] = m]
    BY <1>3
  <2> HIDE DEF m
  <2>3. QED
    BY <1>1, <2>1, <2>2, LinesStay
<1>4. QED
  BY <1>2, <1>3 DEF Compare

\* A commit that inserts charges bills the period.
LEMMA InsertBills ==
  ASSUME BillingConstants, IInv, NEW q \in Requests, InsertCharges(q)
  PROVE  [Promise!Next]_Promise!vars
<1> DEFINE r == req[q].run
           lines == Lines(q)
<1>1. /\ r \in Runs /\ lines = req[q].lines /\ lines \in PreviewType
      /\ RequestInv(req[q]) /\ req[q].at = "insert" /\ UNCHANGED <<tariff, days, late>>
  BY Types DEF IInv, RequestsInv, RequestInv, InsertCharges, Lines, Req
<1>2. CASE req' = Answered(q, "conflict") /\ UNCHANGED <<charge, runs>>
  BY <1>1, <1>2, Forgets DEF Answers
<1>3. CASE /\ charge' = [c \in Children |-> IF c \in DOMAIN lines THEN lines[c] ELSE charge[c]]
           /\ runs' = [runs EXCEPT ![r] = [@ EXCEPT !.status = "committed", !.key = req[q].key]]
           /\ req' = Answered(q, "committed")
           /\ ~AnotherCommitted(r)
  <2>1. Committed' = {r} /\ Committed = {}
    BY <1>1, <1>3, Inserted DEF InsertCharges
  <2>2. \A c \in Children : charge[c] = NoCharge
    BY <2>1 DEF IInv, RunsInv, Charged
  <2>3. \A c \in DOMAIN lines : lines[c].days = days[c] \/ c \in late
    BY <1>1 DEF RequestInv
  <2>4. PICK m \in Req : req' = [req EXCEPT ![q] = m] /\ m.lines = NoLines
    BY <1>3, AnsweredRow DEF IInv, Answers
  <2>5. Reading[q] = lines /\ Reading' = [Reading EXCEPT ![q] = Promise!Nothing]
    <3>1. Reading[q] = req[q].lines /\ Reading' = [Reading EXCEPT ![q] = m.lines]
      BY <2>4, ReadingStep
    <3>2. m.lines = Promise!Nothing
      BY <2>4, NothingIsNoLines
    <3> HIDE DEF lines
    <3>3. QED
      BY <1>1, <3>1, <3>2, Zenon
  <2>6. charge' = [c \in Children |-> IF c \in DOMAIN Reading[q] THEN Reading[q][c] ELSE NoCharge]
    BY <1>3, <2>2, <2>5
  <2> HIDE DEF lines
  <2>7. /\ ~(Committed # {}) /\ (Committed' # {}) = TRUE
        /\ \A c \in DOMAIN Reading[q] : Reading[q][c].days = days[c] \/ c \in late
    BY <2>1, <2>3, <2>5
  <2>8. Promise!Bill(q)
    BY <1>1, <2>5, <2>6, <2>7 DEF Promise!Bill, Reading
  <2>9. QED
    BY <2>8 DEF Promise!Next
<1>4. QED
  BY <1>2, <1>3 DEF InsertCharges

\* A tariff changes.
LEMMA RetariffRefines ==
  ASSUME NEW c \in Children, NEW t \in Tariffs \cup {NoTariff}, Retariff(c, t),
         UNCHANGED <<days, charge, runs, req>>
  PROVE  [Promise!Next]_Promise!vars
<1>1. tariff' = [tariff EXCEPT ![c] = t]
  BY DEF Retariff
<1>2. late' = late \/ (tariff[c] = NoTariff /\ late' = late \cup {c})
  BY DEF Retariff, Billable
<1>3. Promise!ChangeTariff(c)
  BY <1>1, <1>2 DEF Promise!ChangeTariff, Committed
<1>4. QED
  BY <1>3 DEF Promise!Next

\* Every step notes a line, forgets some, bills the period, changes a tariff or
\* an attendance, resolves a correction, or is none of the abstract
\* specification's business.
LEMMA StepRefines ==
  ASSUME BillingConstants, IInv, Next PROVE [Promise!Next]_Promise!vars
<1>1. ASSUME NEW q \in Requests,
             \/ \E r \in Runs, k \in Keys : Start(q, r, k)
             \/ LockRun(q) \/ LockChild(q) \/ ListAgain(q) \/ ComputeLine(q)
             \/ Compare(q) \/ InsertCharges(q)
      PROVE  [Promise!Next]_Promise!vars
  BY <1>1, StartRefines, LockRefines, ComputeLineRefines, CompareRefines, InsertBills
<1>2. ASSUME NEW q \in Requests, Fail(q) PROVE [Promise!Next]_Promise!vars
  <2>1. "failed" \in Answers
    BY DEF Answers
  <2>2. QED
    BY <1>2, <2>1, Forgets DEF Fail
<1>3. ASSUME NEW r \in Runs, preview(r) \/ discard(r) PROVE [Promise!Next]_Promise!vars
  <2>1. \A s \in Runs \ {r} : runs'[s] = runs[s]
    BY <1>3 DEF IInv, TypeOK, preview, discard
  <2>2. runs'[r].status # "committed" /\ runs[r].status # "committed"
    BY <1>3 DEF IInv, TypeOK, preview, discard
  <2>3. Committed' = Committed
    BY <2>1, <2>2 DEF Committed
  <2>4. QED
    BY <1>3, <2>3 DEF preview, discard, Promise!vars
<1>4. ASSUME NEW c \in Children, NEW d \in Days, recordAttendance(c, d)
      PROVE  [Promise!Next]_Promise!vars
  <2>1. charge \in [Children -> LineType \cup {NoCharge}]
    BY DEF IInv, TypeOK
  <2>2. Promise!Follow(c, d) \/ UNCHANGED charge
    BY <1>4, <2>1 DEF recordAttendance, recalculated, Promise!Follow
  <2>3. Promise!Attend(c)
    BY <1>4, <2>2 DEF recordAttendance, Promise!Attend, Committed
  <2>4. QED
    BY <2>3 DEF Promise!Next
<1>5. ASSUME NEW c \in Children, resolve(c) PROVE [Promise!Next]_Promise!vars
  <2>1. charge \in [Children -> LineType \cup {NoCharge}]
    BY DEF IInv, TypeOK
  <2>2. Promise!Follow(c, days[c])
    BY <1>5, <2>1 DEF resolve, recalculated, Promise!Follow
  <2>3. Promise!Resolve(c)
    BY <1>5, <2>2 DEF resolve, Promise!Resolve, Committed
  <2>4. QED
    BY <2>3 DEF Promise!Next
<1>6. ASSUME NEW c \in Children,
             \/ \E t \in Tariffs : assignToChild(c, t)
             \/ \E t \in Tariffs \cup {NoTariff} : assignEarlier(c, t)
             \/ EndElsewhere(c)
      PROVE  [Promise!Next]_Promise!vars
  BY <1>6, RetariffRefines DEF assignToChild, assignEarlier, EndElsewhere
<1>7. ASSUME NEW e \in Editors, EndAssignment(e) PROVE [Promise!Next]_Promise!vars
  <2>1. ending[e] \in Children
    BY <1>7 DEF IInv, TypeOK, EndAssignment
  <2>2. PICK t \in Tariffs : Retariff(ending[e], t)
    BY <1>7 DEF EndAssignment
  <2>3. QED
    BY <1>7, <2>1, <2>2, RetariffRefines DEF EndAssignment
<1>8. CASE UNCHANGED <<tariff, days, charge, runs, req, late>>
  BY <1>8 DEF Promise!vars, Committed
<1>9. QED
  BY <1>1, <1>2, <1>3, <1>4, <1>5, <1>6, <1>7, <1>8 DEF Next, CheckAssignment, close, reopen

\* Previews, locks, keys, retries and the comparison come to one step that bills
\* the period: each child for the tariff and the attendance of the moment its
\* line was computed, and the attendance is still that when the run commits.
THEOREM BillingIsOneStep ==
  ASSUME BillingConstants PROVE Spec => BillsOnce
<1>1. ASSUME BillingConstants, Init PROVE Promise!Init
  <2>1. Committed = {}
    BY <1>1 DEF Init, Committed
  <2>2. Reading = [q \in Requests |-> Promise!Nothing]
    BY <1>1 DEF Init, Reading, Promise!Nothing, NoLines
  <2>3. QED
    BY <1>1, <2>1, <2>2 DEF Init, Promise!Init, Reading
<1>2. BillingConstants /\ IInv /\ [Next]_vars => [Promise!Next]_Promise!vars
  <2>1. UNCHANGED vars => UNCHANGED Promise!vars
    BY DEF vars, Promise!vars, Committed
  <2>2. QED
    BY <2>1, StepRefines
<1>3. QED
  BY <1>1, <1>2, Inductive, PTL DEF Spec, BillsOnce, Promise!Spec
=============================================================================

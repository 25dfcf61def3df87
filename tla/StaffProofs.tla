---------------------------- MODULE StaffProofs ----------------------------
(***************************************************************************)
(* Proofs about the components of MCStaff: the permission cache, sign-in   *)
(* and sessions, staff roles, and imports.  Each is about the component's  *)
(* own specification, with the constants of MCStaff and no bound on them,  *)
(* and has an invariant of its own.                                        *)
(***************************************************************************)
EXTENDS MCStaff, FiniteSetTheorems, WellFoundedInduction, TLAPS

\* What a request has read under the present version is what the rows say.
\* This is what EntriesCurrent lacks to be inductive: it carries the rows from
\* the query that read them to the entry that keeps them.
ReadsCurrent(r) ==
    r.pc = "resolve" =>
        /\ r.looked =< clock
        /\ "roles" \in r.todo => "grants" \in r.todo
        /\ r.version = version =>
            /\ "roles" \notin r.todo /\ "grants" \in r.todo =>
                   r.held = holds[r.user]
            /\ "grants" \notin r.todo =>
                   r.carried = holds[r.user] \cap carrying
            /\ "override" \notin r.todo => r.override = override[r.user]

\* The answer of a request under the present version is that of the rows.
AnswerCurrent(r) ==
    r.pc = "done" /\ r.version = version =>
        /\ r.answer = resolve(r.user, r.at)
        /\ r.looked < r.at + TTL

\* What holds of each request, and of the rows and the cache.
RequestInv(r) ==
    /\ r \in Request
    /\ r.pc # "idle" => r.version =< version
    /\ ReadsCurrent(r)
    /\ AnswerCurrent(r)

RowsInv ==
    /\ holds \in [Users -> SUBSET Roles]
    /\ carrying \in SUBSET Roles
    /\ override \in [Users -> Override]
    /\ version \in Nat /\ clock \in Nat

CacheInv ==
    /\ cache \subseteq Entry
    /\ \A e, f \in cache : e.user = f.user /\ e.version = f.version => e = f
    /\ \A e \in cache : e.version =< version /\ e.at =< clock
    /\ EntriesCurrent

PermissionInv ==
    /\ RowsInv
    /\ CacheInv
    /\ DOMAIN request = Requests /\ request = [q \in Requests |-> request[q]]
    /\ \A q \in Requests : RequestInv(request[q])

-----------------------------------------------------------------------------
\* A request that has read nothing is a request.
LEMMA IdleType == Idle \in Request
  <1>1. (CHOOSE u \in Users : TRUE) \in Users
    BY CacheAssumption
  <1> QED
    BY <1>1 DEF Idle, Request, Override, NoOverride

\* An answer is a request, done, of the user, version and instants given.
LEMMA AnsweredType ==
  ASSUME NEW q \in Requests, request[q] \in Request,
         NEW t \in Nat, NEW value \in BOOLEAN
  PROVE  LET a == Answered(q, t, value) IN
         /\ a \in Request
         /\ a.pc = "done" /\ a.user = request[q].user
         /\ a.version = request[q].version /\ a.looked = request[q].looked
         /\ a.at = t /\ a.answer = value
  BY IdleType DEF Answered, Request, Idle

\* The permission at an instant is a Boolean.
LEMMA PermittedType ==
  ASSUME NEW some, NEW o \in Override, NEW t \in Nat
  PROVE  Permitted(some, o, t) \in BOOLEAN
  BY DEF Permitted

\* Putting an entry that says what the rows say keeps the cache sound.
LEMMA PutSound ==
  ASSUME RowsInv, CacheInv, NEW e \in Entry,
         e.version =< version, e.at =< clock,
         e.version = version => e.value = resolve(e.user, e.at),
         cache' = Put(e),
         UNCHANGED <<holds, carrying, override, version, clock>>
  PROVE  CacheInv'
<1>1. \A f \in cache' : f \in cache \/ f = e
  BY DEF Put
<1>2. \A f, g \in cache' : f.user = g.user /\ f.version = g.version => f = g
  BY DEF Put, CacheInv
<1>3. \A f \in cache' : f.version = version => f.value = resolve(f.user, f.at)
  BY <1>1 DEF CacheInv, EntriesCurrent
<1>4. cache' \subseteq Entry /\ \A f \in cache' : f.version =< version /\ f.at =< clock
  BY <1>1 DEF CacheInv
<1>5. EntriesCurrent'
  BY <1>3 DEF EntriesCurrent, resolve
<1>6. QED
  BY <1>2, <1>4, <1>5 DEF CacheInv

\* A step that moves one request, to a sound state, and may put a sound entry.
LEMMA RequestMoves ==
  ASSUME PermissionInv, NEW q \in Requests, CacheInv',
         DOMAIN request' = Requests,
         request' = [p \in Requests |-> request'[p]],
         \A p \in Requests \ {q} : request'[p] = request[p],
         RequestInv(request'[q]),
         UNCHANGED <<holds, carrying, override, version, clock>>
  PROVE  PermissionInv'
<1>1. RowsInv'
  BY DEF PermissionInv, RowsInv
<1>2. ASSUME NEW r, RequestInv(r) PROVE RequestInv(r)'
  BY <1>2 DEF RequestInv, ReadsCurrent, AnswerCurrent, resolve
<1>3. \A p \in Requests : RequestInv(request'[p])
  BY DEF PermissionInv
<1>4. QED
  BY <1>1, <1>2, <1>3 DEF PermissionInv

-----------------------------------------------------------------------------
\* The steps of a request.

LEMMA StepReadVersion ==
  ASSUME PermissionInv, NEW q \in Requests, ReadVersion(q)
  PROVE  PermissionInv'
<1>1. PICK u \in Users :
        request' = [request EXCEPT ![q].pc = "lookup", ![q].user = u,
                                   ![q].version = version]
  BY DEF ReadVersion
<1>2. request[q] \in Request /\ version \in Nat
  BY DEF PermissionInv, RequestInv, RowsInv
<1>3. /\ request'[q] \in Request
      /\ request'[q].pc = "lookup" /\ request'[q].version = version
  BY <1>1, <1>2 DEF PermissionInv, Request
<1>4. RequestInv(request'[q])
  BY <1>2, <1>3 DEF RequestInv, ReadsCurrent, AnswerCurrent
<1>5. CacheInv'
  BY DEF PermissionInv, ReadVersion, CacheInv, EntriesCurrent, resolve
<1>6. /\ DOMAIN request' = Requests
      /\ request' = [p \in Requests |-> request'[p]]
      /\ \A p \in Requests \ {q} : request'[p] = request[p]
  BY <1>1 DEF PermissionInv
<1>7. QED
  BY <1>4, <1>5, <1>6, RequestMoves DEF ReadVersion

LEMMA StepHit ==
  ASSUME PermissionInv, NEW q \in Requests, Hit(q)
  PROVE  PermissionInv'
<1>1. PICK e \in Found(request[q].user, request[q].version) :
        request' = [request EXCEPT ![q] = [Answered(q, e.at, e.value)
                                             EXCEPT !.looked = clock]]
  BY DEF Hit
<1> DEFINE a == Answered(q, e.at, e.value)
<1>2. request[q] \in Request /\ clock \in Nat /\ version \in Nat
  BY DEF PermissionInv, RequestInv, RowsInv
<1>3. e \in cache /\ e.user = request[q].user /\ e.version = request[q].version
      /\ clock < e.at + TTL
  BY DEF Found
<1>4. e \in Entry /\ e.at \in Nat /\ e.value \in BOOLEAN
  BY <1>3 DEF PermissionInv, CacheInv, Entry
<1>5. /\ a \in Request /\ a.pc = "done" /\ a.user = e.user
      /\ a.version = e.version /\ a.at = e.at /\ a.answer = e.value
  BY <1>2, <1>3, <1>4, AnsweredType
<1> HIDE DEF a
<1>6. request'[q] = [a EXCEPT !.looked = clock]
  BY <1>1 DEF PermissionInv, a
<1>7. /\ request'[q] \in Request /\ request'[q].pc = "done"
      /\ request'[q].user = e.user /\ request'[q].version = e.version
      /\ request'[q].at = e.at /\ request'[q].answer = e.value
      /\ request'[q].looked = clock
  BY <1>2, <1>5, <1>6 DEF Request
<1>8. e.version =< version
      /\ (e.version = version => e.value = resolve(e.user, e.at))
  BY <1>3 DEF PermissionInv, CacheInv, EntriesCurrent
<1>9. RequestInv(request'[q])
  BY <1>3, <1>7, <1>8 DEF RequestInv, ReadsCurrent, AnswerCurrent
<1>10. CacheInv'
  BY DEF PermissionInv, Hit, CacheInv, EntriesCurrent, resolve
<1>11. /\ DOMAIN request' = Requests
       /\ request' = [p \in Requests |-> request'[p]]
       /\ \A p \in Requests \ {q} : request'[p] = request[p]
  BY <1>1 DEF PermissionInv
<1>12. QED
  BY <1>9, <1>10, <1>11, RequestMoves DEF Hit

LEMMA StepMiss ==
  ASSUME PermissionInv, NEW q \in Requests, Miss(q)
  PROVE  PermissionInv'
<1>1. request' = [request EXCEPT ![q].pc = "resolve", ![q].looked = clock,
                                 ![q].todo = Queries]
  BY DEF Miss
<1>2. request[q] \in Request /\ clock \in Nat /\ request[q].pc = "lookup"
      /\ request[q].version =< version
  BY DEF PermissionInv, RequestInv, RowsInv, Miss
<1>3. /\ request'[q] \in Request
      /\ request'[q].pc = "resolve" /\ request'[q].looked = clock
      /\ request'[q].todo = Queries /\ request'[q].version = request[q].version
  BY <1>1, <1>2 DEF PermissionInv, Request
<1>4. RequestInv(request'[q])
  BY <1>2, <1>3 DEF RequestInv, ReadsCurrent, AnswerCurrent, Queries
<1>5. CacheInv'
  BY DEF PermissionInv, Miss, CacheInv, EntriesCurrent, resolve
<1>6. /\ DOMAIN request' = Requests
      /\ request' = [p \in Requests |-> request'[p]]
      /\ \A p \in Requests \ {q} : request'[p] = request[p]
  BY <1>1 DEF PermissionInv
<1>7. QED
  BY <1>4, <1>5, <1>6, RequestMoves DEF Miss

LEMMA StepReadRoles ==
  ASSUME PermissionInv, NEW q \in Requests, ReadRoles(q)
  PROVE  PermissionInv'
<1>1. request' = [request EXCEPT ![q].todo = @ \ {"roles"},
                                 ![q].held = holds[request[q].user]]
  BY DEF ReadRoles
<1>2. /\ request[q] \in Request /\ request[q].pc = "resolve"
      /\ request[q].version =< version
      /\ holds[request[q].user] \in SUBSET Roles
      /\ override[request[q].user] \in Override
  BY DEF PermissionInv, RequestInv, RowsInv, Request, ReadRoles
<1>3. /\ request'[q] \in Request
      /\ request'[q].pc = request[q].pc
      /\ request'[q].user = request[q].user
      /\ request'[q].version = request[q].version
      /\ request'[q].carried = request[q].carried
      /\ request'[q].override = request[q].override
      /\ request'[q].looked = request[q].looked
      /\ request'[q].todo = request[q].todo \ {"roles"}
      /\ request'[q].held = holds[request[q].user]
  BY <1>1, <1>2 DEF PermissionInv, Request
<1>4. ReadsCurrent(request'[q])
  BY <1>2, <1>3, SMTT(30) DEF PermissionInv, RequestInv, ReadsCurrent, ReadRoles
<1>5. RequestInv(request'[q])
  BY <1>2, <1>3, <1>4 DEF RequestInv, AnswerCurrent
<1>6. CacheInv'
  BY DEF PermissionInv, ReadRoles, CacheInv, EntriesCurrent, resolve
<1>7. /\ DOMAIN request' = Requests
      /\ request' = [p \in Requests |-> request'[p]]
      /\ \A p \in Requests \ {q} : request'[p] = request[p]
  BY <1>1 DEF PermissionInv
<1>8. QED
  BY <1>5, <1>6, <1>7, RequestMoves DEF ReadRoles

LEMMA StepReadGrants ==
  ASSUME PermissionInv, NEW q \in Requests, ReadGrants(q)
  PROVE  PermissionInv'
<1>1. request' = [request EXCEPT ![q].todo = @ \ {"grants"},
                                 ![q].carried = request[q].held \cap carrying,
                                 ![q].held = {}]
  BY DEF ReadGrants
<1>2. /\ request[q] \in Request /\ request[q].pc = "resolve"
      /\ request[q].version =< version
      /\ holds[request[q].user] \in SUBSET Roles
      /\ override[request[q].user] \in Override
  BY DEF PermissionInv, RequestInv, RowsInv, Request, ReadGrants
<1>3. /\ request'[q] \in Request
      /\ request'[q].pc = request[q].pc
      /\ request'[q].user = request[q].user
      /\ request'[q].version = request[q].version
      /\ request'[q].override = request[q].override
      /\ request'[q].looked = request[q].looked
      /\ request'[q].todo = request[q].todo \ {"grants"}
      /\ request'[q].carried = request[q].held \cap carrying
  BY <1>1, <1>2 DEF PermissionInv, Request
<1>4. ReadsCurrent(request'[q])
  BY <1>2, <1>3 DEF PermissionInv, RequestInv, ReadsCurrent, ReadGrants
<1>5. RequestInv(request'[q])
  BY <1>2, <1>3, <1>4 DEF RequestInv, AnswerCurrent
<1>6. CacheInv'
  BY DEF PermissionInv, ReadGrants, CacheInv, EntriesCurrent, resolve
<1>7. /\ DOMAIN request' = Requests
      /\ request' = [p \in Requests |-> request'[p]]
      /\ \A p \in Requests \ {q} : request'[p] = request[p]
  BY <1>1 DEF PermissionInv
<1>8. QED
  BY <1>5, <1>6, <1>7, RequestMoves DEF ReadGrants

LEMMA StepReadOverride ==
  ASSUME PermissionInv, NEW q \in Requests, ReadOverride(q)
  PROVE  PermissionInv'
<1>1. request' = [request EXCEPT ![q].todo = @ \ {"override"},
                                 ![q].override = override[request[q].user]]
  BY DEF ReadOverride
<1>2. /\ request[q] \in Request /\ request[q].pc = "resolve"
      /\ request[q].version =< version
      /\ holds[request[q].user] \in SUBSET Roles
      /\ override[request[q].user] \in Override
  BY DEF PermissionInv, RequestInv, RowsInv, Request, ReadOverride
<1>3. /\ request'[q] \in Request
      /\ request'[q].pc = request[q].pc
      /\ request'[q].user = request[q].user
      /\ request'[q].version = request[q].version
      /\ request'[q].held = request[q].held
      /\ request'[q].carried = request[q].carried
      /\ request'[q].looked = request[q].looked
      /\ request'[q].todo = request[q].todo \ {"override"}
      /\ request'[q].override = override[request[q].user]
  BY <1>1, <1>2 DEF PermissionInv, Request
<1>4. ReadsCurrent(request'[q])
  BY <1>2, <1>3, SMTT(30) DEF PermissionInv, RequestInv, ReadsCurrent, ReadOverride
<1>5. RequestInv(request'[q])
  BY <1>2, <1>3, <1>4 DEF RequestInv, AnswerCurrent
<1>6. CacheInv'
  BY DEF PermissionInv, ReadOverride, CacheInv, EntriesCurrent, resolve
<1>7. /\ DOMAIN request' = Requests
      /\ request' = [p \in Requests |-> request'[p]]
      /\ \A p \in Requests \ {q} : request'[p] = request[p]
  BY <1>1 DEF PermissionInv
<1>8. QED
  BY <1>5, <1>6, <1>7, RequestMoves DEF ReadOverride

\* A request that has read everything answers with the present rows, if no edit
\* came since it read the version.
LEMMA ResolvedCurrent ==
  ASSUME PermissionInv, NEW q \in Requests,
         request[q].pc = "resolve", request[q].todo = {}
  PROVE  /\ Resolved(q) \in BOOLEAN
         /\ request[q].version = version =>
                Resolved(q) = resolve(request[q].user, clock)
<1>1. RequestInv(request[q]) /\ clock \in Nat
  BY DEF PermissionInv, RowsInv
<1>2. request[q].override \in Override
  BY <1>1 DEF RequestInv, Request
<1>3. Resolved(q) \in BOOLEAN
  BY <1>1, <1>2, PermittedType DEF Resolved
<1>4. request[q].version = version =>
        /\ request[q].carried = holds[request[q].user] \cap carrying
        /\ request[q].override = override[request[q].user]
  BY <1>1 DEF RequestInv, ReadsCurrent
<1>5. QED
  BY <1>3, <1>4 DEF Resolved, resolve

LEMMA StepFinish ==
  ASSUME PermissionInv, NEW q \in Requests, Finish(q)
  PROVE  PermissionInv'
<1> DEFINE a == Answered(q, clock, Resolved(q))
           e == [user |-> request[q].user, version |-> request[q].version,
                 value |-> Resolved(q), at |-> clock]
<1>1. /\ request[q].pc = "resolve" /\ request[q].todo = {}
      /\ request' = [request EXCEPT ![q] = a]
      /\ cache' = Put(e)
      /\ UNCHANGED <<holds, carrying, override, version, clock>>
  BY DEF Finish
<1>2. /\ request[q] \in Request /\ RequestInv(request[q])
      /\ clock \in Nat /\ version \in Nat
  BY DEF PermissionInv, RequestInv, RowsInv
<1>3. /\ Resolved(q) \in BOOLEAN
      /\ request[q].version = version =>
            Resolved(q) = resolve(request[q].user, clock)
  BY <1>1, ResolvedCurrent
<1>4. /\ a \in Request /\ a.pc = "done" /\ a.user = request[q].user
      /\ a.version = request[q].version /\ a.looked = request[q].looked
      /\ a.at = clock /\ a.answer = Resolved(q)
  BY <1>2, <1>3, AnsweredType
<1>5. /\ e \in Entry
      /\ e.user = request[q].user /\ e.version = request[q].version
      /\ e.value = Resolved(q) /\ e.at = clock
  BY <1>2, <1>3 DEF Entry, Request
<1>6. request[q].version =< version /\ request[q].looked =< clock
  BY <1>1, <1>2 DEF RequestInv, ReadsCurrent
<1> HIDE DEF a, e
<1>7. CacheInv'
  <2>1. e.version =< version /\ e.at =< clock
    BY <1>2, <1>5, <1>6
  <2>2. e.version = version => e.value = resolve(e.user, e.at)
    BY <1>3, <1>5
  <2>3. QED
    BY <1>1, <1>5, <2>1, <2>2, PutSound DEF PermissionInv
<1>8. request'[q] = a
  BY <1>1 DEF PermissionInv
<1>9. a.looked < a.at + TTL
  <2>1. a.looked \in Nat /\ a.looked =< clock
    BY <1>2, <1>4, <1>6 DEF Request
  <2>2. QED
    BY <1>2, <1>4, <2>1, CacheAssumption
<1>10. RequestInv(a)
  BY <1>3, <1>4, <1>6, <1>9 DEF RequestInv, ReadsCurrent, AnswerCurrent
<1>11. /\ DOMAIN request' = Requests
       /\ request' = [p \in Requests |-> request'[p]]
       /\ \A p \in Requests \ {q} : request'[p] = request[p]
  BY <1>1 DEF PermissionInv
<1>12. QED
  BY <1>1, <1>7, <1>8, <1>10, <1>11, RequestMoves

\* A request that has read nothing is sound.
LEMMA IdleSound == RequestInv(Idle)
<1>1. Idle.pc = "idle"
  BY DEF Idle
<1>2. QED
  BY <1>1, IdleType DEF RequestInv, ReadsCurrent, AnswerCurrent

LEMMA StepEnd ==
  ASSUME PermissionInv, NEW q \in Requests, End(q)
  PROVE  PermissionInv'
<1>1. request' = [request EXCEPT ![q] = Idle]
  BY DEF End
<1>2. /\ DOMAIN request' = Requests
      /\ request' = [p \in Requests |-> request'[p]]
      /\ request'[q] = Idle
      /\ \A p \in Requests \ {q} : request'[p] = request[p]
  BY <1>1 DEF PermissionInv
<1>3. CacheInv'
  BY DEF PermissionInv, End, CacheInv, EntriesCurrent, resolve
<1>4. QED
  BY <1>2, <1>3, IdleSound, RequestMoves DEF End

-----------------------------------------------------------------------------
\* The steps of the world around.

\* After an edit nothing kept or read is under the present version.
LEMMA StepEdit ==
  ASSUME PermissionInv, Edit
  PROVE  PermissionInv'
<1>1. version \in Nat /\ version' = version + 1 /\ UNCHANGED <<cache, request, clock>>
  BY DEF PermissionInv, RowsInv, Edit
<1>2. RowsInv'
  BY <1>1 DEF PermissionInv, RowsInv, Edit
<1>3. CacheInv'
  <2>1. \A e \in cache : e.version \in Nat /\ e.version =< version
    BY DEF PermissionInv, CacheInv, Entry
  <2>2. \A e \in cache : e.version # version' /\ e.version =< version'
    BY <1>1, <2>1
  <2>3. EntriesCurrent'
    BY <1>1, <2>2 DEF EntriesCurrent
  <2>4. QED
    BY <1>1, <2>2, <2>3 DEF PermissionInv, CacheInv
<1>4. ASSUME NEW q \in Requests PROVE RequestInv(request[q])'
  <2>1. /\ request[q] \in Request /\ request[q].version \in Nat
        /\ request[q].pc # "idle" => request[q].version =< version
        /\ request[q].pc = "resolve" =>
              /\ request[q].looked =< clock
              /\ "roles" \in request[q].todo => "grants" \in request[q].todo
    BY DEF PermissionInv, RequestInv, Request, ReadsCurrent
  <2>2. request[q].pc # "idle" =>
          request[q].version # version' /\ request[q].version =< version'
    BY <1>1, <2>1
  <2>3. ReadsCurrent(request[q])' /\ AnswerCurrent(request[q])'
    BY <1>1, <2>1, <2>2 DEF ReadsCurrent, AnswerCurrent
  <2>4. QED
    BY <1>1, <2>1, <2>2, <2>3 DEF RequestInv
<1>5. QED
  BY <1>1, <1>2, <1>3, <1>4 DEF PermissionInv

LEMMA StepEvict ==
  ASSUME PermissionInv, Evict
  PROVE  PermissionInv'
<1>1. /\ cache' \subseteq cache
      /\ UNCHANGED <<holds, carrying, override, version, request, clock>>
  BY DEF Evict
<1>2. RowsInv'
  BY <1>1 DEF PermissionInv, RowsInv
<1>3. CacheInv'
  BY <1>1 DEF PermissionInv, CacheInv, EntriesCurrent, resolve
<1>4. ASSUME NEW q \in Requests PROVE RequestInv(request[q])'
  BY <1>1 DEF PermissionInv, RequestInv, ReadsCurrent, AnswerCurrent, resolve
<1>5. QED
  BY <1>1, <1>2, <1>3, <1>4 DEF PermissionInv

LEMMA StepTick ==
  ASSUME PermissionInv, Tick
  PROVE  PermissionInv'
<1>1. /\ clock \in Nat /\ clock' = clock + 1
      /\ UNCHANGED <<holds, carrying, override, version, cache, request>>
  BY DEF PermissionInv, RowsInv, Tick
<1>2. RowsInv'
  BY <1>1 DEF PermissionInv, RowsInv
<1>3. CacheInv'
  <2>1. \A e \in cache : e.at \in Nat /\ e.at =< clock
    BY DEF PermissionInv, CacheInv, Entry
  <2>2. \A e \in cache : e.at =< clock'
    BY <1>1, <2>1
  <2>3. QED
    BY <1>1, <2>2 DEF PermissionInv, CacheInv, EntriesCurrent, resolve
<1>4. ASSUME NEW q \in Requests PROVE RequestInv(request[q])'
  <2>1. RequestInv(request[q]) /\ request[q].looked \in Nat
    BY DEF PermissionInv, RequestInv, Request
  <2>2. request[q].looked =< clock => request[q].looked =< clock'
    BY <1>1, <2>1
  <2>3. ReadsCurrent(request[q])' /\ AnswerCurrent(request[q])'
    BY <1>1, <2>1, <2>2 DEF RequestInv, ReadsCurrent, AnswerCurrent, resolve
  <2>4. QED
    BY <1>1, <2>1, <2>3 DEF RequestInv
<1>5. QED
  BY <1>1, <1>2, <1>3, <1>4 DEF PermissionInv

-----------------------------------------------------------------------------
\* Every behaviour keeps the inductive invariant.
THEOREM Invariance == Spec => []PermissionInv
<1>1. Init => PermissionInv
  <2> SUFFICES ASSUME Init PROVE PermissionInv
    OBVIOUS
  <2>1. RowsInv
    BY DEF Init, RowsInv
  <2>2. CacheInv
    BY DEF Init, CacheInv, EntriesCurrent
  <2>3. /\ DOMAIN request = Requests
        /\ request = [q \in Requests |-> request[q]]
        /\ \A q \in Requests : RequestInv(request[q])
    BY IdleSound DEF Init
  <2>4. QED
    BY <2>1, <2>2, <2>3 DEF PermissionInv
<1>2. PermissionInv /\ [Next]_vars => PermissionInv'
  <2> SUFFICES ASSUME PermissionInv, [Next]_vars PROVE PermissionInv'
    OBVIOUS
  <2>1. CASE \E q \in Requests : ReadVersion(q)
    BY <2>1, StepReadVersion
  <2>2. CASE \E q \in Requests : Hit(q)
    BY <2>2, StepHit
  <2>3. CASE \E q \in Requests : Miss(q)
    BY <2>3, StepMiss
  <2>4. CASE \E q \in Requests : ReadRoles(q)
    BY <2>4, StepReadRoles
  <2>5. CASE \E q \in Requests : ReadGrants(q)
    BY <2>5, StepReadGrants
  <2>6. CASE \E q \in Requests : ReadOverride(q)
    BY <2>6, StepReadOverride
  <2>7. CASE \E q \in Requests : Finish(q)
    BY <2>7, StepFinish
  <2>8. CASE \E q \in Requests : End(q)
    BY <2>8, StepEnd
  <2>9. CASE Edit
    BY <2>9, StepEdit
  <2>10. CASE Evict
    BY <2>10, StepEvict
  <2>11. CASE Tick
    BY <2>11, StepTick
  <2>12. CASE UNCHANGED vars
    BY <2>12 DEF vars, PermissionInv, RowsInv, CacheInv, EntriesCurrent, RequestInv,
                 ReadsCurrent, AnswerCurrent, resolve
  <2>13. QED
    BY <2>1, <2>2, <2>3, <2>4, <2>5, <2>6, <2>7, <2>8, <2>9, <2>10, <2>11,
       <2>12 DEF Next
<1>3. QED
  BY <1>1, <1>2, PTL DEF Spec

\* The types, whatever the interleaving.
THEOREM CacheTypeCorrect == Spec => []TypeOK
<1>1. PermissionInv => TypeOK
  BY DEF PermissionInv, RowsInv, CacheInv, RequestInv, TypeOK
<1>2. QED
  BY <1>1, Invariance, PTL

\* What the cache holds under the present version is what the rows say, for
\* any number of requests that resolve while any number of edits commit.
THEOREM CacheCurrent == Spec => []EntriesCurrent
<1>1. PermissionInv => EntriesCurrent
  BY DEF PermissionInv, CacheInv
<1>2. QED
  BY <1>1, Invariance, PTL

\* Edits take effect on the user's next request: an answer under the present
\* version is that of the present rows.
THEOREM EditsTakeEffectAlways == Spec => []EditsTakeEffect
<1>1. PermissionInv => EditsTakeEffect
  BY DEF PermissionInv, RequestInv, AnswerCurrent, EditsTakeEffect
<1>2. QED
  BY <1>1, Invariance, PTL


Passwords == 0..MaxChanges

Account == [password : Passwords, active : BOOLEAN, failed : Nat, locked : BOOLEAN]

Session ==
    [state : {S!None, "live", "over"}, parent : SessionRows \cup {S!None},
     password : Passwords, stray : BOOLEAN]

Login ==
    [op : {"login"}, pc : {"verify", "issue"}, typed : Int, failed : Nat,
     password : Passwords, of : {S!None}, stray : BOOLEAN]

Exchange ==
    [op : {"refresh"}, pc : {"consume", "issue"}, of : SessionRows,
     password : Passwords, stray : BOOLEAN]

Change == [op : {"change", "activate", "deactivate"}, pc : {"write", "revoke"}]
         \cup [op : {"forgot"}, pc : {"create"}]

ResetCall == [op : {"reset"}, pc : {"write"}, code : ResetCodes]

Call == {S!Free} \cup Login \cup Exchange \cup Change \cup ResetCall

SessionTypes ==
    /\ account \in Account
    /\ session \in [SessionRows -> Session]
    /\ code \in [ResetCodes -> [state : {S!None, "fresh", "used", "expired"}, uses : Nat]]
    /\ call \in [Requests -> Call]

\* The request q has consumed the token of s and has not replaced it yet.
Consumes(q, s) == S!At(q, "refresh", "issue") /\ call[q].of = s

\* What is known of a token under exchange.
ConsumedOnce ==
    \A q \in Requests, s \in SessionRows : Consumes(q, s) =>
        /\ session[s].state # S!None
        /\ \A t \in SessionRows : session[t].parent # s
        /\ \A x \in Requests : Consumes(x, s) => x = q

\* What has been exchanged is over, and has one successor.
Succeeded ==
    /\ \A s, t \in SessionRows : session[s].parent = session[t].parent /\ session[s].parent # S!None => s = t
    /\ \A s \in SessionRows : session[s].parent # S!None => session[session[s].parent].state = "over"

CodesInv == \A c \in ResetCodes : code[c].uses = IF code[c].state = "used" THEN 1 ELSE 0

SessionsInv == SessionTypes /\ ConsumedOnce /\ Succeeded /\ CodesInv

-----------------------------------------------------------------------------
\* Requests that change no token's exchange.

\* A call that goes on, starts or ends without entering an exchange's middle.
NoneConsumes ==
    \A q \in Requests, s \in SessionRows : Consumes(q, s)' => Consumes(q, s)

\* A session changes only from live to over.
OnlyEnds ==
    \A s \in SessionRows :
        /\ session'[s].parent = session[s].parent
        /\ \/ session'[s].state = session[s].state
           \/ (session[s].state = "live") /\ (session'[s].state = "over")

LEMMA ExchangesStay ==
  ASSUME SessionTypes, ConsumedOnce, Succeeded, NoneConsumes, OnlyEnds
  PROVE  ConsumedOnce' /\ Succeeded'
<1>1. ASSUME NEW q \in Requests, NEW s \in SessionRows, Consumes(q, s)'
      PROVE  /\ session'[s].state # S!None
             /\ \A t \in SessionRows : session'[t].parent # s
             /\ \A x \in Requests : Consumes(x, s)' => x = q
  <2>1. Consumes(q, s)
    BY <1>1 DEF NoneConsumes
  <2>2. session'[s].state # S!None
    BY <2>1 DEF ConsumedOnce, OnlyEnds, S!None
  <2>3. \A t \in SessionRows : session'[t].parent # s
    BY <2>1 DEF ConsumedOnce, OnlyEnds
  <2>4. \A x \in Requests : Consumes(x, s)' => x = q
    BY <2>1 DEF ConsumedOnce, NoneConsumes
  <2> QED  BY <2>2, <2>3, <2>4
<1>2. ConsumedOnce'
  BY <1>1 DEF ConsumedOnce
<1>3. \A s \in SessionRows : session[s].parent \in SessionRows \cup {S!None}
  BY DEF SessionTypes, Session
<1>4. ASSUME NEW s \in SessionRows, NEW t \in SessionRows, session'[s].parent = session'[t].parent,
             session'[s].parent # S!None
      PROVE  s = t
  BY <1>4 DEF Succeeded, OnlyEnds
<1>5. ASSUME NEW s \in SessionRows, session'[s].parent # S!None
      PROVE  session'[session'[s].parent].state = "over"
  BY <1>3, <1>5 DEF Succeeded, OnlyEnds
<1>6. Succeeded'
  BY <1>4, <1>5 DEF Succeeded
<1> QED  BY <1>2, <1>6

-----------------------------------------------------------------------------
\* The helpers.

LEMMA CallKinds ==
  ASSUME SessionTypes, NEW q \in Requests
  PROVE  /\ call[q] \in Call
         /\ call[q].op = "login" => call[q] \in Login
         /\ call[q].op = "refresh" => call[q] \in Exchange
         /\ call[q].op = "reset" => call[q] \in ResetCall
         /\ call[q].op \in {"change", "activate", "deactivate", "forgot"} => call[q] \in Change
BY DEF SessionTypes, Call, S!Free, Login, Exchange, ResetCall, Change

\* Ending a request, and starting one.
LEMMA SetCall ==
  ASSUME SessionTypes, NEW q \in Requests, NEW r \in Call, r.op = "refresh" => r.pc # "issue",
         call' = [call EXCEPT ![q] = r]
  PROVE  call' \in [Requests -> Call] /\ NoneConsumes
<1>1. call' \in [Requests -> Call]
  BY DEF SessionTypes
<1>2. ASSUME NEW x \in Requests, NEW s \in SessionRows, Consumes(x, s)' PROVE Consumes(x, s)
  <2>1. call'[x] = IF x = q THEN r ELSE call[x]
    BY DEF SessionTypes
  <2> QED  BY <1>2, <2>1 DEF Consumes, S!At
<1> QED  BY <1>1, <1>2 DEF NoneConsumes

LEMMA AskedTypes ==
  ASSUME SessionTypes, NEW q \in Requests, NEW r \in Call, r.op = "refresh" => r.pc # "issue", S!Ask(q, r)
  PROVE  SessionTypes' /\ NoneConsumes /\ OnlyEnds /\ code' = code
<1>1. call' \in [Requests -> Call] /\ NoneConsumes
  BY SetCall DEF S!Ask
<1> QED  BY <1>1 DEF S!Ask, SessionTypes, OnlyEnds

LEMMA DoneCalls ==
  ASSUME SessionTypes, NEW q \in Requests, S!Done(q)
  PROVE  call' \in [Requests -> Call] /\ NoneConsumes
<1>1. S!Free \in Call /\ S!Free.op = "idle"
  BY DEF Call, S!Free
<1> QED  BY <1>1, SetCall DEF S!Done

\* Every session is ended; nobody is consuming who was not.
LEMMA Overtaken ==
  ASSUME SessionTypes, NEW q \in Requests, S!Overtake(q, S!Free)
  PROVE  call' \in [Requests -> Call] /\ NoneConsumes
<1>1. ASSUME NEW x \in Requests
      PROVE  /\ call'[x] \in Call
             /\ \A s \in SessionRows : Consumes(x, s)' => Consumes(x, s)
  <2>1. CASE x = q
    BY <2>1 DEF S!Overtake, Call, S!Free, Consumes, S!At
  <2>2. CASE x # q /\ call[x].op = "login"
    <3>1. call[x] \in Login
      BY <2>2, CallKinds
    <3>2. call'[x] = [call[x] EXCEPT !.stray = TRUE]
      BY <2>2 DEF S!Overtake
    <3>3. call'[x] \in Login
      BY <3>1, <3>2 DEF Login
    <3> QED  BY <3>3 DEF Call, Login, Consumes, S!At
  <2>3. CASE x # q /\ call[x].op # "login" /\ S!At(x, "refresh", "issue")
    <3>1. call[x] \in Exchange
      BY <2>3, CallKinds DEF S!At
    <3>2. call'[x] = [call[x] EXCEPT !.stray = TRUE]
      BY <2>3 DEF S!Overtake
    <3>3. call'[x] \in Exchange /\ call'[x].of = call[x].of
      BY <3>1, <3>2 DEF Exchange
    <3> QED  BY <2>3, <3>3 DEF Call, Consumes, S!At
  <2>4. CASE x # q /\ call[x].op # "login" /\ ~S!At(x, "refresh", "issue")
    <3>1. call'[x] = call[x]
      BY <2>4 DEF S!Overtake
    <3> QED  BY <3>1 DEF SessionTypes, Consumes, S!At
  <2> QED  BY <2>1, <2>2, <2>3, <2>4
<1>2. call' \in [Requests -> Call]
  BY <1>1 DEF S!Overtake
<1> QED  BY <1>1, <1>2 DEF NoneConsumes

LEMMA AllRevoked ==
  ASSUME SessionTypes, S!revokeAllSessions
  PROVE  session' \in [SessionRows -> Session] /\ OnlyEnds
<1>1. ASSUME NEW s \in SessionRows
      PROVE  /\ session'[s] \in Session /\ session'[s].parent = session[s].parent
             /\ \/ session'[s].state = session[s].state
                \/ (session[s].state = "live") /\ (session'[s].state = "over")
  <2>1. session[s] \in Session
    BY DEF SessionTypes
  <2>2. session'[s] = IF s \in S!Live THEN [session[s] EXCEPT !.state = "over"] ELSE session[s]
    BY DEF S!revokeAllSessions
  <2> QED  BY <2>1, <2>2 DEF S!Live, Session
<1>2. session' \in [SessionRows -> Session]
  BY <1>1 DEF S!revokeAllSessions
<1> QED  BY <1>1, <1>2 DEF OnlyEnds

\* A step that leaves the codes and exchanges nothing keeps the invariant.
LEMMA Untouched ==
  ASSUME SessionsInv, SessionTypes', NoneConsumes, OnlyEnds, code' = code
  PROVE  SessionsInv'
BY ExchangesStay DEF SessionsInv, CodesInv

-----------------------------------------------------------------------------
\* Signing in.

LEMMA loginStep ==
  ASSUME SessionsInv, NEW q \in Requests, S!login(q)
  PROVE  SessionsInv'
<1>1. PICK typed \in 0..account.password \cup {S!Wrong} :
        S!Ask(q, [op |-> "login", pc |-> "verify", typed |-> typed, failed |-> account.failed,
                  password |-> account.password, of |-> S!None, stray |-> FALSE])
  BY DEF S!login
<1> DEFINE r == [op |-> "login", pc |-> "verify", typed |-> typed, failed |-> account.failed,
                 password |-> account.password, of |-> S!None, stray |-> FALSE]
<1>2. r \in Login /\ r.op = "login"
  BY DEF SessionsInv, SessionTypes, Login, Passwords, S!Wrong, Account
<1>3. r \in Call /\ S!Ask(q, r) /\ (r.op = "refresh" => r.pc # "issue")
  BY <1>1, <1>2 DEF Call
<1> HIDE DEF r
<1> QED  BY <1>3, AskedTypes, Untouched DEF SessionsInv

LEMMA RefuseLoginStep ==
  ASSUME SessionsInv, NEW q \in Requests, S!RefuseLogin(q)
  PROVE  SessionsInv'
<1>1. call' \in [Requests -> Call] /\ NoneConsumes
  BY DoneCalls DEF S!RefuseLogin, SessionsInv
<1>2. call[q] \in Login
  BY CallKinds DEF S!RefuseLogin, S!At, SessionsInv
<1>3. account' \in Account
  <2> DEFINE n == call[q].failed + 1
             l == n >= MaxFailed
  <2>1. n \in Nat /\ l \in BOOLEAN
    BY <1>2 DEF Login
  <2>2. account' = [account EXCEPT !.failed = n, !.locked = l]
    BY DEF S!RefuseLogin
  <2> HIDE DEF n, l
  <2> QED  BY <2>1, <2>2 DEF SessionsInv, SessionTypes, Account
<1> QED  BY <1>1, <1>3, Untouched DEF S!RefuseLogin, SessionsInv, SessionTypes, OnlyEnds

LEMMA AcceptLoginStep ==
  ASSUME SessionsInv, NEW q \in Requests, S!AcceptLogin(q)
  PROVE  SessionsInv'
<1>1. call[q] \in Login
  BY CallKinds DEF S!AcceptLogin, S!At, SessionsInv
<1> DEFINE r == [call[q] EXCEPT !.pc = "issue"]
<1>2. r \in Login
  BY <1>1 DEF Login
<1>3. r \in Call /\ (r.op = "refresh" => r.pc # "issue") /\ call' = [call EXCEPT ![q] = r]
  BY <1>2 DEF Login, Call, S!AcceptLogin, S!Go
<1>4. call' \in [Requests -> Call] /\ NoneConsumes
  <2> HIDE DEF r
  <2> QED  BY <1>3, SetCall DEF SessionsInv
<1>5. account' \in Account
  BY DEF S!AcceptLogin, S!Unlocked, SessionsInv, SessionTypes, Account
<1> QED  BY <1>4, <1>5, Untouched DEF S!AcceptLogin, SessionsInv, SessionTypes, OnlyEnds

LEMMA NewRowUnused ==
  ASSUME S!Unused # {}
  PROVE  S!NewRow \in SessionRows /\ session[S!NewRow].state = S!None
BY DEF S!NewRow, S!Unused

\* The first session of a login follows no other.
LEMMA issueTokensStep ==
  ASSUME SessionsInv, NEW q \in Requests, S!issueTokens(q), S!SessionConstants
  PROVE  SessionsInv'
<1> DEFINE n == S!NewRow
           new == S!NewSession(q)
<1>1. call[q] \in Login
  BY CallKinds DEF S!issueTokens, S!At, SessionsInv
<1>2. new \in Session /\ new.parent = S!None /\ new.state = "live"
  BY <1>1 DEF S!NewSession, Login, Session, SessionsInv, SessionTypes
<1>3. n \in SessionRows /\ session[n].state = S!None
  BY NewRowUnused DEF S!issueTokens
<1>4. session' = [session EXCEPT ![n] = new]
  BY DEF S!issueTokens
<1>5. \A s \in SessionRows : session'[s] = IF s = n THEN new ELSE session[s]
  BY <1>3, <1>4 DEF SessionsInv, SessionTypes
<1> HIDE DEF n, new
<1>6. call' \in [Requests -> Call] /\ NoneConsumes
  BY DoneCalls DEF S!issueTokens, SessionsInv
<1>7. SessionTypes'
  <2>1. UNCHANGED <<account, code>>
    BY DEF S!issueTokens
  <2>2. session' \in [SessionRows -> Session]
    BY <1>2, <1>4 DEF SessionsInv, SessionTypes
  <2> QED  BY <2>1, <2>2, <1>6 DEF SessionsInv, SessionTypes
<1>8. ConsumedOnce'
  <2> SUFFICES ASSUME NEW x \in Requests, NEW s \in SessionRows, Consumes(x, s)'
               PROVE  /\ session'[s].state # S!None
                      /\ \A t \in SessionRows : session'[t].parent # s
                      /\ \A y \in Requests : Consumes(y, s)' => y = x
    BY DEF ConsumedOnce
  <2>1. Consumes(x, s)
    BY <1>6 DEF NoneConsumes
  <2>2. session'[s].state # S!None
    BY <2>1, <1>3, <1>5 DEF SessionsInv, ConsumedOnce
  <2>3. \A t \in SessionRows : session'[t].parent # s
    BY <2>1, <1>2, <1>5 DEF SessionsInv, ConsumedOnce, S!SessionConstants, S!None
  <2>4. \A y \in Requests : Consumes(y, s)' => y = x
    BY <2>1, <1>6 DEF SessionsInv, ConsumedOnce, NoneConsumes
  <2> QED  BY <2>2, <2>3, <2>4
<1>9. Succeeded'
  <2>1. \A s \in SessionRows : session'[s].parent # S!None => s # n /\ session[s].parent = session'[s].parent
    BY <1>2, <1>5
  <2>2. \A s, t \in SessionRows : session'[s].parent = session'[t].parent /\ session'[s].parent # S!None
                            => s = t
    BY <2>1 DEF SessionsInv, Succeeded
  <2>3. ASSUME NEW s \in SessionRows, session'[s].parent # S!None
        PROVE  session'[session'[s].parent].state = "over"
    <3>1. session[s].parent \in SessionRows /\ session[session[s].parent].state = "over"
      BY <2>1, <2>3 DEF SessionsInv, SessionTypes, Session, Succeeded
    <3>2. session[s].parent # n
      BY <3>1, <1>3 DEF S!None
    <3> QED  BY <2>1, <2>3, <3>1, <3>2, <1>5
  <2> QED  BY <2>2, <2>3 DEF Succeeded
<1>10. CodesInv'
  BY DEF S!issueTokens, SessionsInv, CodesInv
<1> QED  BY <1>7, <1>8, <1>9, <1>10 DEF SessionsInv

-----------------------------------------------------------------------------
\* The exchange of a token.

LEMMA refreshStep ==
  ASSUME SessionsInv, NEW q \in Requests, S!refresh(q)
  PROVE  SessionsInv'
<1>1. PICK s \in S!Live :
        S!Ask(q, [op |-> "refresh", pc |-> "consume", of |-> s,
                  password |-> session[s].password, stray |-> FALSE])
  BY DEF S!refresh
<1> DEFINE r == [op |-> "refresh", pc |-> "consume", of |-> s,
                 password |-> session[s].password, stray |-> FALSE]
<1>2. r \in Exchange /\ r.pc = "consume"
  BY DEF SessionsInv, SessionTypes, Exchange, Session, S!Live
<1>3. r \in Call /\ S!Ask(q, r) /\ (r.op = "refresh" => r.pc # "issue")
  BY <1>1, <1>2 DEF Call
<1> HIDE DEF r
<1> QED  BY <1>3, AskedTypes, Untouched DEF SessionsInv

\* Consuming: the token is live, so nothing has followed it; and nobody else is
\* in the middle of its exchange.
LEMMA ConsumeStep ==
  ASSUME SessionsInv, NEW q \in Requests, S!Consume(q), S!SessionConstants
  PROVE  SessionsInv'
<1>1. CASE S!Done(q)
  <2>1. call' \in [Requests -> Call] /\ NoneConsumes
    BY <1>1, DoneCalls DEF SessionsInv
  <2> QED  BY <2>1, Untouched DEF S!Consume, SessionsInv, SessionTypes, OnlyEnds
<1>2. CASE call[q].of \in S!Live /\ S!Go(q, "issue")
  <2>1. call[q] \in Exchange
    BY CallKinds DEF S!Consume, S!At, SessionsInv
  <2>0. PICK f \in SessionRows : f = call[q].of
    BY <2>1 DEF Exchange
  <2> DEFINE r == [call[q] EXCEPT !.pc = "issue"]
  <2>2. r \in Exchange /\ r.of = f /\ f \in SessionRows
    BY <2>1, <2>0 DEF Exchange
  <2>3. call' = [call EXCEPT ![q] = r] /\ call' \in [Requests -> Call]
    BY <1>2, <2>2 DEF S!Go, SessionsInv, SessionTypes, Call
  <2>4. \A x \in Requests : call'[x] = IF x = q THEN r ELSE call[x]
    BY <2>3 DEF SessionsInv, SessionTypes
  <2>5. \A x \in Requests : ~Consumes(x, f)
    BY <2>0 DEF S!Consume, S!Held, Consumes, S!At
  <2>6. session' = session /\ session[f].state = "live"
    BY <1>2, <2>0 DEF S!Consume, S!Live
  <2>7. \A t \in SessionRows : session[t].parent # f
    BY <2>2, <2>6 DEF SessionsInv, Succeeded, S!SessionConstants, S!None
  <2> HIDE DEF r
  <2>8. ASSUME NEW x \in Requests, NEW s \in SessionRows, Consumes(x, s)'
        PROVE  (x # q /\ s # f /\ Consumes(x, s)) \/ (x = q /\ s = f)
    BY <2>8, <2>2, <2>4, <2>5 DEF Consumes, S!At
  <2>9. ConsumedOnce'
    <3> SUFFICES ASSUME NEW x \in Requests, NEW s \in SessionRows, Consumes(x, s)'
                 PROVE  /\ session[s].state # S!None
                        /\ \A t \in SessionRows : session[t].parent # s
                        /\ \A y \in Requests : Consumes(y, s)' => y = x
      BY <2>6 DEF ConsumedOnce
    <3>1. CASE s = f
      BY <3>1, <2>6, <2>7, <2>8 DEF S!None
    <3>2. CASE s # f
      BY <3>2, <2>8 DEF SessionsInv, ConsumedOnce
    <3> QED  BY <3>1, <3>2
  <2> QED  BY <2>3, <2>6, <2>9 DEF S!Consume, SessionsInv, SessionTypes, Succeeded, CodesInv
<1> QED  BY <1>1, <1>2 DEF S!Consume

\* Replacing: the successor takes an unused row, and its token is over.
LEMMA RotateStep ==
  ASSUME SessionsInv, NEW q \in Requests, S!Rotate(q), S!SessionConstants
  PROVE  SessionsInv'
<1> DEFINE n == S!NewRow
           new == S!NewSession(q)
<1>1. call[q] \in Exchange
  BY CallKinds DEF S!Rotate, S!At, SessionsInv
<1>0. PICK f \in SessionRows : f = call[q].of
  BY <1>1 DEF Exchange
<1> DEFINE old == [session[f] EXCEPT !.state = "over"]
<1>2. new \in Session /\ new.parent = f /\ f \in SessionRows /\ f # S!None
  BY <1>1, <1>0 DEF S!NewSession, Exchange, Session, SessionsInv, SessionTypes, S!SessionConstants, S!None
<1>3. n \in SessionRows /\ session[n].state = S!None
  BY NewRowUnused DEF S!Rotate
<1>4. Consumes(q, f)
  BY <1>0 DEF S!Rotate, Consumes
<1>5. /\ session[f].state # S!None
      /\ \A t \in SessionRows : session[t].parent # f
      /\ \A x \in Requests : Consumes(x, f) => x = q
  BY <1>2, <1>4 DEF SessionsInv, ConsumedOnce
<1>6. n # f
  BY <1>3, <1>5
<1>7. old \in Session /\ old.state = "over" /\ old.parent = session[f].parent
  BY <1>2 DEF SessionsInv, SessionTypes, Session
<1>8. \A s \in SessionRows : session'[s] = IF s = n THEN new ELSE IF s = f THEN old ELSE session[s]
  BY <1>0, <1>3, <1>6 DEF S!Rotate, SessionsInv, SessionTypes
<1>9. session' \in [SessionRows -> Session]
  <2>1. DOMAIN session' = SessionRows /\ session' = [s \in SessionRows |-> session'[s]]
    BY DEF S!Rotate, SessionsInv, SessionTypes
  <2> HIDE DEF n, new, old
  <2>2. \A s \in SessionRows : session'[s] \in Session
    BY <1>2, <1>7, <1>8 DEF SessionsInv, SessionTypes
  <2> QED  BY <2>1, <2>2
<1>10. call' \in [Requests -> Call] /\ NoneConsumes /\ ~Consumes(q, f)'
  BY DoneCalls DEF S!Rotate, SessionsInv, S!Done, Consumes, S!At, S!Free, SessionTypes
<1>11. CodesInv'
  BY DEF S!Rotate, SessionsInv, CodesInv
<1>12. UNCHANGED <<account, code>>
  BY DEF S!Rotate
<1> HIDE DEF n, new, old
<1>13. SessionTypes'
  BY <1>9, <1>10, <1>12 DEF SessionsInv, SessionTypes
<1>14. ConsumedOnce'
  <2> SUFFICES ASSUME NEW x \in Requests, NEW s \in SessionRows, Consumes(x, s)'
               PROVE  /\ session'[s].state # S!None
                      /\ \A t \in SessionRows : session'[t].parent # s
                      /\ \A y \in Requests : Consumes(y, s)' => y = x
    BY DEF ConsumedOnce
  <2>1. Consumes(x, s)
    BY <1>10 DEF NoneConsumes
  <2>2. s # f
    BY <2>1, <1>5, <1>10
  <2>3. session[s].state # S!None /\ \A t \in SessionRows : session[t].parent # s
    BY <2>1 DEF SessionsInv, ConsumedOnce
  <2>4. session'[s].state # S!None
    BY <2>2, <2>3, <1>3, <1>8
  <2>5. \A t \in SessionRows : session'[t].parent # s
    BY <2>2, <2>3, <1>2, <1>7, <1>8
  <2>6. \A y \in Requests : Consumes(y, s)' => y = x
    BY <2>1, <1>10 DEF SessionsInv, ConsumedOnce, NoneConsumes
  <2> QED  BY <2>4, <2>5, <2>6
<1>15. Succeeded'
  <2>1. ASSUME NEW s \in SessionRows
        PROVE  session'[s].parent = IF s = n THEN f ELSE session[s].parent
    BY <1>2, <1>7, <1>8
  <2>2. \A s, t \in SessionRows : session'[s].parent = session'[t].parent /\ session'[s].parent # S!None
                            => s = t
    BY <2>1, <1>5 DEF SessionsInv, Succeeded
  <2>3. ASSUME NEW s \in SessionRows, session'[s].parent # S!None
        PROVE  session'[session'[s].parent].state = "over"
    <3>1. CASE s = n
      BY <3>1, <2>1, <1>2, <1>3, <1>6, <1>7, <1>8
    <3>2. CASE s # n
      <4>1. session[s].parent \in SessionRows /\ session[session[s].parent].state = "over"
        BY <3>2, <2>1, <2>3 DEF SessionsInv, SessionTypes, Session, Succeeded
      <4>2. session[s].parent # n
        BY <4>1, <1>3 DEF S!None
      <4> QED  BY <3>2, <2>1, <4>1, <4>2, <1>7, <1>8
    <3> QED  BY <3>1, <3>2
  <2> QED  BY <2>2, <2>3 DEF Succeeded
<1> QED  BY <1>11, <1>13, <1>14, <1>15 DEF SessionsInv

-----------------------------------------------------------------------------
\* Ending sessions and changing passwords.

LEMMA NewAccounts ==
  ASSUME SessionTypes, S!SessionConstants
  PROVE  /\ S!Unlocked(account) \in Account
         /\ S!MayChange => S!NewPassword \in Account /\ S!Unlocked(S!NewPassword) \in Account
<1>1. ASSUME NEW a \in Account PROVE S!Unlocked(a) \in Account
  BY <1>1 DEF S!Unlocked, Account
<1>2. ASSUME S!MayChange PROVE S!NewPassword \in Account
  <2>1. account.password + 1 \in Passwords
    BY <1>2 DEF S!MayChange, SessionTypes, Account, Passwords, S!SessionConstants
  <2> QED  BY <2>1 DEF S!NewPassword, SessionTypes, Account
<1> QED  BY <1>1, <1>2 DEF SessionTypes

LEMMA logoutStep ==
  ASSUME SessionsInv, S!logout
  PROVE  SessionsInv'
<1>1. PICK s \in S!Live \ S!Held : session' = [session EXCEPT ![s].state = "over"]
  BY DEF S!logout
<1>2. session' \in [SessionRows -> Session] /\ OnlyEnds
  BY <1>1 DEF SessionsInv, SessionTypes, Session, S!Live, OnlyEnds
<1>3. NoneConsumes
  BY DEF S!logout, NoneConsumes, Consumes, S!At
<1> QED  BY <1>2, <1>3, Untouched DEF S!logout, SessionsInv, SessionTypes

\* A change of the password or of the status is asked for.
LEMMA ChangeStep ==
  ASSUME SessionsInv, NEW q \in Requests,
         \E op \in {"change", "activate", "deactivate"} : S!Ask(q, [op |-> op, pc |-> "write"])
  PROVE  SessionsInv'
<1>1. PICK op \in {"change", "activate", "deactivate"} : S!Ask(q, [op |-> op, pc |-> "write"])
  OBVIOUS
<1> DEFINE r == [op |-> op, pc |-> "write"]
<1>2. r \in Call /\ S!Ask(q, r) /\ (r.op = "refresh" => r.pc # "issue")
  BY <1>1 DEF Call, Change
<1> HIDE DEF r
<1> QED  BY <1>2, AskedTypes, Untouched DEF SessionsInv

\* A change goes on to end the sessions.
LEMMA GoesOn ==
  ASSUME SessionTypes, NEW q \in Requests, call[q].op \in {"change", "activate", "deactivate"},
         S!Go(q, "revoke")
  PROVE  call' \in [Requests -> Call] /\ NoneConsumes
<1> DEFINE r == [call[q] EXCEPT !.pc = "revoke"]
<1>1. call[q] \in Change
  BY CallKinds
<1>2. r \in Change /\ r.op # "refresh"
  BY <1>1 DEF Change
<1>3. r \in Call /\ call' = [call EXCEPT ![q] = r]
  BY <1>2 DEF Call, S!Go
<1> HIDE DEF r
<1> QED  BY <1>2, <1>3, SetCall

LEMMA WritePasswordStep ==
  ASSUME SessionsInv, NEW q \in Requests, S!WritePassword(q), S!SessionConstants
  PROVE  SessionsInv'
<1>1. call' \in [Requests -> Call] /\ NoneConsumes
  BY GoesOn DEF S!WritePassword, S!At, SessionsInv
<1>2. account' \in Account
  BY NewAccounts DEF S!WritePassword, SessionsInv
<1> QED  BY <1>1, <1>2, Untouched DEF S!WritePassword, SessionsInv, SessionTypes, OnlyEnds

LEMMA WriteStatusStep ==
  ASSUME SessionsInv, NEW q \in Requests, S!WriteStatus(q)
  PROVE  SessionsInv'
<1>1. call' \in [Requests -> Call] /\ NoneConsumes
  <2>1. CASE S!Done(q)
    BY <2>1, DoneCalls DEF SessionsInv
  <2>2. CASE S!Go(q, "revoke")
    BY <2>2, GoesOn DEF S!WriteStatus, SessionsInv
  <2> QED  BY <2>1, <2>2 DEF S!WriteStatus
<1>2. account' \in Account
  <2> DEFINE a == call[q].op = "activate"
  <2>1. a \in BOOLEAN /\ account' = [account EXCEPT !.active = a]
    BY DEF S!WriteStatus
  <2> HIDE DEF a
  <2> QED  BY <2>1 DEF SessionsInv, SessionTypes, Account
<1>3. UNCHANGED <<session, code>>
  BY DEF S!WriteStatus
<1>4. SessionTypes' /\ OnlyEnds
  BY <1>1, <1>2, <1>3 DEF SessionsInv, SessionTypes, OnlyEnds
<1> QED  BY <1>1, <1>3, <1>4, Untouched

LEMMA RevokeAllStep ==
  ASSUME SessionsInv, NEW q \in Requests, S!RevokeAll(q)
  PROVE  SessionsInv'
<1>1. call' \in [Requests -> Call] /\ NoneConsumes
  BY Overtaken DEF S!RevokeAll, SessionsInv
<1>2. session' \in [SessionRows -> Session] /\ OnlyEnds
  BY AllRevoked DEF S!RevokeAll, SessionsInv
<1> QED  BY <1>1, <1>2, Untouched DEF S!RevokeAll, SessionsInv, SessionTypes

LEMMA updateUserStep ==
  ASSUME SessionsInv, NEW q \in Requests, S!updateUser(q), S!SessionConstants
  PROVE  SessionsInv'
<1>1. call' \in [Requests -> Call] /\ NoneConsumes
  BY Overtaken DEF S!updateUser, SessionsInv
<1>2. session' \in [SessionRows -> Session] /\ OnlyEnds
  BY AllRevoked DEF S!updateUser, SessionsInv
<1>3. account' \in Account
  BY NewAccounts DEF S!updateUser, SessionsInv
<1> QED  BY <1>1, <1>2, <1>3, Untouched DEF S!updateUser, SessionsInv, SessionTypes

-----------------------------------------------------------------------------
\* Reset codes.

Code == [state : {S!None, "fresh", "used", "expired"}, uses : Nat]

\* Codes that are not used may be created and expire.
CodesWait ==
    \A c \in ResetCodes :
        /\ code'[c].uses = code[c].uses
        /\ \/ code'[c].state = code[c].state
           \/ code[c].state # "used" /\ code'[c].state # "used"

LEMMA CodesStay ==
  ASSUME SessionsInv, SessionTypes', NoneConsumes, OnlyEnds, CodesWait
  PROVE  SessionsInv'
<1>1. CodesInv'
  BY DEF SessionsInv, CodesInv, CodesWait
<1> QED  BY <1>1, ExchangesStay DEF SessionsInv

LEMMA forgotPasswordStep ==
  ASSUME SessionsInv, NEW q \in Requests, S!forgotPassword(q)
  PROVE  SessionsInv'
<1> DEFINE r == [op |-> "forgot", pc |-> "create"]
<1>1. r \in Call /\ r.op # "refresh" /\ call' = [call EXCEPT ![q] = r]
  BY DEF Call, Change, S!forgotPassword
<1>2. call' \in [Requests -> Call] /\ NoneConsumes
  <2> HIDE DEF r
  <2> QED  BY <1>1, SetCall DEF SessionsInv
<1>3. ASSUME NEW c \in ResetCodes
      PROVE  /\ code'[c] \in Code /\ code'[c].uses = code[c].uses
             /\ \/ code'[c].state = code[c].state
                \/ code[c].state # "used" /\ code'[c].state # "used"
  <2>1. code[c] \in Code
    BY DEF SessionsInv, SessionTypes, Code
  <2>2. code'[c] = IF code[c].state = "fresh" THEN [code[c] EXCEPT !.state = "expired"] ELSE code[c]
    BY DEF S!forgotPassword
  <2> QED  BY <2>1, <2>2 DEF Code
<1>4. code' \in [ResetCodes -> Code] /\ CodesWait
  BY <1>3 DEF S!forgotPassword, CodesWait
<1>5. UNCHANGED <<account, session>>
  BY DEF S!forgotPassword
<1> QED  BY <1>2, <1>4, <1>5, CodesStay DEF SessionsInv, SessionTypes, Code, OnlyEnds

\* One code is created or expires.
LEMMA SetCode ==
  ASSUME SessionTypes, NEW c \in ResetCodes, code[c].state # "used", NEW new \in {"fresh", "expired"},
         code' = [code EXCEPT ![c].state = new]
  PROVE  code' \in [ResetCodes -> Code] /\ CodesWait
<1>1. code \in [ResetCodes -> Code]
  BY DEF SessionTypes, Code
<1>2. [code[c] EXCEPT !.state = new] \in Code
  BY <1>1 DEF Code
<1>3. code' \in [ResetCodes -> Code]
  BY <1>1, <1>2
<1>4. CodesWait
  BY <1>1 DEF CodesWait, Code
<1> QED  BY <1>3, <1>4

LEMMA CreateCodeStep ==
  ASSUME SessionsInv, NEW q \in Requests, S!CreateCode(q)
  PROVE  SessionsInv'
<1>1. call' \in [Requests -> Call] /\ NoneConsumes
  BY DoneCalls DEF S!CreateCode, SessionsInv
<1>2. code' \in [ResetCodes -> Code] /\ CodesWait
  BY SetCode DEF S!CreateCode, SessionsInv, S!None
<1> QED  BY <1>1, <1>2, CodesStay DEF S!CreateCode, SessionsInv, SessionTypes, Code, OnlyEnds

LEMMA LapseStep ==
  ASSUME SessionsInv, S!Lapse
  PROVE  SessionsInv'
<1>1. NoneConsumes
  BY DEF S!Lapse, NoneConsumes, Consumes, S!At
<1>2. code' \in [ResetCodes -> Code] /\ CodesWait
  BY SetCode DEF S!Lapse, SessionsInv
<1> QED  BY <1>1, <1>2, CodesStay DEF S!Lapse, SessionsInv, SessionTypes, Code, OnlyEnds

LEMMA resetPasswordStep ==
  ASSUME SessionsInv, NEW q \in Requests, S!resetPassword(q)
  PROVE  SessionsInv'
<1>1. PICK c \in ResetCodes : S!Ask(q, [op |-> "reset", pc |-> "write", code |-> c])
  BY DEF S!resetPassword
<1> DEFINE r == [op |-> "reset", pc |-> "write", code |-> c]
<1>2. r \in Call /\ r.op # "refresh" /\ S!Ask(q, r)
  BY <1>1 DEF Call, ResetCall
<1> HIDE DEF r
<1> QED  BY <1>2, AskedTypes, Untouched DEF SessionsInv

LEMMA ResetStep ==
  ASSUME SessionsInv, NEW q \in Requests, S!Reset(q), S!SessionConstants
  PROVE  SessionsInv'
<1>1. call' \in [Requests -> Call] /\ NoneConsumes
  BY Overtaken DEF S!Reset, SessionsInv
<1>2. session' \in [SessionRows -> Session] /\ OnlyEnds
  BY AllRevoked DEF S!Reset, SessionsInv
<1>3. account' \in Account
  BY NewAccounts DEF S!Reset, SessionsInv
<1>4. PICK c \in ResetCodes : c = call[q].code
  BY CallKinds DEF S!Reset, S!At, SessionsInv, ResetCall
<1>5. code[c] \in Code /\ code[c].state = "fresh" /\ code[c].uses = 0
  BY <1>4 DEF S!Reset, SessionsInv, SessionTypes, Code, CodesInv
<1> DEFINE used == [state |-> "used", uses |-> code[c].uses + 1]
<1>6. code' = [code EXCEPT ![c] = used]
  BY <1>4 DEF S!Reset
<1>7. used \in Code /\ used.state = "used" /\ used.uses = 1
  BY <1>5 DEF Code
<1> HIDE DEF used
<1>8. code' \in [ResetCodes -> Code] /\ CodesInv'
  BY <1>6, <1>7 DEF SessionsInv, SessionTypes, Code, CodesInv
<1>9. ConsumedOnce' /\ Succeeded'
  BY <1>1, <1>2, ExchangesStay DEF SessionsInv
<1> QED  BY <1>1, <1>2, <1>3, <1>8, <1>9 DEF SessionsInv, SessionTypes, Code

-----------------------------------------------------------------------------
\* Minutes pass, and requests are lost.

LEMMA UnlockStep ==
  ASSUME SessionsInv, S!Unlock
  PROVE  SessionsInv'
<1>1. account' \in Account
  BY DEF S!Unlock, SessionsInv, SessionTypes, Account
<1>2. NoneConsumes /\ OnlyEnds
  BY DEF S!Unlock, NoneConsumes, Consumes, S!At, OnlyEnds
<1> QED  BY <1>1, <1>2, Untouched DEF S!Unlock, SessionsInv, SessionTypes

\* A lost exchange leaves its token as it was, without a successor.
LEMMA LoseStep ==
  ASSUME SessionsInv, NEW q \in Requests, S!Lose(q)
  PROVE  SessionsInv'
<1>1. call' \in [Requests -> Call] /\ NoneConsumes
  BY Overtaken, DoneCalls DEF S!Lose, SessionsInv
<1>2. ASSUME NEW s \in SessionRows
      PROVE  /\ session'[s] \in Session /\ session'[s].parent = session[s].parent
             /\ session'[s].state = session[s].state
  <2>1. session[s] \in Session
    BY DEF SessionsInv, SessionTypes
  <2>2. session'[s] = [session[s] EXCEPT !.stray = TRUE] \/ session'[s] = session[s]
    BY DEF S!Lose
  <2> QED  BY <2>1, <2>2 DEF Session
<1>3. session' \in [SessionRows -> Session] /\ OnlyEnds
  BY <1>2 DEF S!Lose, OnlyEnds
<1> QED  BY <1>1, <1>3, Untouched DEF S!Lose, SessionsInv, SessionTypes

-----------------------------------------------------------------------------
LEMMA SessionsInvInit ==
  ASSUME S!Init, S!SessionConstants
  PROVE  SessionsInv
<1>1. SessionTypes
  BY DEF S!Init, S!SessionConstants, SessionTypes, Passwords, Session, S!NoSession, S!None, Call, S!Free, Account
<1>2. \A q \in Requests, s \in SessionRows : ~Consumes(q, s)
  BY DEF S!Init, Consumes, S!At, S!Free
<1>3. \A s \in SessionRows : session[s].parent = S!None
  BY DEF S!Init, S!NoSession
<1>4. CodesInv
  BY DEF S!Init, CodesInv, S!None
<1> QED  BY <1>1, <1>2, <1>3, <1>4 DEF SessionsInv, ConsumedOnce, Succeeded

LEMMA SessionsInvNext ==
  ASSUME SessionsInv, [S!Next]_S!vars, S!SessionConstants
  PROVE  SessionsInv'
<1>1. ASSUME NEW q \in Requests, S!SignIn(q) PROVE SessionsInv'
  BY <1>1, loginStep, RefuseLoginStep, AcceptLoginStep, issueTokensStep, refreshStep,
     ConsumeStep, RotateStep DEF S!SignIn
<1>2. ASSUME NEW q \in Requests, S!changePassword(q) \/ S!setActive(q) PROVE SessionsInv'
  BY <1>2, ChangeStep DEF S!changePassword, S!setActive
<1>3. ASSUME NEW q \in Requests, S!Manage(q) PROVE SessionsInv'
  BY <1>2, <1>3, WritePasswordStep, RevokeAllStep, updateUserStep, WriteStatusStep,
     forgotPasswordStep, CreateCodeStep, resetPasswordStep, ResetStep DEF S!Manage
<1>4. CASE UNCHANGED S!vars
  <2>1. SessionTypes' /\ NoneConsumes /\ OnlyEnds /\ code' = code
    BY <1>4 DEF S!vars, SessionsInv, SessionTypes, NoneConsumes, Consumes, S!At, OnlyEnds
  <2> QED  BY <2>1, Untouched
<1> QED
  BY <1>1, <1>3, <1>4, LoseStep, logoutStep, LapseStep, UnlockStep DEF S!Next

LEMMA SessionsInductive ==
  ASSUME S!SessionConstants
  PROVE  S!Spec => []SessionsInv
<1>1. S!Init => SessionsInv
  BY SessionsInvInit
<1>2. SessionsInv /\ [S!Next]_S!vars => SessionsInv'
  BY SessionsInvNext
<1> QED  BY <1>1, <1>2, PTL DEF S!Spec


-----------------------------------------------------------------------------
\* Counters.

\* A refused login was counted once when it was asked; a code is used by a
\* request that was.
CountInv ==
    /\ made \in 0..MaxCalls
    /\ account.failed <= made
    /\ \A q \in Requests : call[q].op # "idle" => made >= 1
    /\ \A q \in Requests : call[q].op = "login" => call[q].failed + 1 <= made
    /\ \A c \in ResetCodes : code[c].state = "used" => made >= 1

\* Every request but q is where it was, or was overtaken.
OthersKeep(q) ==
    \A x \in Requests : x # q => /\ call'[x].op = call[x].op
                                 /\ call[x].op = "login" => call'[x].failed = call[x].failed

\* A request that goes on or ends is counted already.
LEMMA CountsStay ==
  ASSUME SessionsInv, SessionsInv', CountInv, made' = made \/ made' = made + 1, made' \in 0..MaxCalls,
         account'.failed <= made',
         NEW q \in Requests, OthersKeep(q),
         call'[q].op # "idle" => made' >= 1,
         call'[q].op = "login" => call'[q].failed + 1 <= made',
         \A c \in ResetCodes : code'[c].state = "used" => code[c].state = "used" \/ made' >= 1
  PROVE  CountInv'
<1>1. made \in Nat /\ made' \in Nat /\ made <= made'
  BY DEF CountInv
<1>2. ASSUME NEW x \in Requests, call'[x].op # "idle" PROVE made' >= 1
  BY <1>1, <1>2 DEF CountInv, OthersKeep
<1>3. ASSUME NEW x \in Requests, call'[x].op = "login" PROVE call'[x].failed + 1 <= made'
  <2>1. CASE x = q
    BY <2>1, <1>3
  <2>2. CASE x # q
    <3>1. call[x].op = "login" /\ call'[x].failed = call[x].failed
      BY <2>2, <1>3 DEF OthersKeep
    <3>2. call[x] \in Login
      BY <3>1, CallKinds DEF SessionsInv
    <3>3. call[x].failed \in Nat /\ call[x].failed + 1 <= made
      BY <3>1, <3>2 DEF Login, CountInv
    <3> QED  BY <3>1, <3>3, <1>1
  <2> QED  BY <2>1, <2>2
<1>4. \A c \in ResetCodes : code'[c].state = "used" => made' >= 1
  BY <1>1 DEF CountInv
<1> QED  BY <1>2, <1>3, <1>4 DEF CountInv

LEMMA OneCall ==
  ASSUME SessionTypes, NEW q \in Requests, NEW r, call' = [call EXCEPT ![q] = r]
  PROVE  call'[q] = r /\ OthersKeep(q)
BY DEF SessionTypes, OthersKeep

LEMMA OvertakenKeep ==
  ASSUME SessionTypes, NEW q \in Requests, S!Overtake(q, S!Free)
  PROVE  call'[q] = S!Free /\ OthersKeep(q)
<1>1. ASSUME NEW x \in Requests, x # q
      PROVE  /\ call'[x].op = call[x].op
             /\ call[x].op = "login" => call'[x].failed = call[x].failed
  <2>1. call'[x] = [call[x] EXCEPT !.stray = TRUE] \/ call'[x] = call[x]
    BY <1>1 DEF S!Overtake
  <2>2. CASE call'[x] = call[x]
    BY <2>2
  <2>3. CASE call'[x] = [call[x] EXCEPT !.stray = TRUE]
    <3>1. CASE call[x].op = "login"
      <4>1. call[x] \in Login
        BY <3>1, CallKinds
      <4> QED  BY <4>1, <2>3 DEF Login
    <3>2. CASE call[x].op # "login"
      BY <2>3, <3>2
    <3> QED  BY <3>1, <3>2
  <2> QED  BY <2>1, <2>2, <2>3
<1> QED  BY <1>1 DEF S!Overtake, OthersKeep

\* A request is asked: it is one more, and what it read of the count was below.
LEMMA CountAsked ==
  ASSUME SessionsInv, SessionsInv', CountInv, NEW q \in Requests, NEW r, S!Ask(q, r),
         r.op = "login" => r.failed = account.failed, S!SessionConstants
  PROVE  CountInv'
<1>1. made < MaxCalls /\ made' = made + 1 /\ UNCHANGED <<account, code>>
  BY DEF S!Ask
<1>2. account.failed \in Nat
  BY DEF SessionsInv, SessionTypes, Account
<1>3. made' \in 0..MaxCalls /\ made' >= 1 /\ account'.failed <= made' /\ account.failed + 1 <= made'
  BY <1>1, <1>2 DEF CountInv, S!SessionConstants
<1>4. call'[q] = r /\ OthersKeep(q)
  BY OneCall DEF S!Ask, SessionsInv
<1> QED  BY <1>1, <1>3, <1>4, CountsStay

\* A request goes on or ends, the count of the failures as it was or reset.
LEMMA CountKept ==
  ASSUME SessionsInv, SessionsInv', CountInv, NEW q \in Requests, OthersKeep(q), made' = made,
         account'.failed = account.failed \/ account'.failed = 0,
         call'[q].op # "idle" => call[q].op # "idle",
         call'[q].op = "login" => call[q].op = "login" /\ call'[q].failed = call[q].failed,
         \A c \in ResetCodes : code'[c].state = "used" => code[c].state = "used" \/ call[q].op # "idle"
  PROVE  CountInv'
<1>1. made \in Nat /\ made' \in 0..MaxCalls /\ account'.failed <= made'
  BY DEF CountInv
<1>2. call[q].op # "idle" => made' >= 1
  BY DEF CountInv
<1>3. call[q].op = "login" => call[q].failed + 1 <= made'
  BY DEF CountInv
<1> QED  BY <1>1, <1>2, <1>3, CountsStay

LEMMA CountSignIn ==
  ASSUME SessionsInv, SessionsInv', CountInv, NEW q \in Requests, S!SignIn(q), S!SessionConstants
  PROVE  CountInv'
<1>1. CASE S!login(q)
  <2>1. PICK typed \in 0..account.password \cup {S!Wrong} :
          S!Ask(q, [op |-> "login", pc |-> "verify", typed |-> typed, failed |-> account.failed,
                    password |-> account.password, of |-> S!None, stray |-> FALSE])
    BY <1>1 DEF S!login
  <2> QED  BY <2>1, CountAsked
<1>2. CASE S!RefuseLogin(q)
  <2>1. call'[q] = S!Free /\ OthersKeep(q)
    BY <1>2, OneCall DEF S!RefuseLogin, S!Done, SessionsInv
  <2>2. call[q] \in Login /\ call[q].op = "login"
    BY <1>2, CallKinds DEF S!RefuseLogin, S!At, SessionsInv
  <2>3. account'.failed = call[q].failed + 1
    BY <1>2 DEF S!RefuseLogin, SessionsInv, SessionTypes, Account
  <2>4. account'.failed <= made' /\ made' = made /\ code' = code /\ made' \in 0..MaxCalls
    BY <1>2, <2>2, <2>3 DEF S!RefuseLogin, CountInv
  <2> QED  BY <2>1, <2>4, CountsStay DEF S!Free
<1>3. CASE S!AcceptLogin(q)
  <2>1. call[q] \in Login /\ call[q].op = "login"
    BY <1>3, CallKinds DEF S!AcceptLogin, S!At, SessionsInv
  <2> DEFINE r == [call[q] EXCEPT !.pc = "issue"]
  <2>2. r.op = "login" /\ r.failed = call[q].failed
    BY <2>1 DEF Login
  <2>3. call'[q] = r /\ OthersKeep(q)
    BY <1>3, OneCall DEF S!AcceptLogin, S!Go, SessionsInv
  <2>4. account'.failed = 0 /\ made' = made /\ code' = code
    BY <1>3 DEF S!AcceptLogin, S!Unlocked, SessionsInv, SessionTypes, Account
  <2> HIDE DEF r
  <2> QED  BY <2>1, <2>2, <2>3, <2>4, CountKept
<1>4. CASE S!issueTokens(q)
  <2>1. call'[q] = S!Free /\ OthersKeep(q)
    BY <1>4, OneCall DEF S!issueTokens, S!Done, SessionsInv
  <2> QED  BY <1>4, <2>1, CountKept DEF S!Free, S!issueTokens
<1>5. CASE S!refresh(q)
  <2>1. PICK s \in S!Live :
          S!Ask(q, [op |-> "refresh", pc |-> "consume", of |-> s,
                    password |-> session[s].password, stray |-> FALSE])
    BY <1>5 DEF S!refresh
  <2> QED  BY <2>1, CountAsked
<1>6. CASE S!Consume(q)
  <2>1. call[q] \in Exchange
    BY <1>6, CallKinds DEF S!Consume, S!At, SessionsInv
  <2> DEFINE r == [call[q] EXCEPT !.pc = "issue"]
  <2>2. r.op = "refresh" /\ call[q].op = "refresh"
    BY <2>1 DEF Exchange
  <2>3. (call'[q] = S!Free \/ call'[q] = r) /\ OthersKeep(q)
    BY <1>6, OneCall DEF S!Consume, S!Go, S!Done, SessionsInv
  <2> HIDE DEF r
  <2> QED  BY <1>6, <2>2, <2>3, CountKept DEF S!Free, S!Consume
<1>7. CASE S!Rotate(q)
  <2>1. call'[q] = S!Free /\ OthersKeep(q)
    BY <1>7, OneCall DEF S!Rotate, S!Done, SessionsInv
  <2> QED  BY <1>7, <2>1, CountKept DEF S!Free, S!Rotate
<1> QED  BY <1>1, <1>2, <1>3, <1>4, <1>5, <1>6, <1>7 DEF S!SignIn

LEMMA CountManage ==
  ASSUME SessionsInv, SessionsInv', CountInv, NEW q \in Requests, S!Manage(q), S!SessionConstants
  PROVE  CountInv'
<1>1. CASE S!changePassword(q) \/ S!setActive(q)
  <2>1. PICK op \in {"change", "activate", "deactivate"} : S!Ask(q, [op |-> op, pc |-> "write"])
    BY <1>1 DEF S!changePassword, S!setActive
  <2> QED  BY <2>1, CountAsked
<1>2. CASE S!WritePassword(q) \/ S!WriteStatus(q)
  <2>1. call[q] \in Change /\ call[q].op \in {"change", "activate", "deactivate"}
    BY <1>2, CallKinds DEF S!WritePassword, S!WriteStatus, S!At, SessionsInv
  <2> DEFINE r == [call[q] EXCEPT !.pc = "revoke"]
  <2>2. r.op = call[q].op
    BY <2>1 DEF Change
  <2>3. (call'[q] = S!Free \/ call'[q] = r) /\ OthersKeep(q)
    BY <1>2, OneCall DEF S!WritePassword, S!WriteStatus, S!Go, S!Done, SessionsInv
  <2>4. account'.failed = account.failed
    BY <1>2 DEF S!WritePassword, S!WriteStatus, S!NewPassword, SessionsInv, SessionTypes, Account
  <2> HIDE DEF r
  <2> QED  BY <1>2, <2>1, <2>2, <2>3, <2>4, CountKept DEF S!Free, S!WritePassword, S!WriteStatus
<1>3. CASE S!RevokeAll(q)
  <2>1. call'[q] = S!Free /\ OthersKeep(q)
    BY <1>3, OvertakenKeep DEF S!RevokeAll, SessionsInv
  <2> QED  BY <1>3, <2>1, CountKept DEF S!Free, S!RevokeAll
<1>4. CASE S!updateUser(q)
  <2>1. call'[q] = S!Free /\ OthersKeep(q)
    BY <1>4, OvertakenKeep DEF S!updateUser, SessionsInv
  <2>2. account'.failed = 0
    BY <1>4 DEF S!updateUser, S!Unlocked, S!NewPassword, SessionsInv, SessionTypes, Account
  <2>3. made' = made + 1 /\ made' \in 0..MaxCalls /\ account'.failed <= made' /\ code' = code
    BY <1>4, <2>2 DEF S!updateUser, CountInv, S!SessionConstants
  <2> QED  BY <2>1, <2>3, CountsStay DEF S!Free
<1>5. CASE S!forgotPassword(q)
  <2>1. call'[q] = [op |-> "forgot", pc |-> "create"] /\ OthersKeep(q)
    BY <1>5, OneCall DEF S!forgotPassword, SessionsInv
  <2>2. made' = made + 1 /\ made' \in 0..MaxCalls /\ account'.failed <= made' /\ made' >= 1
    <3>1. account' = account /\ account.failed \in Nat /\ account.failed <= made /\ made \in Nat
      BY <1>5 DEF S!forgotPassword, CountInv, SessionsInv, SessionTypes, Account
    <3> QED  BY <1>5, <3>1 DEF S!forgotPassword, S!SessionConstants
  <2> QED  BY <2>1, <2>2, CountsStay
<1>6. CASE S!CreateCode(q)
  <2>1. call'[q] = S!Free /\ OthersKeep(q)
    BY <1>6, OneCall DEF S!CreateCode, S!Done, SessionsInv
  <2>2. PICK c \in ResetCodes : code' = [code EXCEPT ![c].state = "fresh"]
    BY <1>6 DEF S!CreateCode
  <2>3. \A d \in ResetCodes : code'[d].state = "used" => code[d].state = "used"
    BY <2>2 DEF SessionsInv, SessionTypes
  <2> QED  BY <1>6, <2>1, <2>3, CountKept DEF S!Free, S!CreateCode
<1>7. CASE S!resetPassword(q)
  <2>1. PICK c \in ResetCodes : S!Ask(q, [op |-> "reset", pc |-> "write", code |-> c])
    BY <1>7 DEF S!resetPassword
  <2> QED  BY <2>1, CountAsked
<1>8. CASE S!Reset(q)
  <2>1. call'[q] = S!Free /\ OthersKeep(q) /\ call[q].op = "reset"
    BY <1>8, OvertakenKeep DEF S!Reset, S!At, SessionsInv
  <2>2. account'.failed = 0
    BY <1>8 DEF S!Reset, S!Unlocked, S!NewPassword, SessionsInv, SessionTypes, Account
  <2> QED  BY <1>8, <2>1, <2>2, CountKept DEF S!Free, S!Reset
<1> QED  BY <1>1, <1>2, <1>3, <1>4, <1>5, <1>6, <1>7, <1>8 DEF S!Manage

LEMMA CountNext ==
  ASSUME SessionsInv, SessionsInv', CountInv, [S!Next]_S!vars, S!SessionConstants
  PROVE  CountInv'
<1>1. ASSUME NEW q \in Requests, S!Lose(q) PROVE CountInv'
  <2>1. call'[q] = S!Free /\ OthersKeep(q)
    BY <1>1, OvertakenKeep, OneCall DEF S!Lose, S!Done, SessionsInv
  <2> QED  BY <1>1, <2>1, CountKept DEF S!Free, S!Lose
<1>2. CASE S!logout \/ S!Unlock \/ S!Lapse \/ UNCHANGED S!vars
  <2>1. UNCHANGED <<call, made>> /\ account'.failed = account.failed
    BY <1>2 DEF S!logout, S!Unlock, S!Lapse, S!vars, SessionsInv, SessionTypes, Account
  <2>2. \A c \in ResetCodes : code'[c].state = "used" => code[c].state = "used"
    BY <1>2 DEF S!logout, S!Unlock, S!Lapse, S!vars, SessionsInv, SessionTypes
  <2> QED  BY <2>1, <2>2 DEF CountInv
<1> QED  BY <1>1, <1>2, CountSignIn, CountManage DEF S!Next

-----------------------------------------------------------------------------
\* Passwords.

\* A change of the password that has not ended the sessions yet.
Pending == \E q \in Requests : S!At(q, "change", "revoke")

\* What a session is, or becomes when its request commits: of the present
\* password, or a stray.
OkSession(s) == session[s].password = account.password \/ session[s].stray

OkCall(q) ==
    /\ call[q].op = "login" => call[q].password = account.password \/ call[q].stray
    /\ S!At(q, "refresh", "issue") => \/ call[q].password = account.password
                                      \/ call[q].stray \/ session[call[q].of].stray

\* An exchange carries the password of its session, which stays in its row.
Carries(q) ==
    call[q].op = "refresh" => /\ call[q].password = session[call[q].of].password
                              /\ session[call[q].of].state # S!None

PasswordInv ==
    /\ \A q \in Requests : Carries(q)
    /\ ~Pending => (\A s \in S!Live : OkSession(s)) /\ (\A q \in Requests : OkCall(q))

\* A row that is used keeps its password, and stays a stray.
RowsKeep ==
    \A s \in SessionRows : session[s].state # S!None =>
        /\ session'[s].state # S!None
        /\ session'[s].password = session[s].password
        /\ session[s].stray => session'[s].stray

\* Every request but q is what it was.
Others(q) == \A x \in Requests : x # q => call'[x] = call[x]

\* What Carries says of a request, and what it says of it after a step.
LEMMA CarriesOn ==
  ASSUME SessionsInv, RowsKeep, NEW x \in Requests, Carries(x),
         call'[x].op = "refresh" => /\ call[x].op = "refresh" /\ call'[x].of = call[x].of
                                    /\ call'[x].password = call[x].password
  PROVE  Carries(x)'
<1> SUFFICES ASSUME call'[x].op = "refresh"
             PROVE  /\ call'[x].password = session'[call'[x].of].password
                    /\ session'[call'[x].of].state # S!None
  BY DEF Carries
<1>1. call[x] \in Exchange
  BY CallKinds DEF SessionsInv
<1>2. call[x].of \in SessionRows
  BY <1>1 DEF Exchange
<1> QED  BY <1>2 DEF Carries, RowsKeep

\* One request goes on and the password stays.
LEMMA PasswordKept ==
  ASSUME SessionsInv, PasswordInv, RowsKeep, account'.password = account.password,
         NEW q \in Requests, Others(q),
         ~S!At(q, "change", "revoke"), Carries(q)',
         ~Pending => OkCall(q)',
         ~Pending => \A s \in S!Live' : OkSession(s)'
  PROVE  PasswordInv'
<1>1. ASSUME NEW x \in Requests PROVE Carries(x)'
  <2>1. CASE x = q
    BY <2>1
  <2>2. CASE x # q
    BY <2>2, CarriesOn DEF PasswordInv, Others
  <2> QED  BY <2>1, <2>2
<1>2. ASSUME ~Pending', NEW x \in Requests PROVE ~S!At(x, "change", "revoke")
  BY <1>2 DEF Pending, Others, S!At
<1>3. ASSUME ~Pending' PROVE ~Pending
  BY <1>2, <1>3 DEF Pending
<1>4. ASSUME ~Pending', NEW x \in Requests PROVE OkCall(x)'
  <2>1. CASE x = q
    BY <1>3, <1>4, <2>1
  <2>2. CASE x # q
    <3>1. call'[x] = call[x] /\ OkCall(x) /\ Carries(x)
      BY <2>2, <1>3, <1>4 DEF Others, PasswordInv
    <3>2. call[x].op = "refresh" => call[x].of \in SessionRows
      BY CallKinds DEF SessionsInv, Exchange
    <3> QED  BY <3>1, <3>2 DEF OkCall, S!At, RowsKeep, Carries
  <2> QED  BY <2>1, <2>2
<1> QED  BY <1>1, <1>3, <1>4 DEF PasswordInv

\* No live session is new.
LEMMA LiveStay ==
  ASSUME PasswordInv, RowsKeep, account'.password = account.password, OnlyEnds
  PROVE  ~Pending => \A s \in S!Live' : OkSession(s)'
<1> SUFFICES ASSUME ~Pending, NEW s \in S!Live' PROVE OkSession(s)'
  OBVIOUS
<1>1. s \in S!Live /\ session[s].state # S!None
  BY DEF S!Live, OnlyEnds, S!None
<1> QED  BY <1>1 DEF PasswordInv, OkSession, RowsKeep, S!Live

\* A request that is not in the middle of a login or an exchange.
LEMMA PasswordQuiet ==
  ASSUME SessionsInv, PasswordInv, RowsKeep, OnlyEnds, account'.password = account.password,
         NEW q \in Requests, Others(q), ~S!At(q, "change", "revoke"),
         call'[q].op \notin {"login", "refresh"}
  PROVE  PasswordInv'
<1>1. Carries(q)' /\ OkCall(q)'
  BY DEF Carries, OkCall, S!At
<1> QED  BY <1>1, LiveStay, PasswordKept

\* Every session is ended, or stray, and every login and exchange is overtaken.
LEMMA AllStray ==
  ASSUME SessionsInv, PasswordInv, RowsKeep, NEW q \in Requests, S!Overtake(q, S!Free),
         \A s \in S!Live' : OkSession(s)'
  PROVE  PasswordInv'
<1>1. ASSUME NEW x \in Requests PROVE Carries(x)' /\ OkCall(x)'
  <2>1. CASE x = q
    BY <2>1 DEF S!Overtake, S!Free, Carries, OkCall, S!At
  <2>2. CASE x # q /\ call[x].op = "login"
    <3>1. call[x] \in Login
      BY <2>2, CallKinds DEF SessionsInv
    <3>2. call'[x] = [call[x] EXCEPT !.stray = TRUE]
      BY <2>2 DEF S!Overtake
    <3>3. call'[x].op = "login" /\ call'[x].stray
      BY <3>1, <3>2 DEF Login
    <3> QED  BY <3>3 DEF Carries, OkCall, S!At
  <2>3. CASE x # q /\ S!At(x, "refresh", "issue")
    <3>1. call[x] \in Exchange
      BY <2>3, CallKinds DEF SessionsInv, S!At
    <3>2. call'[x] = [call[x] EXCEPT !.stray = TRUE]
      BY <2>3 DEF S!Overtake
    <3>3. /\ call'[x].op = "refresh" /\ call'[x].stray /\ call'[x].of = call[x].of
          /\ call'[x].password = call[x].password /\ call[x].op = "refresh"
      BY <3>1, <3>2 DEF Exchange
    <3>4. Carries(x)'
      BY <3>3, CarriesOn DEF PasswordInv
    <3> QED  BY <3>3, <3>4 DEF OkCall
  <2>4. CASE x # q /\ call[x].op # "login" /\ ~S!At(x, "refresh", "issue")
    <3>1. call'[x] = call[x]
      BY <2>4 DEF S!Overtake
    <3>2. Carries(x)'
      BY <3>1, CarriesOn DEF PasswordInv
    <3> QED  BY <2>4, <3>1, <3>2 DEF OkCall, S!At
  <2> QED  BY <2>1, <2>2, <2>3, <2>4
<1> QED  BY <1>1 DEF PasswordInv

\* The rows under a step that changes only states, and under one that ends all.
LEMMA RowsRevoked ==
  ASSUME SessionTypes, S!revokeAllSessions
  PROVE  RowsKeep /\ S!Live' = {}
<1>1. ASSUME NEW s \in SessionRows
      PROVE  /\ session[s].state # S!None => session'[s].state # S!None
             /\ session'[s].password = session[s].password
             /\ session[s].stray => session'[s].stray
             /\ session'[s].state # "live"
  <2>1. session[s] \in Session
    BY DEF SessionTypes
  <2>2. session'[s] = IF s \in S!Live THEN [session[s] EXCEPT !.state = "over"] ELSE session[s]
    BY DEF S!revokeAllSessions
  <2> QED  BY <2>1, <2>2 DEF S!Live, Session, S!None
<1> QED  BY <1>1 DEF RowsKeep, S!Live

LEMMA OtherCalls ==
  ASSUME SessionTypes, NEW q \in Requests, NEW r, call' = [call EXCEPT ![q] = r]
  PROVE  call'[q] = r /\ Others(q)
BY DEF SessionTypes, Others

LEMMA Asked ==
  ASSUME SessionTypes, NEW q \in Requests, NEW r, S!Ask(q, r)
  PROVE  call'[q] = r /\ Others(q) /\ UNCHANGED <<account, session>> /\ call[q].op = "idle"
<1>1. call' = [call EXCEPT ![q] = r] /\ call[q] = S!Free /\ UNCHANGED <<account, session>>
  BY DEF S!Ask
<1>2. call'[q] = r /\ Others(q)
  BY <1>1, OtherCalls
<1> QED  BY <1>1, <1>2 DEF S!Free

LEMMA RowsSame ==
  ASSUME session' = session
  PROVE  RowsKeep /\ OnlyEnds
BY DEF RowsKeep, OnlyEnds

\* The session of a new row.
LEMMA RowAdded ==
  ASSUME SessionsInv, NEW n \in SessionRows, session[n].state = S!None, NEW new \in Session, NEW s \in SessionRows, s # n,
         session' = [session EXCEPT ![n] = new] \/ session' = [session EXCEPT ![n] = new, ![s].state = "over"]
  PROVE  /\ RowsKeep /\ session'[n] = new
         /\ \A t \in SessionRows : t # n => /\ session'[t].state = "live" => session[t].state = "live"
                                            /\ session'[t].password = session[t].password
                                            /\ session'[t].stray = session[t].stray
<1>1. session'[n] = new
  BY DEF SessionsInv, SessionTypes
<1>2. ASSUME NEW t \in SessionRows, t # n
      PROVE  /\ session'[t].state = "live" => session[t].state = "live"
             /\ session[t].state # S!None => session'[t].state # S!None
             /\ session'[t].password = session[t].password
             /\ session'[t].stray = session[t].stray
  <2>1. session[t] \in Session
    BY DEF SessionsInv, SessionTypes
  <2>2. session'[t] = session[t] \/ session'[t] = [session[t] EXCEPT !.state = "over"]
    BY <1>2 DEF SessionsInv, SessionTypes
  <2> QED  BY <2>1, <2>2 DEF Session, S!None
<1> QED  BY <1>1, <1>2 DEF RowsKeep

LEMMA PasswordSignIn ==
  ASSUME SessionsInv, SessionsInv', PasswordInv, NEW q \in Requests, S!SignIn(q), S!SessionConstants
  PROVE  PasswordInv'
<1>1. CASE S!login(q)
  <2>1. PICK typed \in 0..account.password \cup {S!Wrong} :
          S!Ask(q, [op |-> "login", pc |-> "verify", typed |-> typed, failed |-> account.failed,
                    password |-> account.password, of |-> S!None, stray |-> FALSE])
    BY <1>1 DEF S!login
  <2>2. /\ call'[q] = [op |-> "login", pc |-> "verify", typed |-> typed, failed |-> account.failed,
                       password |-> account.password, of |-> S!None, stray |-> FALSE]
        /\ Others(q) /\ UNCHANGED <<account, session>> /\ call[q].op = "idle"
    BY <2>1, Asked DEF SessionsInv
  <2>3. Carries(q)' /\ OkCall(q)' /\ ~S!At(q, "change", "revoke")
    BY <2>2 DEF Carries, OkCall, S!At
  <2> QED  BY <2>2, <2>3, RowsSame, LiveStay, PasswordKept
<1>2. CASE S!RefuseLogin(q)
  <2>1. call'[q] = S!Free /\ Others(q)
    BY <1>2, OtherCalls DEF S!RefuseLogin, S!Done, SessionsInv
  <2>2. account'.password = account.password
    BY <1>2 DEF S!RefuseLogin, SessionsInv, SessionTypes, Account
  <2> QED  BY <1>2, <2>1, <2>2, RowsSame, PasswordQuiet DEF S!RefuseLogin, S!Free, S!At
<1>3. CASE S!AcceptLogin(q)
  <2>1. call[q] \in Login /\ call[q].op = "login"
    BY <1>3, CallKinds DEF S!AcceptLogin, S!At, SessionsInv
  <2> DEFINE r == [call[q] EXCEPT !.pc = "issue"]
  <2>2. r.op = "login" /\ r.password = call[q].password /\ r.stray = call[q].stray
    BY <2>1 DEF Login
  <2>3. call'[q] = r /\ Others(q)
    BY <1>3, OtherCalls DEF S!AcceptLogin, S!Go, SessionsInv
  <2>4. account'.password = account.password
    BY <1>3 DEF S!AcceptLogin, S!Unlocked, SessionsInv, SessionTypes, Account
  <2> HIDE DEF r
  <2>5. Carries(q)' /\ ~S!At(q, "change", "revoke")
    BY <2>1, <2>2, <2>3 DEF Carries, S!At
  <2>6. ~Pending => OkCall(q)'
    BY <2>1, <2>2, <2>3, <2>4 DEF PasswordInv, OkCall, S!At
  <2>7. RowsKeep /\ OnlyEnds
    BY <1>3, RowsSame DEF S!AcceptLogin
  <2> QED  BY <2>3, <2>4, <2>5, <2>6, <2>7, LiveStay, PasswordKept
<1>4. CASE S!issueTokens(q) \/ S!Rotate(q)
  <2> DEFINE n == S!NewRow
             new == S!NewSession(q)
  <2>1. call[q] \in Login \cup Exchange /\ call[q].pc = "issue"
    BY <1>4, CallKinds DEF S!issueTokens, S!Rotate, S!At, SessionsInv
  <2>2. n \in SessionRows /\ session[n].state = S!None
    BY <1>4, NewRowUnused DEF S!issueTokens, S!Rotate
  <2>3. new \in Session
    BY <2>1 DEF S!NewSession, Login, Exchange, Session, SessionsInv, SessionTypes
  <2>4. /\ new.password = call[q].password
        /\ new.stray = (call[q].stray \/ \E s \in SessionRows : s = call[q].of /\ session[s].stray)
    BY DEF S!NewSession
  <2>5. call'[q] = S!Free /\ Others(q) /\ account' = account
    BY <1>4, OtherCalls DEF S!issueTokens, S!Rotate, S!Done, SessionsInv
  <2>6. ~S!At(q, "change", "revoke") /\ Carries(q)' /\ OkCall(q)'
    BY <2>1, <2>5 DEF S!At, Carries, OkCall, S!Free
  <2>7. /\ RowsKeep /\ session'[n] = new
        /\ \A t \in SessionRows : t # n => /\ session'[t].state = "live" => session[t].state = "live"
                                           /\ session'[t].password = session[t].password
                                           /\ session'[t].stray = session[t].stray
    <3>1. CASE S!issueTokens(q)
      <4>1. session' = [session EXCEPT ![n] = new]
        BY <3>1 DEF S!issueTokens
      <4> HIDE DEF n, new
      <4>2. CASE \E s \in SessionRows : s # n
        BY <2>2, <2>3, <4>1, <4>2, RowAdded
      <4>3. CASE ~\E s \in SessionRows : s # n
        BY <2>2, <4>1, <4>3 DEF RowsKeep, SessionsInv, SessionTypes
      <4> QED  BY <4>2, <4>3
    <3>2. CASE S!Rotate(q)
      <4>0. call[q] \in Exchange
        BY <3>2, CallKinds DEF S!Rotate, S!At, SessionsInv
      <4>1. PICK f \in SessionRows : f = call[q].of
        BY <4>0 DEF Exchange
      <4>2. session[f].state # S!None
        BY <3>2, <4>1 DEF S!Rotate, SessionsInv, ConsumedOnce, Consumes
      <4>3. session' = [session EXCEPT ![n] = new, ![f].state = "over"] /\ f # n
        BY <3>2, <4>1, <4>2, <2>2 DEF S!Rotate
      <4> HIDE DEF n, new
      <4> QED  BY <2>2, <2>3, <4>1, <4>3, RowAdded
    <3> QED  BY <1>4, <3>1, <3>2
  <2>8. ASSUME ~Pending PROVE new.password = account.password \/ new.stray
    <3>1. OkCall(q)
      BY <2>8 DEF PasswordInv
    <3>2. CASE call[q] \in Login
      BY <2>4, <3>1, <3>2 DEF OkCall, Login
    <3>3. CASE call[q] \in Exchange
      BY <2>1, <2>4, <3>1, <3>3 DEF OkCall, Exchange, S!At
    <3> QED  BY <2>1, <3>2, <3>3
  <2> HIDE DEF n, new
  <2>9. ~Pending => \A s \in S!Live' : OkSession(s)'
    BY <2>5, <2>7, <2>8 DEF PasswordInv, OkSession, S!Live
  <2> QED  BY <2>5, <2>6, <2>7, <2>9, PasswordKept
<1>5. CASE S!refresh(q)
  <2>1. PICK s \in S!Live :
          S!Ask(q, [op |-> "refresh", pc |-> "consume", of |-> s,
                    password |-> session[s].password, stray |-> FALSE])
    BY <1>5 DEF S!refresh
  <2>2. /\ call'[q] = [op |-> "refresh", pc |-> "consume", of |-> s,
                       password |-> session[s].password, stray |-> FALSE]
        /\ Others(q) /\ UNCHANGED <<account, session>> /\ call[q].op = "idle"
    BY <2>1, Asked DEF SessionsInv
  <2>3. Carries(q)' /\ OkCall(q)' /\ ~S!At(q, "change", "revoke")
    BY <2>2 DEF Carries, OkCall, S!At, S!Live, S!None
  <2> QED  BY <2>2, <2>3, RowsSame, LiveStay, PasswordKept
<1>6. CASE S!Consume(q)
  <2>1. call[q] \in Exchange
    BY <1>6, CallKinds DEF S!Consume, S!At, SessionsInv
  <2>2. account' = account /\ RowsKeep /\ OnlyEnds /\ ~S!At(q, "change", "revoke")
    BY <1>6, RowsSame DEF S!Consume, S!At
  <2>3. CASE S!Done(q)
    <3>1. call'[q] = S!Free /\ Others(q)
      BY <2>3, OtherCalls DEF S!Done, SessionsInv
    <3> QED  BY <2>2, <3>1, PasswordQuiet DEF S!Free
  <2>4. CASE call[q].of \in S!Live /\ S!Go(q, "issue")
    <3> DEFINE r == [call[q] EXCEPT !.pc = "issue"]
    <3>1. r.op = "refresh" /\ r.password = call[q].password /\ r.of = call[q].of /\ r.stray = call[q].stray
      BY <2>1 DEF Exchange
    <3>2. call'[q] = r /\ Others(q)
      BY <2>4, OtherCalls DEF S!Go, SessionsInv
    <3> HIDE DEF r
    <3>3. call[q].op = "refresh" /\ Carries(q)
      BY <2>1 DEF Exchange, PasswordInv
    <3>4. Carries(q)'
      BY <3>1, <3>2, <3>3, <2>2, CarriesOn
    <3>5. session' = session
      BY <1>6 DEF S!Consume
    <3>6. ~Pending => OkCall(q)'
      BY <2>2, <2>4, <3>1, <3>2, <3>3, <3>5 DEF PasswordInv, OkSession, OkCall, Carries, S!At
    <3> QED  BY <2>2, <3>2, <3>4, <3>6, LiveStay, PasswordKept
  <2> QED  BY <1>6, <2>3, <2>4 DEF S!Consume
<1> QED  BY <1>1, <1>2, <1>3, <1>4, <1>5, <1>6 DEF S!SignIn

LEMMA PasswordManage ==
  ASSUME SessionsInv, SessionsInv', PasswordInv, NEW q \in Requests, S!Manage(q), S!SessionConstants
  PROVE  PasswordInv'
<1>1. CASE S!changePassword(q) \/ S!setActive(q)
  <2>1. PICK op \in {"change", "activate", "deactivate"} : S!Ask(q, [op |-> op, pc |-> "write"])
    BY <1>1 DEF S!changePassword, S!setActive
  <2>2. /\ call'[q] = [op |-> op, pc |-> "write"] /\ Others(q)
        /\ UNCHANGED <<account, session>> /\ call[q].op = "idle"
    BY <2>1, Asked DEF SessionsInv
  <2> QED  BY <2>2, RowsSame, PasswordQuiet DEF S!At
<1>2. CASE S!WritePassword(q)
  <2>1. call[q] \in Change /\ call[q].op = "change" /\ session' = session
    BY <1>2, CallKinds DEF S!WritePassword, S!At, SessionsInv
  <2> DEFINE r == [call[q] EXCEPT !.pc = "revoke"]
  <2>2. r.op = "change" /\ r.pc = "revoke"
    BY <2>1 DEF Change
  <2>3. call'[q] = r /\ Others(q)
    BY <1>2, OtherCalls DEF S!WritePassword, S!Go, SessionsInv
  <2> HIDE DEF r
  <2>4. Pending'
    BY <2>2, <2>3 DEF Pending, S!At
  <2>5. ASSUME NEW x \in Requests PROVE Carries(x)'
    BY <2>1, <2>2, <2>3 DEF PasswordInv, Carries, Others
  <2> QED  BY <2>4, <2>5 DEF PasswordInv
<1>3. CASE S!WriteStatus(q)
  <2>1. call[q] \in Change /\ call[q].op \in {"activate", "deactivate"}
    BY <1>3, CallKinds DEF S!WriteStatus, SessionsInv
  <2> DEFINE r == [call[q] EXCEPT !.pc = "revoke"]
  <2>2. r.op = call[q].op
    BY <2>1 DEF Change
  <2>3. (call'[q] = r \/ call'[q] = S!Free) /\ Others(q) /\ session' = session
    BY <1>3, OtherCalls DEF S!WriteStatus, S!Go, S!Done, SessionsInv
  <2>4. account'.password = account.password
    BY <1>3 DEF S!WriteStatus, SessionsInv, SessionTypes, Account
  <2> HIDE DEF r
  <2> QED  BY <2>1, <2>2, <2>3, <2>4, RowsSame, PasswordQuiet DEF S!Free, S!At
<1>4. CASE S!RevokeAll(q) \/ S!updateUser(q) \/ S!Reset(q)
  <2>1. S!Overtake(q, S!Free) /\ RowsKeep /\ S!Live' = {}
    BY <1>4, RowsRevoked DEF S!RevokeAll, S!updateUser, S!Reset, SessionsInv
  <2> QED  BY <2>1, AllStray
<1>5. CASE S!forgotPassword(q)
  <2> DEFINE r == [op |-> "forgot", pc |-> "create"]
  <2>0. call' = [call EXCEPT ![q] = r] /\ call[q].op = "idle"
    BY <1>5 DEF S!forgotPassword, S!Free
  <2>1. call'[q] = r /\ Others(q) /\ r.op = "forgot"
    <3>1. r.op = "forgot"
      OBVIOUS
    <3> HIDE DEF r
    <3> QED  BY <2>0, <3>1, OtherCalls DEF SessionsInv
  <2> HIDE DEF r
  <2> QED  BY <1>5, <2>0, <2>1, RowsSame, PasswordQuiet DEF S!forgotPassword, S!At
<1>6. CASE S!CreateCode(q)
  <2>1. call'[q] = S!Free /\ Others(q)
    BY <1>6, OtherCalls DEF S!CreateCode, S!Done, SessionsInv
  <2> QED  BY <1>6, <2>1, RowsSame, PasswordQuiet DEF S!CreateCode, S!Free, S!At
<1>7. CASE S!resetPassword(q)
  <2>1. PICK c \in ResetCodes : S!Ask(q, [op |-> "reset", pc |-> "write", code |-> c])
    BY <1>7 DEF S!resetPassword
  <2>2. /\ call'[q] = [op |-> "reset", pc |-> "write", code |-> c] /\ Others(q)
        /\ UNCHANGED <<account, session>> /\ call[q].op = "idle"
    BY <2>1, Asked DEF SessionsInv
  <2> QED  BY <2>2, RowsSame, PasswordQuiet DEF S!At
<1> QED  BY <1>1, <1>2, <1>3, <1>4, <1>5, <1>6, <1>7 DEF S!Manage

\* A change that is lost before it ends the sessions makes strays of them.
LEMMA PasswordLose ==
  ASSUME SessionsInv, SessionsInv', PasswordInv, NEW q \in Requests, S!Lose(q)
  PROVE  PasswordInv'
<1>1. CASE S!At(q, "change", "revoke")
  <2>1. S!Overtake(q, S!Free)
    BY <1>1 DEF S!Lose
  <2>2. ASSUME NEW s \in SessionRows
        PROVE  /\ session'[s].state = session[s].state
               /\ session'[s].password = session[s].password
               /\ session[s].stray => session'[s].stray
               /\ session'[s].state = "live" => session'[s].stray
    <3>1. session[s] \in Session
      BY DEF SessionsInv, SessionTypes
    <3>2. session'[s] = IF s \in S!Live THEN [session[s] EXCEPT !.stray = TRUE] ELSE session[s]
      BY <1>1 DEF S!Lose
    <3> QED  BY <3>1, <3>2 DEF Session, S!Live
  <2>3. RowsKeep /\ \A s \in S!Live' : OkSession(s)'
    BY <2>2 DEF RowsKeep, S!Live, OkSession
  <2> QED  BY <2>1, <2>3, AllStray
<1>2. CASE ~S!At(q, "change", "revoke")
  <2>1. call'[q] = S!Free /\ Others(q)
    BY <1>2, OtherCalls DEF S!Lose, S!Done, SessionsInv
  <2>2. session' = session
    BY <1>2 DEF S!Lose, SessionsInv, SessionTypes
  <2> QED  BY <1>2, <2>1, <2>2, RowsSame, PasswordQuiet DEF S!Lose, S!Free
<1> QED  BY <1>1, <1>2

LEMMA PasswordNext ==
  ASSUME SessionsInv, SessionsInv', PasswordInv, [S!Next]_S!vars, S!SessionConstants
  PROVE  PasswordInv'
<1>1. CASE S!logout \/ S!Unlock \/ S!Lapse \/ UNCHANGED S!vars
  <2>1. call' = call /\ account'.password = account.password
    BY <1>1 DEF S!logout, S!Unlock, S!Lapse, S!vars, SessionsInv, SessionTypes, Account
  <2>2. RowsKeep /\ OnlyEnds
    <3>1. CASE S!logout
      <4>1. PICK s \in S!Live : session' = [session EXCEPT ![s].state = "over"]
        BY <3>1 DEF S!logout
      <4> QED  BY <4>1 DEF SessionsInv, SessionTypes, Session, S!Live, OnlyEnds, RowsKeep, S!None
    <3>2. CASE session' = session
      BY <3>2, RowsSame
    <3> QED  BY <1>1, <3>1, <3>2 DEF S!Unlock, S!Lapse, S!vars
  <2>3. \A x \in Requests : Carries(x)'
    BY <2>1, <2>2, CarriesOn DEF PasswordInv
  <2>4. ASSUME ~Pending' PROVE (\A s \in S!Live' : OkSession(s)') /\ (\A q \in Requests : OkCall(q)')
    <3>1. ~Pending
      BY <2>1, <2>4 DEF Pending, S!At
    <3>2. \A s \in S!Live' : OkSession(s)'
      BY <2>1, <2>2, <3>1, LiveStay
    <3>3. ASSUME NEW q \in Requests PROVE OkCall(q)'
      <4>1. OkCall(q) /\ Carries(q)
        BY <3>1 DEF PasswordInv
      <4>2. call[q].op = "refresh" => call[q].of \in SessionRows
        BY CallKinds DEF SessionsInv, Exchange
      <4> QED  BY <2>1, <2>2, <4>1, <4>2 DEF OkCall, S!At, RowsKeep, Carries
    <3> QED  BY <3>2, <3>3
  <2> QED  BY <2>3, <2>4 DEF PasswordInv
<1> QED  BY <1>1, PasswordSignIn, PasswordManage, PasswordLose DEF S!Next

-----------------------------------------------------------------------------
LEMMA SessionsAllInductive ==
  ASSUME S!SessionConstants
  PROVE  S!Spec => [](SessionsInv /\ CountInv /\ PasswordInv)
<1>1. ASSUME S!Init PROVE CountInv /\ PasswordInv
  <2>1. CountInv
    BY <1>1 DEF S!Init, CountInv, S!Free, S!None, S!SessionConstants
  <2>2. S!Live = {} /\ \A q \in Requests : call[q].op = "idle"
    BY <1>1 DEF S!Init, S!Live, S!NoSession, S!None, S!Free
  <2> QED  BY <2>1, <2>2 DEF PasswordInv, Carries, OkCall, S!At
<1>2. SessionsInv /\ SessionsInv' /\ CountInv /\ [S!Next]_S!vars => CountInv'
  BY CountNext
<1>3. SessionsInv /\ SessionsInv' /\ PasswordInv /\ [S!Next]_S!vars => PasswordInv'
  BY PasswordNext
<1> QED  BY <1>1, <1>2, <1>3, SessionsInductive, PTL DEF S!Spec

\* "Exactly one request should succeed": however many requests carry a refresh
\* token or a reset code, and however they overlap, fail and are lost, one
\* session follows the token and one password the code.  Every variable keeps
\* its type.
THEOREM TokensAreUsedOnce ==
  ASSUME S!SessionConstants
  PROVE  S!Spec => []SingleUse
<1>1. SessionsInv => S!SingleUse
  <2>1. CodesInv => \A c \in ResetCodes : code[c].uses <= 1
    BY DEF CodesInv
  <2> QED  BY <2>1 DEF SessionsInv, Succeeded, S!SingleUse
<1>2. ASSUME SessionsInv, CountInv PROVE S!TypeOK
  <2>1. account \in [password : 0..MaxChanges, active : BOOLEAN, failed : 0..MaxCalls, locked : BOOLEAN]
    <3>1. account \in Account /\ account.failed \in 0..MaxCalls
      BY <1>2 DEF SessionsInv, SessionTypes, Account, CountInv, S!SessionConstants
    <3> QED  BY <3>1 DEF Account, Passwords
  <2>2. code \in [ResetCodes -> [state : {S!None, "fresh", "used", "expired"}, uses : 0..MaxCalls]]
    <3>1. ASSUME NEW c \in ResetCodes PROVE code[c].uses \in 0..MaxCalls
      <4>1. code[c].state = "used" => 1 <= MaxCalls
        BY <1>2 DEF CountInv, S!SessionConstants
      <4>2. code[c].uses = IF code[c].state = "used" THEN 1 ELSE 0
        BY <1>2 DEF SessionsInv, CodesInv
      <4> QED  BY <4>1, <4>2 DEF S!SessionConstants
    <3>2. ASSUME NEW c \in ResetCodes
          PROVE  code[c] \in [state : {S!None, "fresh", "used", "expired"}, uses : 0..MaxCalls]
      <4>1. code[c] \in [state : {S!None, "fresh", "used", "expired"}, uses : Nat]
        BY <1>2 DEF SessionsInv, SessionTypes
      <4> QED  BY <4>1, <3>1
    <3> QED  BY <1>2, <3>2 DEF SessionsInv, SessionTypes
  <2> QED  BY <1>2, <2>1, <2>2 DEF SessionsInv, SessionTypes, Session, Passwords, CountInv, S!TypeOK
<1>3. SessionsInv /\ CountInv => SingleUse
  BY <1>1, <1>2 DEF SingleUse
<1> QED  BY <1>3, SessionsAllInductive, PTL

\* "A password change or reset must not leave old sessions valid elsewhere",
\* but for those that were under way or whose change was lost.
THEOREM OldPasswordsEnd ==
  ASSUME S!SessionConstants
  PROVE  S!Spec => []PasswordEndsSessions
<1>1. PasswordInv => PasswordEndsSessions
  BY DEF PasswordEndsSessions, PasswordInv, Pending, OkSession, S!PasswordEndsSessions
<1> QED  BY <1>1, SessionsAllInductive, PTL


-----------------------------------------------------------------------------
\* Requests.  The account that a role, a status or a branch is changed of
\* existed when the request looked, and accounts are not removed.

AnyRole == EditableRoles \cup {Owner}

RoleRequest ==
    [op : {"create", "assign", "replaceRoles", "removeRole"}, actor : Staff, target : Staff,
     role : AnyRole, branches : SUBSET Branches]
MoveRequest ==
    [op : {"branches"}, actor : Staff, target : Staff, removed : SUBSET Branches,
     added : SUBSET Branches, roles : SUBSET AnyRole]
PlainRequest ==
    [op : {"activate", "deactivate"}, actor : Staff, target : Staff]
    \cup [op : {"override"}, actor : Staff, target : Staff, effect : {"none", "grant", "deny"}]
PermissionRequest ==
    [op : {"permissions"}, actor : Staff, target : Staff \cup {Owner}, role : EditableRoles,
     carries : BOOLEAN]

RequestOf == {R!Idle} \cup RoleRequest \cup MoveRequest \cup PlainRequest \cup PermissionRequest

TargetExists(r) ==
    r.op \in {"assign", "replaceRoles", "branches", "removeRole", "activate", "deactivate"}
        => status[r.target] # "none"

RolesInv ==
    /\ R!TypeOK
    /\ staffRequest \in [Requests -> RequestOf]
    /\ \A q \in Requests : TargetExists(staffRequest[q])
    /\ R!OwnerRemains

LEMMA RequestKinds ==
  ASSUME RolesInv, NEW q \in Requests
  PROVE  /\ staffRequest[q].op \in {"create", "assign", "replaceRoles", "removeRole"}
                => staffRequest[q] \in RoleRequest
         /\ staffRequest[q].op = "branches" => staffRequest[q] \in MoveRequest
         /\ staffRequest[q].op \in {"activate", "deactivate", "override"} => staffRequest[q] \in PlainRequest
         /\ staffRequest[q].op = "permissions" => staffRequest[q] \in PermissionRequest
BY DEF RolesInv, RequestOf, R!Idle, RoleRequest, MoveRequest, PlainRequest, PermissionRequest

\* A request is asked.
LEMMA AskedKeeps ==
  ASSUME RolesInv, R!RoleConstants, NEW q \in Requests, NEW r \in RequestOf, TargetExists(r), R!Ask(q, r)
  PROVE  RolesInv'
<1>1. UNCHANGED <<status, attached, roles, granting, staffOverride>>
  BY DEF R!Ask
<1>2. begun' \in 0..MaxRequests
  BY DEF R!Ask, RolesInv, R!TypeOK, R!RoleConstants
<1>3. staffRequest' = [staffRequest EXCEPT ![q] = r]
  BY DEF R!Ask
<1>4. staffRequest' \in [Requests -> RequestOf]
  BY <1>3 DEF RolesInv
<1>5. \A o \in Requests : staffRequest'[o] = IF o = q THEN r ELSE staffRequest[o]
  BY <1>3 DEF RolesInv
<1>6. \A o \in Requests : TargetExists(staffRequest[o])'
  BY <1>1, <1>5 DEF RolesInv, TargetExists
<1> QED
  BY <1>1, <1>2, <1>4, <1>6 DEF RolesInv, R!TypeOK, R!OwnerRemains, R!Owners, R!RolesOf, R!BranchesOf

LEMMA BeginKeeps ==
  ASSUME RolesInv, R!RoleConstants, NEW q \in Requests, R!Begin(q)
  PROVE  RolesInv'
<1>1. CASE R!BeginCreate(q)
  <2>1. PICK a, u \in Staff, r \in AnyRole, b \in Branches :
          R!Ask(q, [op |-> "create", actor |-> a, target |-> u, role |-> r, branches |-> {b}])
    BY <1>1 DEF R!BeginCreate, AnyRole
  <2> DEFINE m == [op |-> "create", actor |-> a, target |-> u, role |-> r, branches |-> {b}]
  <2>2. m \in RoleRequest /\ m.op = "create"
    BY DEF RoleRequest
  <2>3. m \in RequestOf /\ TargetExists(m) /\ R!Ask(q, m)
    BY <2>1, <2>2 DEF RequestOf, TargetExists
  <2> HIDE DEF m
  <2> QED  BY <2>3, AskedKeeps
<1>2. CASE R!BeginRole(q)
  <2>1. PICK a, u \in Staff, r \in AnyRole, op \in {"assign", "replaceRoles"} :
          \E B \in {R!BranchesOf(u), {}} \cup {{b} : b \in Branches} :
            status[u] # "none" /\ R!Ask(q, [op |-> op, actor |-> a, target |-> u, role |-> r, branches |-> B])
    BY <1>2 DEF R!BeginRole, AnyRole
  <2>2. PICK B \in {R!BranchesOf(u), {}} \cup {{b} : b \in Branches} :
          status[u] # "none" /\ R!Ask(q, [op |-> op, actor |-> a, target |-> u, role |-> r, branches |-> B])
    BY <2>1
  <2>3. B \subseteq Branches
    BY DEF R!BranchesOf, RolesInv, R!TypeOK
  <2> DEFINE m == [op |-> op, actor |-> a, target |-> u, role |-> r, branches |-> B]
  <2>4. m \in RoleRequest /\ m.target = u
    BY <2>3 DEF RoleRequest
  <2>5. m \in RequestOf /\ TargetExists(m) /\ R!Ask(q, m)
    BY <2>2, <2>4 DEF RequestOf, TargetExists
  <2> HIDE DEF m
  <2> QED  BY <2>5, AskedKeeps
<1>3. CASE R!BeginBranches(q)
  <2>1. PICK a, u \in Staff, B \in SUBSET Branches :
          /\ status[u] # "none"
          /\ R!Ask(q, [op |-> "branches", actor |-> a, target |-> u,
                       removed |-> R!BranchesOf(u) \ B, added |-> B \ R!BranchesOf(u),
                       roles |-> R!RolesOf(u)])
    BY <1>3 DEF R!BeginBranches
  <2>2. R!BranchesOf(u) \subseteq Branches /\ R!RolesOf(u) \subseteq AnyRole
    BY DEF R!BranchesOf, R!RolesOf, RolesInv, R!TypeOK, AnyRole
  <2> DEFINE m == [op |-> "branches", actor |-> a, target |-> u,
                   removed |-> R!BranchesOf(u) \ B, added |-> B \ R!BranchesOf(u),
                   roles |-> R!RolesOf(u)]
  <2>3. m \in MoveRequest /\ m.target = u
    BY <2>2 DEF MoveRequest
  <2>4. m \in RequestOf /\ TargetExists(m) /\ R!Ask(q, m)
    BY <2>1, <2>3 DEF RequestOf, TargetExists
  <2> HIDE DEF m
  <2> QED  BY <2>4, AskedKeeps
<1>4. CASE R!BeginPlain(q)
  <2>1. PICK a, u \in Staff :
          /\ status[u] # "none"
          /\ \/ \E op \in {"activate", "deactivate"} :
                  R!Ask(q, [op |-> op, actor |-> a, target |-> u])
             \/ \E r \in AnyRole, B \in SUBSET Branches :
                  R!Ask(q, [op |-> "removeRole", actor |-> a, target |-> u, role |-> r, branches |-> B])
             \/ \E e \in {"none", "grant", "deny"} :
                  R!Ask(q, [op |-> "override", actor |-> a, target |-> u, effect |-> e])
    <3>1. {Branches} \cup {{b} : b \in Branches} \subseteq SUBSET Branches
      OBVIOUS
    <3> QED  BY <1>4, <3>1 DEF R!BeginPlain, AnyRole
  <2>2. CASE \E op \in {"activate", "deactivate"} : R!Ask(q, [op |-> op, actor |-> a, target |-> u])
    <3>1. PICK op \in {"activate", "deactivate"} : R!Ask(q, [op |-> op, actor |-> a, target |-> u])
      BY <2>2
    <3> DEFINE m == [op |-> op, actor |-> a, target |-> u]
    <3>2. m \in RequestOf /\ TargetExists(m) /\ R!Ask(q, m)
      BY <2>1, <3>1 DEF RequestOf, TargetExists, PlainRequest
    <3> HIDE DEF m
    <3> QED  BY <3>2, AskedKeeps
  <2>3. CASE \E r \in AnyRole, B \in SUBSET Branches :
               R!Ask(q, [op |-> "removeRole", actor |-> a, target |-> u, role |-> r, branches |-> B])
    <3>1. PICK r \in AnyRole, B \in SUBSET Branches :
            R!Ask(q, [op |-> "removeRole", actor |-> a, target |-> u, role |-> r, branches |-> B])
      BY <2>3
    <3> DEFINE m == [op |-> "removeRole", actor |-> a, target |-> u, role |-> r, branches |-> B]
    <3>2. m \in RequestOf /\ TargetExists(m) /\ R!Ask(q, m)
      BY <2>1, <3>1 DEF RequestOf, TargetExists, RoleRequest
    <3> HIDE DEF m
    <3> QED  BY <3>2, AskedKeeps
  <2>4. CASE \E e \in {"none", "grant", "deny"} :
               R!Ask(q, [op |-> "override", actor |-> a, target |-> u, effect |-> e])
    <3>1. PICK e \in {"none", "grant", "deny"} :
            R!Ask(q, [op |-> "override", actor |-> a, target |-> u, effect |-> e])
      BY <2>4
    <3> DEFINE m == [op |-> "override", actor |-> a, target |-> u, effect |-> e]
    <3>2. m \in RequestOf /\ TargetExists(m) /\ R!Ask(q, m)
      BY <3>1 DEF RequestOf, TargetExists, PlainRequest
    <3> HIDE DEF m
    <3> QED  BY <3>2, AskedKeeps
  <2> QED  BY <2>1, <2>2, <2>3, <2>4
<1>5. CASE R!BeginPermissions(q)
  <2>1. PICK a \in Staff, r \in EditableRoles, carries \in BOOLEAN :
          R!Ask(q, [op |-> "permissions", actor |-> a,
                    target |-> IF r \in R!RolesOf(a) THEN a ELSE Owner,
                    role |-> r, carries |-> carries])
    BY <1>5 DEF R!BeginPermissions
  <2> DEFINE m == [op |-> "permissions", actor |-> a,
                   target |-> IF r \in R!RolesOf(a) THEN a ELSE Owner,
                   role |-> r, carries |-> carries]
  <2>2. m \in PermissionRequest /\ m.op = "permissions"
    BY DEF PermissionRequest
  <2>3. m \in RequestOf /\ TargetExists(m) /\ R!Ask(q, m)
    BY <2>1, <2>2 DEF RequestOf, TargetExists
  <2> HIDE DEF m
  <2> QED  BY <2>3, AskedKeeps
<1> QED  BY <1>1, <1>2, <1>3, <1>4, <1>5 DEF R!Begin

-----------------------------------------------------------------------------
\* The transactions.

\* The request ends; what the others know of their accounts still holds.
LEMMA Ended ==
  ASSUME RolesInv, NEW q \in Requests, R!End(q), \A u \in Staff : status[u] # "none" => status'[u] # "none"
  PROVE  /\ staffRequest' \in [Requests -> RequestOf] /\ begun' = begun
         /\ \A o \in Requests : TargetExists(staffRequest[o])'
<1>1. staffRequest' \in [Requests -> RequestOf] /\ begun' = begun
  BY DEF R!End, RolesInv, RequestOf
<1>2. ASSUME NEW o \in Requests PROVE TargetExists(staffRequest[o])'
  <2>1. staffRequest'[o] = IF o = q THEN R!Idle ELSE staffRequest[o]
    BY DEF R!End, RolesInv
  <2>2. CASE o = q
    BY <2>1, <2>2 DEF TargetExists, R!Idle
  <2>3. CASE o # q
    <3>1. staffRequest[o].op \in {"assign", "replaceRoles", "branches", "removeRole", "activate", "deactivate"}
            => staffRequest[o].target \in Staff /\ status[staffRequest[o].target] # "none"
      BY RequestKinds DEF RolesInv, TargetExists, RoleRequest, MoveRequest, PlainRequest
    <3> QED  BY <2>1, <2>3, <3>1 DEF TargetExists
  <2> QED  BY <2>2, <2>3
<1> QED  BY <1>1, <1>2

\* A transaction that changes the roles and branches of one account.
LEMMA HeldByOne ==
  ASSUME RolesInv, NEW q \in Requests, R!End(q), NEW t \in Staff, status'[t] # "none",
         status' \in [Staff -> {"none", "active", "inactive"}],
         \A u \in Staff : status[u] # "none" => status'[u] # "none",
         attached' \subseteq Staff \X Branches,
         \A u \in Staff : u # t => R!BranchesOf(u)' = R!BranchesOf(u),
         roles' \subseteq Staff \X AnyRole \X Branches,
         \A u \in Staff : u # t => R!RolesOf(u)' = R!RolesOf(u),
         granting' \subseteq EditableRoles, staffOverride' \in [Staff -> {"none", "grant", "deny"}],
         R!Owners' # {}
  PROVE  RolesInv'
<1>1. /\ staffRequest' \in [Requests -> RequestOf] /\ begun' = begun
      /\ \A o \in Requests : TargetExists(staffRequest[o])'
  BY Ended
<1>2. ASSUME NEW u \in Staff, status'[u] = "none" PROVE R!RolesOf(u)' = {} /\ R!BranchesOf(u)' = {}
  BY <1>2 DEF RolesInv, R!TypeOK
<1>3. R!TypeOK'
  BY <1>1, <1>2 DEF RolesInv, R!TypeOK, AnyRole
<1> QED  BY <1>1, <1>3 DEF RolesInv, R!OwnerRemains

\* A transaction that changes neither.
LEMMA HeldAlike ==
  ASSUME RolesInv, NEW q \in Requests, R!End(q), UNCHANGED <<attached, roles>>,
         status' \in [Staff -> {"none", "active", "inactive"}],
         \A u \in Staff : status[u] # "none" => status'[u] # "none",
         granting' \subseteq EditableRoles, staffOverride' \in [Staff -> {"none", "grant", "deny"}],
         R!Owners' # {}
  PROVE  RolesInv'
<1>1. /\ staffRequest' \in [Requests -> RequestOf] /\ begun' = begun
      /\ \A o \in Requests : TargetExists(staffRequest[o])'
  BY Ended
<1>2. \A u \in Staff : R!RolesOf(u)' = R!RolesOf(u) /\ R!BranchesOf(u)' = R!BranchesOf(u)
  BY DEF R!RolesOf, R!BranchesOf
<1>3. ASSUME NEW u \in Staff, status'[u] = "none" PROVE R!RolesOf(u)' = {} /\ R!BranchesOf(u)' = {}
  BY <1>2, <1>3 DEF RolesInv, R!TypeOK
<1>4. R!TypeOK'
  BY <1>1, <1>3 DEF RolesInv, R!TypeOK
<1> QED  BY <1>1, <1>4 DEF RolesInv, R!OwnerRemains

\* Roles that others do not lose, and accounts that stay active, keep an owner.
LEMMA OwnerStays ==
  ASSUME RolesInv, \A u \in Staff : status[u] = "active" => status'[u] = "active",
         \A h \in roles : h[2] = Owner => h \in roles'
  PROVE  R!Owners' # {}
<1>1. PICK u \in Staff : status[u] = "active" /\ Owner \in R!RolesOf(u)
  BY DEF RolesInv, R!OwnerRemains, R!Owners
<1>2. PICK h \in roles : h[1] = u /\ h[2] = Owner
  BY <1>1 DEF R!RolesOf
<1>3. h \in roles' /\ status'[u] = "active"
  BY <1>1, <1>2
<1> QED  BY <1>2, <1>3 DEF R!Owners, R!RolesOf

\* The roles and branches of the accounts that are not t's.
LEMMA OnlyRolesOf ==
  ASSUME NEW t, \A h : h[1] # t => (h \in roles' <=> h \in roles)
  PROVE  \A u \in Staff : u # t => R!RolesOf(u)' = R!RolesOf(u)
BY DEF R!RolesOf

LEMMA createUserKeeps ==
  ASSUME RolesInv, NEW q \in Requests, R!createUser(q)
  PROVE  RolesInv'
<1>1. staffRequest[q] \in RoleRequest
  BY RequestKinds DEF R!createUser, R!Begun
<1>2. PICK t \in Staff : t = staffRequest[q].target
  BY <1>1 DEF RoleRequest
<1> DEFINE B == staffRequest[q].branches
           role == staffRequest[q].role
<1>3. B \subseteq Branches /\ role \in AnyRole
  BY <1>1 DEF RoleRequest
<1>4. /\ status' = [status EXCEPT ![t] = "active"] /\ status[t] = "none"
      /\ attached' = attached \cup ({t} \X B)
      /\ roles' = roles \cup ({t} \X {role} \X B)
      /\ R!End(q) /\ UNCHANGED <<granting, staffOverride>>
  BY <1>2 DEF R!createUser
<1> HIDE DEF B, role
<1>5. status' \in [Staff -> {"none", "active", "inactive"}] /\ status'[t] = "active"
      /\ \A u \in Staff : u # t => status'[u] = status[u]
  BY <1>4 DEF RolesInv, R!TypeOK
<1>6. attached' \subseteq Staff \X Branches /\ roles' \subseteq Staff \X AnyRole \X Branches
  BY <1>3, <1>4 DEF RolesInv, R!TypeOK, AnyRole
<1>7. \A u \in Staff : u # t => R!RolesOf(u)' = R!RolesOf(u)
  BY <1>4, OnlyRolesOf
<1>8. \A u \in Staff : u # t => R!BranchesOf(u)' = R!BranchesOf(u)
  BY <1>4 DEF R!BranchesOf
<1>9. R!Owners' # {}
  BY <1>4, <1>5, OwnerStays
<1>10. /\ \A u \in Staff : status[u] # "none" => status'[u] # "none"
       /\ granting' \subseteq EditableRoles /\ staffOverride' \in [Staff -> {"none", "grant", "deny"}]
       /\ status'[t] # "none"
  BY <1>4, <1>5 DEF RolesInv, R!TypeOK
<1> QED  BY <1>4, <1>5, <1>6, <1>7, <1>8, <1>9, <1>10, HeldByOne

\* assignRole, replaceRoles and removeRole.
LEMMA RolesKeep ==
  ASSUME RolesInv, NEW q \in Requests, R!assignRole(q) \/ R!replaceRoles(q) \/ R!removeRole(q)
  PROVE  RolesInv'
<1>1. staffRequest[q] \in RoleRequest /\ staffRequest[q].op \in {"assign", "replaceRoles", "removeRole"}
  BY RequestKinds DEF R!assignRole, R!replaceRoles, R!removeRole, R!Begun
<1>2. PICK t \in Staff : t = staffRequest[q].target
  BY <1>1 DEF RoleRequest
<1> DEFINE B == staffRequest[q].branches
           role == staffRequest[q].role
           rows == {t} \X {role} \X B
<1>3. B \subseteq Branches /\ role \in AnyRole
  BY <1>1 DEF RoleRequest
<1>4. /\ \/ roles' = roles \cup rows
         \/ roles' = {h \in roles : h[1] # t} \cup rows
         \/ roles' = roles \ rows
      /\ R!End(q) /\ UNCHANGED <<status, attached, granting, staffOverride>>
  BY <1>2 DEF R!assignRole, R!replaceRoles, R!removeRole
<1>5. R!Owners' # {}
  <2>1. CASE R!assignRole(q)
    BY <1>2, <2>1, OwnerStays DEF R!assignRole
  <2>2. CASE R!replaceRoles(q)
    BY <2>2 DEF R!replaceRoles, R!assertNotLastOwner
  <2>3. CASE R!removeRole(q) /\ role = Owner
    BY <2>3 DEF R!removeRole, R!assertNotLastOwner
  <2>4. CASE R!removeRole(q) /\ role # Owner
    <3>1. roles' = roles \ rows /\ status' = status
      BY <1>2, <2>4 DEF R!removeRole
    <3> QED  BY <2>4, <3>1, OwnerStays
  <2> QED  BY <2>1, <2>2, <2>3, <2>4
<1> HIDE DEF B, role
<1>6. roles' \subseteq Staff \X AnyRole \X Branches
  BY <1>3, <1>4 DEF RolesInv, R!TypeOK, AnyRole
<1>7. \A u \in Staff : u # t => R!RolesOf(u)' = R!RolesOf(u)
  BY <1>4, OnlyRolesOf
<1>8. \A u \in Staff : R!BranchesOf(u)' = R!BranchesOf(u)
  BY <1>4 DEF R!BranchesOf
<1>9. status[t] # "none"
  BY <1>1, <1>2 DEF RolesInv, TargetExists
<1>10. /\ status' \in [Staff -> {"none", "active", "inactive"}] /\ status' = status
       /\ attached' \subseteq Staff \X Branches
       /\ granting' \subseteq EditableRoles /\ staffOverride' \in [Staff -> {"none", "grant", "deny"}]
  BY <1>4 DEF RolesInv, R!TypeOK
<1> QED  BY <1>4, <1>5, <1>6, <1>7, <1>8, <1>9, <1>10, HeldByOne

LEMMA setBranchesKeeps ==
  ASSUME RolesInv, NEW q \in Requests, R!setBranches(q)
  PROVE  RolesInv'
<1>1. staffRequest[q] \in MoveRequest /\ staffRequest[q].op = "branches"
  BY RequestKinds DEF R!setBranches, R!Begun
<1>2. PICK t \in Staff : t = staffRequest[q].target
  BY <1>1 DEF MoveRequest
<1> DEFINE removed == staffRequest[q].removed
           added == staffRequest[q].added
           moved == staffRequest[q].roles
<1>3. removed \subseteq Branches /\ added \subseteq Branches /\ moved \subseteq AnyRole
  BY <1>1 DEF MoveRequest
<1>4. /\ attached' = (attached \ ({t} \X removed)) \cup ({t} \X added)
      /\ roles' = {h \in roles : ~(h[1] = t /\ h[3] \in removed)} \cup ({t} \X moved \X added)
      /\ R!End(q) /\ UNCHANGED <<status, granting, staffOverride>> /\ R!Owners' # {}
  BY <1>2 DEF R!setBranches, R!MoveRoles, R!assertNotLastOwner
<1> HIDE DEF removed, added, moved
<1>5. attached' \subseteq Staff \X Branches /\ roles' \subseteq Staff \X AnyRole \X Branches
  BY <1>3, <1>4 DEF RolesInv, R!TypeOK, AnyRole
<1>6. \A u \in Staff : u # t => R!RolesOf(u)' = R!RolesOf(u)
  BY <1>4, OnlyRolesOf
<1>7. \A u \in Staff : u # t => R!BranchesOf(u)' = R!BranchesOf(u)
  BY <1>4 DEF R!BranchesOf
<1>8. status[t] # "none"
  BY <1>1, <1>2 DEF RolesInv, TargetExists
<1>9. /\ status' \in [Staff -> {"none", "active", "inactive"}] /\ status' = status
      /\ granting' \subseteq EditableRoles /\ staffOverride' \in [Staff -> {"none", "grant", "deny"}]
  BY <1>4 DEF RolesInv, R!TypeOK
<1> QED  BY <1>4, <1>5, <1>6, <1>7, <1>8, <1>9, HeldByOne

\* setActive, setOverride and replacePermissions.
LEMMA PlainKeeps ==
  ASSUME RolesInv, NEW q \in Requests, R!setActive(q) \/ R!setOverride(q) \/ R!replacePermissions(q)
  PROVE  RolesInv'
<1>1. R!End(q) /\ UNCHANGED <<attached, roles>>
  BY DEF R!setActive, R!setOverride, R!replacePermissions
<1>2. CASE R!setActive(q)
  <2>1. staffRequest[q] \in PlainRequest
    BY <1>2, RequestKinds DEF R!setActive, R!Begun
  <2>2. PICK t \in Staff : t = staffRequest[q].target
    BY <2>1 DEF PlainRequest
  <2>3. PICK s \in {"active", "inactive"} : /\ status' = [status EXCEPT ![t] = s]
                                            /\ s = "inactive" => R!Begun(q, "deactivate")
    BY <1>2, <2>2 DEF R!setActive
  <2>4. \A u \in Staff : status'[u] = IF u = t THEN s ELSE status[u]
    BY <2>3 DEF RolesInv, R!TypeOK
  <2>5. /\ status' \in [Staff -> {"none", "active", "inactive"}]
        /\ \A u \in Staff : status[u] # "none" => status'[u] # "none"
    BY <2>3, <2>4 DEF RolesInv, R!TypeOK
  <2>6. R!Owners' # {}
    <3>1. CASE s = "active"
      BY <3>1, <2>4, <1>1, OwnerStays
    <3>2. CASE s = "inactive"
      BY <3>2, <2>3, <1>2 DEF R!setActive, R!assertNotLastOwner
    <3> QED  BY <3>1, <3>2
  <2>7. granting' \subseteq EditableRoles /\ staffOverride' \in [Staff -> {"none", "grant", "deny"}]
    BY <1>2 DEF R!setActive, RolesInv, R!TypeOK
  <2> QED  BY <1>1, <2>5, <2>6, <2>7, HeldAlike
<1>3. CASE R!setOverride(q) \/ R!replacePermissions(q)
  <2>1. status' = status /\ R!Owners' # {}
    BY <1>1, <1>3, OwnerStays DEF R!setOverride, R!replacePermissions
  <2>2. granting' \subseteq EditableRoles /\ staffOverride' \in [Staff -> {"none", "grant", "deny"}]
    <3>1. CASE R!setOverride(q)
      <4>1. staffRequest[q] \in PlainRequest /\ staffRequest[q].op = "override"
        BY <3>1, RequestKinds DEF R!setOverride, R!Begun
      <4>2. staffRequest[q].effect \in {"none", "grant", "deny"}
        BY <4>1 DEF PlainRequest
      <4> QED  BY <3>1, <4>2 DEF R!setOverride, RolesInv, R!TypeOK
    <3>2. CASE R!replacePermissions(q)
      <4>1. staffRequest[q] \in PermissionRequest
        BY <3>2, RequestKinds DEF R!replacePermissions, R!Begun
      <4>2. staffRequest[q].role \in EditableRoles
        BY <4>1 DEF PermissionRequest
      <4> QED  BY <3>2, <4>2 DEF R!replacePermissions, RolesInv, R!TypeOK
    <3> QED  BY <1>3, <3>1, <3>2
  <2>3. /\ status' \in [Staff -> {"none", "active", "inactive"}]
        /\ \A u \in Staff : status[u] # "none" => status'[u] # "none"
    BY <2>1 DEF RolesInv, R!TypeOK
  <2> QED  BY <1>1, <2>1, <2>2, <2>3, HeldAlike
<1> QED  BY <1>2, <1>3

LEMMA RefuseKeeps ==
  ASSUME RolesInv, NEW q \in Requests, R!Refuse(q)
  PROVE  RolesInv'
<1>1. R!Owners' # {}
  BY OwnerStays DEF R!Refuse
<1>2. /\ status' \in [Staff -> {"none", "active", "inactive"}]
      /\ \A u \in Staff : status[u] # "none" => status'[u] # "none"
      /\ granting' \subseteq EditableRoles /\ staffOverride' \in [Staff -> {"none", "grant", "deny"}]
  BY DEF R!Refuse, RolesInv, R!TypeOK
<1> QED  BY <1>1, <1>2, HeldAlike DEF R!Refuse

LEMMA RolesInvInit ==
  ASSUME R!Init, R!RoleConstants
  PROVE  RolesInv
<1>1. PICK o \in Staff :
        /\ status = [v \in Staff |-> IF v = o THEN "active" ELSE "none"]
        /\ attached = {o} \X Branches
        /\ roles = {o} \X {Owner} \X Branches
  BY DEF R!Init
<1>2. PICK b \in Branches : TRUE
  BY DEF R!RoleConstants
<1>3. <<o, Owner, b>> \in roles
  BY <1>1
<1>4. Owner \in R!RolesOf(o)
  BY <1>3 DEF R!RolesOf
<1>5. R!OwnerRemains
  BY <1>1, <1>4 DEF R!OwnerRemains, R!Owners
<1>6. \A u \in Staff : status[u] = "none" => R!RolesOf(u) = {} /\ R!BranchesOf(u) = {}
  BY <1>1 DEF R!RolesOf, R!BranchesOf
<1>7. R!TypeOK
  BY <1>1, <1>6 DEF R!Init, R!TypeOK, R!RoleConstants
<1>8. staffRequest \in [Requests -> RequestOf] /\ \A q \in Requests : TargetExists(staffRequest[q])
  BY DEF R!Init, RequestOf, TargetExists, R!Idle
<1> QED  BY <1>5, <1>7, <1>8 DEF RolesInv

LEMMA RolesInvNext ==
  ASSUME RolesInv, [R!Next]_R!vars, R!RoleConstants
  PROVE  RolesInv'
<1>1. CASE UNCHANGED R!vars
  BY <1>1 DEF R!vars, RolesInv, R!TypeOK, TargetExists, R!OwnerRemains, R!Owners, R!RolesOf, R!BranchesOf
<1> QED
  BY <1>1, BeginKeeps, createUserKeeps, RolesKeep, setBranchesKeeps, PlainKeeps, RefuseKeeps
  DEF R!Next, R!Commit

LEMMA RolesInductive ==
  ASSUME R!RoleConstants
  PROVE  R!Spec => []RolesInv
<1>1. R!Init => RolesInv
  BY RolesInvInit
<1>2. RolesInv /\ [R!Next]_R!vars => RolesInv'
  BY RolesInvNext
<1> QED  BY <1>1, <1>2, PTL DEF R!Spec

\* The last-owner rule holds whatever requests the office makes of users, roles
\* and overrides, for any number of both, of branches and of requests at once.
\* Every variable keeps its type.
THEOREM AnOwnerRemains ==
  ASSUME R!RoleConstants
  PROVE  R!Spec => []OwnerRemains
<1>1. RolesInv => OwnerRemains
  BY DEF RolesInv, OwnerRemains
<1> QED  BY <1>1, RolesInductive, PTL

-----------------------------------------------------------------------------
\* Who resolves the right before a step and loses no role, no override and no
\* grant has it afterwards.
LEMMA ResolvedAlike ==
  ASSUME NEW u \in Staff, R!resolve(u), staffOverride'[u] = staffOverride[u],
         R!RolesOf(u) \subseteq R!RolesOf(u)', granting \subseteq granting'
  PROVE  R!resolve(u)'
BY DEF R!resolve, R!Carrying

\* A request leaves its own actor the right to manage: it is not about them,
\* or assertNoSelfLockout has looked.
LEMMA OwnRequestKeeps ==
  ASSUME RolesInv, NEW q \in Requests, NEW u \in Staff, R!Commit(q) \/ R!Refuse(q),
         staffRequest[q].actor = u, staffRequest[q].op = "permissions" => staffRequest[q].target = u,
         R!resolve(u)
  PROVE  R!resolve(u)'
<1>1. CASE R!createUser(q) \/ R!assignRole(q) \/ R!setActive(q) \/ R!Refuse(q)
  <2>1. roles \subseteq roles' /\ UNCHANGED <<granting, staffOverride>>
    BY <1>1 DEF R!createUser, R!assignRole, R!setActive, R!Refuse
  <2>2. R!RolesOf(u) \subseteq R!RolesOf(u)'
    BY <2>1 DEF R!RolesOf
  <2> QED  BY <2>1, <2>2, ResolvedAlike
<1>2. CASE staffRequest[q].target = u
           /\ (R!replaceRoles(q) \/ R!removeRole(q) \/ R!setBranches(q) \/ R!setOverride(q) \/ R!replacePermissions(q))
  BY <1>2 DEF R!replaceRoles, R!removeRole, R!setBranches, R!setOverride, R!replacePermissions, R!assertNoSelfLockout
<1>3. CASE staffRequest[q].target # u /\ (R!replaceRoles(q) \/ R!removeRole(q) \/ R!setBranches(q))
  <2>1. \A h \in roles : h[1] = u => h \in roles'
    BY <1>3 DEF R!replaceRoles, R!removeRole, R!setBranches, R!MoveRoles
  <2>2. R!RolesOf(u) \subseteq R!RolesOf(u)'
    BY <2>1 DEF R!RolesOf
  <2>3. UNCHANGED <<granting, staffOverride>>
    BY <1>3 DEF R!replaceRoles, R!removeRole, R!setBranches
  <2> QED  BY <2>2, <2>3, ResolvedAlike
<1>4. CASE staffRequest[q].target # u /\ R!setOverride(q)
  <2>1. staffOverride'[u] = staffOverride[u] /\ UNCHANGED <<roles, granting>>
    BY <1>4 DEF R!setOverride, RolesInv, R!TypeOK
  <2>2. R!RolesOf(u) \subseteq R!RolesOf(u)'
    BY <2>1 DEF R!RolesOf
  <2> QED  BY <2>1, <2>2, ResolvedAlike
<1>5. R!replacePermissions(q) => staffRequest[q].target = u
  BY DEF R!replacePermissions, R!Begun
<1> QED  BY <1>1, <1>2, <1>3, <1>4, <1>5 DEF R!Commit

\* Nobody's own request takes the right to manage from them, but for the cases
\* that KeepsManaging names.
THEOREM ManagingIsKept ==
  ASSUME R!RoleConstants
  PROVE  R!Spec => KeepsManaging
<1> DEFINE Kept == \A q \in Requests, u \in Staff :
                      /\ staffRequest[q] # R!Idle /\ staffRequest[q].actor = u /\ staffRequest'[q] = R!Idle
                      /\ staffRequest[q].op = "permissions" => staffRequest[q].target = u
                      /\ R!resolve(u)
                      => R!resolve(u)'
<1>1. ASSUME RolesInv, R!Next PROVE Kept
  <2> SUFFICES ASSUME NEW q \in Requests, NEW u \in Staff, staffRequest[q] # R!Idle,
                      staffRequest[q].actor = u, staffRequest'[q] = R!Idle,
                      staffRequest[q].op = "permissions" => staffRequest[q].target = u, R!resolve(u)
               PROVE  R!resolve(u)'
    OBVIOUS
  <2>1. PICK o \in Requests : R!Begin(o) \/ R!Commit(o) \/ R!Refuse(o)
    BY <1>1 DEF R!Next
  <2>2. CASE R!Begin(o)
    <3>1. PICK r : R!Ask(o, r)
      BY <2>2 DEF R!Begin, R!BeginCreate, R!BeginRole, R!BeginBranches, R!BeginPlain, R!BeginPermissions
    <3>2. staffOverride' = staffOverride /\ roles' = roles /\ granting' = granting
      BY <3>1 DEF R!Ask
    <3> QED  BY <3>2, ResolvedAlike DEF R!RolesOf
  <2>3. CASE (R!Commit(o) \/ R!Refuse(o)) /\ o # q
    <3>1. R!End(o)
      BY <2>3 DEF R!Commit, R!Refuse, R!createUser, R!assignRole, R!replaceRoles, R!removeRole, R!setBranches,
                  R!setActive, R!setOverride, R!replacePermissions
    <3>2. staffRequest'[q] = staffRequest[q]
      BY <2>3, <3>1, <1>1 DEF R!End, RolesInv
    <3> QED  BY <3>2
  <2>4. CASE (R!Commit(o) \/ R!Refuse(o)) /\ o = q
    BY <2>4, <1>1, OwnRequestKeeps
  <2> QED  BY <2>1, <2>2, <2>3, <2>4
<1>2. RolesInv /\ [R!Next]_R!vars => [Kept]_R!vars
  BY <1>1
<1> QED  BY <1>2, RolesInductive, PTL DEF R!Spec, KeepsManaging, R!KeepsManaging


-----------------------------------------------------------------------------
\* Importing.

Status == {I!None, "validated", "completed", "failed"}
JobRow == [status : Status, sheet : Sheets \cup {<< >>}, valid : Nat, failed : Nat]

Ready == [pc : {"lock"}, job : Jobs, skipInvalid : BOOLEAN, no : 1..MaxCommits]

Committing == [pc : {"row", "audit"}, job : Jobs, skipInvalid : BOOLEAN, no : 1..MaxCommits,
           todo : SUBSET Nat, committed : Nat, failed : Nat,
           written : SUBSET (Jobs \X Nat \X I!Parts \X (1..MaxCommits)),
           saved : SUBSET (Jobs \X Nat \X I!Parts \X (1..MaxCommits))]

ImportTypes ==
    /\ codes \subseteq Codes /\ phones \subseteq Phones /\ commits \in 0..MaxCommits
    /\ job \in [Jobs -> JobRow]
    /\ record \subseteq Jobs \X Nat \X I!Parts \X (1..MaxCommits)
    /\ commit \in [Requests -> {I!Free} \cup Ready \cup Committing]

\* The rows of D, each with both its parts.
Whole(j, D, no) == {j} \X D \X I!Parts \X {no}

\* The numbers of the rows that are saved.
DoneOf(m) == {r[2] : r \in m.saved}

\* A commit in the middle: its saved rows are whole, they, the rows still to be
\* created and those that were skipped are the sheet, and what is written beyond
\* them is the record of the row at hand.
CommitInv(m) ==
    LET n == Len(job[m.job].sheet)
        next == <<m.job, I!First(m.todo), "record", m.no>>
    IN  /\ job[m.job].status = "validated"
        /\ IsFiniteSet(m.todo) /\ m.todo \subseteq 1..n
        /\ IsFiniteSet(DoneOf(m)) /\ m.todo \cap DoneOf(m) = {}
        /\ m.saved = Whole(m.job, DoneOf(m), m.no)
        /\ Cardinality(DoneOf(m)) = m.committed
        /\ m.committed + m.failed + Cardinality(m.todo) = n
        /\ m.pc = "row" => m.written = m.saved
        /\ m.pc = "audit" => m.todo # {} /\ m.written = m.saved \cup {next}

\* One commit of a job is at its rows.
OneCommits ==
    \A q, o \in Requests :
        commit[q] \in Committing /\ commit[o] \in Committing /\ commit[q].job = commit[o].job => q = o

\* What a job has written.
Mine(j) == {r \in record : r[1] = j}

JobInv(j) ==
    /\ job[j].valid + job[j].failed = Len(job[j].sheet)
    /\ IF job[j].status = "completed"
       THEN \E D \in SUBSET Nat, no \in 1..MaxCommits :
              /\ IsFiniteSet(D) /\ D # {} /\ Cardinality(D) = job[j].valid
              /\ Mine(j) = Whole(j, D, no)
       ELSE Mine(j) = {}

ImportInv ==
    /\ ImportTypes
    /\ \A q \in Requests : commit[q] \in Committing => CommitInv(commit[q])
    /\ OneCommits
    /\ \A j \in Jobs : JobInv(j)

-----------------------------------------------------------------------------
LEMMA CallsOf ==
  ASSUME ImportTypes, NEW q \in Requests
  PROVE  /\ commit[q].pc = "lock" => commit[q] \in Ready
         /\ commit[q].pc \in {"row", "audit"} <=> commit[q] \in Committing
         /\ q \in I!Inserting <=> commit[q] \in Committing
BY DEF ImportTypes, I!Free, Ready, Committing, I!Inserting

LEMMA SheetLength ==
  ASSUME I!ImportConstants, NEW s \in Sheets \cup {<< >>}
  PROVE  Len(s) \in Nat
<1>1. CASE s \in Sheets
  <2>1. s \in Seq(I!Cells)
    BY <1>1 DEF I!ImportConstants
  <2> QED  BY <2>1
<1>2. CASE s = << >>
  BY <1>2
<1> QED  BY <1>1, <1>2

\* The component counts with the standard module's operator.
LEMMA CountedAlike ==
  ASSUME NEW T
  PROVE  I!Cardinality(T) = Cardinality(T)
<1>1. I!IsFiniteSet(T) = IsFiniteSet(T)
  BY DEF I!IsFiniteSet, IsFiniteSet
<1> QED  BY <1>1 DEF I!Cardinality, Cardinality

\* The sound rows of a sheet.
LEMMA ParsedRows ==
  ASSUME NEW s, Len(s) \in Nat
  PROVE  /\ I!Parsed(s) \subseteq 1..Len(s) /\ IsFiniteSet(I!Parsed(s))
         /\ Cardinality(I!Parsed(s)) \in Nat /\ Cardinality(I!Parsed(s)) <= Len(s)
<1>1. IsFiniteSet(1..Len(s)) /\ Cardinality(1..Len(s)) = Len(s)
  <2>1. \A n \in Nat : IsFiniteSet(1..n) /\ Cardinality(1..n) = IF 1 > n THEN 0 ELSE n - 1 + 1
    BY FS_Interval
  <2>2. \A n \in Nat : Cardinality(1..n) = n
    BY <2>1
  <2> QED  BY <2>1, <2>2
<1>2. I!Parsed(s) \in SUBSET (1..Len(s))
  BY DEF I!Parsed
<1> QED  BY <1>1, <1>2, FS_Subset, FS_CardinalityType


\* The first of a set of numbers.
LEMMA FirstOf ==
  ASSUME NEW T \in SUBSET Nat, T # {}
  PROVE  I!First(T) \in T
<1> DEFINE less == {ss \in Nat \X Nat : ss[1] < ss[2]}
<1>1. IsWellFoundedOn(less, Nat)
  BY NatLessThanWellFounded DEF OpToRel
<1> HIDE DEF less
<1>2. PICK x \in T : \A y \in T : ~(<<y, x>> \in less)
  BY <1>1, WFMin
<1>3. ASSUME NEW y \in T PROVE x <= y
  <2>1. x \in Nat /\ y \in Nat
    OBVIOUS
  <2>2. ~(y < x)
    BY <1>2, <2>1 DEF less
  <2> QED  BY <2>1, <2>2
<1> QED  BY <1>3 DEF I!First

\* Rows of whole records.
LEMMA WholeRows ==
  ASSUME NEW j, NEW D, NEW no
  PROVE  {r[2] : r \in Whole(j, D, no)} = D
<1>1. ASSUME NEW d \in D PROVE \E r \in Whole(j, D, no) : r[2] = d
  <2>1. <<j, d, "record", no>> \in Whole(j, D, no)
    BY DEF Whole, I!Parts
  <2> QED  BY <2>1
<1> QED  BY <1>1 DEF Whole

-----------------------------------------------------------------------------
\* Steps of one commit, the jobs and their records as they were.
LEMMA OneCommitMoves ==
  ASSUME ImportInv, NEW q \in Requests, NEW m \in {I!Free} \cup Ready \cup Committing,
         commit' = [commit EXCEPT ![q] = m], UNCHANGED <<codes, phones, job, record>>,
         commits' \in 0..MaxCommits,
         m \in Committing => /\ CommitInv(m)
                             /\ \/ commit[q] \in Committing /\ commit[q].job = m.job
                                \/ ~I!Locked(m.job)
  PROVE  ImportInv'
<1>1. \A o \in Requests : commit'[o] = IF o = q THEN m ELSE commit[o]
  BY DEF ImportInv, ImportTypes
<1>2. commit' \in [Requests -> {I!Free} \cup Ready \cup Committing]
  BY DEF ImportInv, ImportTypes
<1>3. ImportTypes'
  BY <1>2 DEF ImportInv, ImportTypes
<1>4. \A r : CommitInv(r)' <=> CommitInv(r)
  BY DEF CommitInv, DoneOf
<1>5. ASSUME NEW o \in Requests, commit'[o] \in Committing PROVE CommitInv(commit[o])'
  <2>1. PICK r : r = commit'[o]
    OBVIOUS
  <2>2. CommitInv(r)
    BY <1>1, <1>5, <2>1 DEF ImportInv
  <2> QED  BY <2>1, <2>2 DEF CommitInv, DoneOf
<1>6. (\A o \in Requests : commit[o] \in Committing => CommitInv(commit[o]))'
  BY <1>5
<1>7. OneCommits'
  <2> SUFFICES ASSUME NEW x \in Requests, NEW o \in Requests, commit'[x] \in Committing,
                      commit'[o] \in Committing, commit'[x].job = commit'[o].job, x # o
               PROVE  FALSE
    BY DEF OneCommits
  <2>1. PICK y \in Requests : y # q /\ commit[y] \in Committing /\ m \in Committing /\ commit[y].job = m.job
    <3>1. CASE x = q
      BY <3>1, <1>1
    <3>2. CASE o = q
      BY <3>2, <1>1
    <3>3. CASE x # q /\ o # q
      BY <3>3, <1>1 DEF ImportInv, OneCommits
    <3> QED  BY <3>1, <3>2, <3>3
  <2>2. ~I!Locked(m.job) => FALSE
    BY <2>1, CallsOf DEF I!Locked, ImportInv
  <2> QED  BY <2>1, <2>2 DEF ImportInv, OneCommits
<1>8. \A j \in Jobs : JobInv(j)'
  BY DEF ImportInv, JobInv, Mine
<1> QED  BY <1>3, <1>6, <1>7, <1>8 DEF ImportInv

LEMMA DoneKeeps ==
  ASSUME ImportInv, NEW q \in Requests, I!Done(q), UNCHANGED <<codes, phones, job, record, commits>>
  PROVE  ImportInv'
<1>1. I!Free \notin Committing
  BY DEF I!Free, Committing
<1> QED  BY <1>1, OneCommitMoves DEF I!Done, ImportInv, ImportTypes

LEMMA commitKeeps ==
  ASSUME ImportInv, I!ImportConstants, NEW q \in Requests, I!commit(q)
  PROVE  ImportInv'
<1>1. PICK j \in Jobs, skip \in BOOLEAN :
        commit' = [commit EXCEPT ![q] = [pc |-> "lock", job |-> j, skipInvalid |-> skip, no |-> commits']]
  BY DEF I!commit
<1>2. commits' \in 1..MaxCommits
  BY DEF I!commit, ImportInv, ImportTypes, I!ImportConstants
<1> DEFINE m == [pc |-> "lock", job |-> j, skipInvalid |-> skip, no |-> commits']
<1>3. m \in Ready /\ m \notin Committing
  BY <1>2 DEF Ready, Committing
<1>4. commit' = [commit EXCEPT ![q] = m]
  BY <1>1
<1> HIDE DEF m
<1>5. UNCHANGED <<codes, phones, job, record>> /\ commits' \in 0..MaxCommits
  BY <1>2 DEF I!commit, I!ImportConstants
<1> QED  BY <1>3, <1>4, <1>5, OneCommitMoves

LEMMA LockKeeps ==
  ASSUME ImportInv, I!ImportConstants, NEW q \in Requests, I!Lock(q)
  PROVE  ImportInv'
<1>1. UNCHANGED <<codes, phones, job, record, commits>>
  BY DEF I!Lock
<1>2. CASE I!Done(q)
  BY <1>1, <1>2, DoneKeeps
<1>3. CASE ~I!Done(q)
  <2>0. commit[q] \in Ready /\ ~I!Locked(commit[q].job)
    BY CallsOf DEF I!Lock, ImportInv
  <2>1. PICK j \in Jobs : j = commit[q].job
    BY <2>0 DEF Ready
  <2> DEFINE sheet == job[j].sheet
             parsed == I!Parsed(sheet)
             m == [pc |-> "row", job |-> j, skipInvalid |-> commit[q].skipInvalid,
                   todo |-> parsed, written |-> {}, saved |-> {}, no |-> commit[q].no,
                   committed |-> 0, failed |-> Len(sheet) - Cardinality(parsed)]
  <2>2. job[j].status = "validated" /\ commit' = [commit EXCEPT ![q] = m]
    BY <1>3, <2>1, CountedAlike DEF I!Lock, I!Begin, I!Of
  <2>3. Len(sheet) \in Nat
    BY SheetLength DEF ImportInv, ImportTypes, JobRow
  <2>4. /\ parsed \subseteq 1..Len(sheet) /\ IsFiniteSet(parsed)
        /\ Cardinality(parsed) \in Nat /\ Cardinality(parsed) <= Len(sheet)
    BY <2>3, ParsedRows
  <2>5. m \in Committing
    <3>1. Len(sheet) - Cardinality(parsed) \in Nat /\ parsed \in SUBSET Nat
      BY <2>3, <2>4
    <3> HIDE DEF sheet, parsed
    <3> QED  BY <3>1, <2>0 DEF Ready, Committing
  <2>6. /\ m.job = j /\ m.todo = parsed /\ m.written = {} /\ m.saved = {} /\ m.committed = 0
        /\ m.failed = Len(sheet) - Cardinality(parsed) /\ m.pc = "row"
    OBVIOUS
  <2>7. DoneOf(m) = {} /\ m.saved = Whole(j, {}, m.no) /\ IsFiniteSet({}) /\ Cardinality({}) = 0
    BY <2>6, FS_EmptySet DEF DoneOf, Whole
  <2>8. CommitInv(m)
    <3> HIDE DEF m, parsed
    <3> QED  BY <2>2, <2>3, <2>4, <2>6, <2>7 DEF CommitInv
  <2> HIDE DEF m
  <2> QED  BY <1>1, <2>0, <2>1, <2>2, <2>5, <2>6, <2>8, OneCommitMoves DEF ImportInv, ImportTypes
<1> QED  BY <1>2, <1>3

-----------------------------------------------------------------------------
\* The rows.

\* What is known of a commit at its rows.
LEMMA AtRows ==
  ASSUME ImportInv, I!ImportConstants, NEW q \in Requests, commit[q] \in Committing
  PROVE  /\ CommitInv(commit[q]) /\ commit[q].job \in Jobs
         /\ Len(job[commit[q].job].sheet) \in Nat
         /\ commit[q].todo # {} => I!Number(q) \in commit[q].todo
<1>1. commit[q].job \in Jobs /\ commit[q].todo \in SUBSET Nat
  BY DEF Committing
<1>2. job[commit[q].job] \in JobRow
  BY <1>1 DEF ImportInv, ImportTypes
<1>3. Len(job[commit[q].job].sheet) \in Nat
  BY <1>2, SheetLength DEF JobRow
<1> QED  BY <1>1, <1>3, FirstOf DEF ImportInv, I!Number

LEMMA commitRowKeeps ==
  ASSUME ImportInv, I!ImportConstants, NEW q \in Requests, I!commitRow(q)
  PROVE  ImportInv'
<1>1. commit[q] \in Committing /\ commit[q].pc = "row" /\ commit[q].todo # {}
  BY CallsOf DEF I!commitRow, ImportInv
<1>2. CommitInv(commit[q]) /\ I!Number(q) \in commit[q].todo /\ commit[q].job \in Jobs
  BY <1>1, AtRows
<1> DEFINE next == <<commit[q].job, I!Number(q), "record", commit[q].no>>
           rows == commit[q].written \cup {next}
           m == [commit[q] EXCEPT !.pc = "audit", !.written = rows]
<1>3. commit' = [commit EXCEPT ![q] = m]
  <2>1. commit' = [commit EXCEPT ![q].pc = "audit", ![q].written = @ \cup {next}]
    BY DEF I!commitRow
  <2> HIDE DEF next
  <2> QED  BY <2>1 DEF ImportInv, ImportTypes
<1>4. rows \in SUBSET (Jobs \X Nat \X I!Parts \X (1..MaxCommits))
  BY <1>1, <1>2 DEF Committing, I!Parts
<1>5. m \in Committing /\ m.job = commit[q].job
  <2> HIDE DEF rows
  <2> QED  BY <1>1, <1>4 DEF Committing
<1>6. /\ m.todo = commit[q].todo /\ m.no = commit[q].no /\ m.saved = commit[q].saved
      /\ m.committed = commit[q].committed /\ m.failed = commit[q].failed
      /\ m.pc = "audit" /\ m.written = rows
  <2> HIDE DEF rows
  <2> QED  BY <1>1 DEF Committing
<1>7. rows = commit[q].saved \cup {<<commit[q].job, I!First(commit[q].todo), "record", commit[q].no>>}
  BY <1>1, <1>2 DEF CommitInv, I!Number
<1> HIDE DEF m, rows
<1>8. CommitInv(m)
  BY <1>1, <1>2, <1>5, <1>6, <1>7 DEF CommitInv, DoneOf
<1>9. UNCHANGED <<codes, phones, job, record>> /\ commits' \in 0..MaxCommits
  BY DEF I!commitRow, ImportInv, ImportTypes
<1> QED  BY <1>1, <1>3, <1>5, <1>8, <1>9, OneCommitMoves

\* A row leaves those to be created.
LEMMA RestOf ==
  ASSUME NEW T \in SUBSET Nat, T # {}, IsFiniteSet(T)
  PROVE  /\ I!Rest(T) \subseteq T /\ IsFiniteSet(I!Rest(T)) /\ I!First(T) \notin I!Rest(T)
         /\ Cardinality(I!Rest(T)) = Cardinality(T) - 1 /\ Cardinality(I!Rest(T)) \in Nat
<1>1. I!First(T) \in T
  BY FirstOf
<1> QED  BY <1>1, FS_RemoveElement, FS_CardinalityType DEF I!Rest

LEMMA ReleaseRowKeeps ==
  ASSUME ImportInv, I!ImportConstants, NEW q \in Requests, I!ReleaseRow(q)
  PROVE  ImportInv'
<1>1. commit[q] \in Committing /\ commit[q].pc = "audit"
  BY CallsOf DEF I!ReleaseRow, ImportInv
<1>2. /\ CommitInv(commit[q]) /\ commit[q].todo # {} /\ I!Number(q) \in commit[q].todo
      /\ commit[q].job \in Jobs /\ Len(job[commit[q].job].sheet) \in Nat
  BY <1>1, AtRows DEF CommitInv
<1> DEFINE i == I!Number(q)
           rows == commit[q].written \cup {<<commit[q].job, i, "audit", commit[q].no>>}
           todo == I!Rest(commit[q].todo)
           count == commit[q].committed + 1
           m == [commit[q] EXCEPT !.pc = "row", !.todo = todo, !.written = rows, !.saved = rows,
                                  !.committed = count]
           D == DoneOf(commit[q])
<1>3. commit' = [commit EXCEPT ![q] = m]
  <2>1. commit' = [commit EXCEPT ![q].pc = "row", ![q].todo = I!Rest(@), ![q].written = rows,
                                 ![q].saved = rows, ![q].committed = @ + 1]
    BY DEF I!ReleaseRow
  <2> HIDE DEF rows
  <2> QED  BY <2>1 DEF ImportInv, ImportTypes
<1>4. commit[q].todo \in SUBSET Nat /\ IsFiniteSet(commit[q].todo)
  BY <1>1, <1>2 DEF Committing, CommitInv
<1>5. /\ todo \subseteq commit[q].todo /\ IsFiniteSet(todo) /\ i \notin todo
      /\ Cardinality(todo) = Cardinality(commit[q].todo) - 1 /\ Cardinality(todo) \in Nat
  BY <1>2, <1>4, RestOf DEF I!Number
<1>6. rows \in SUBSET (Jobs \X Nat \X I!Parts \X (1..MaxCommits))
  BY <1>1, <1>2, <1>4 DEF Committing, I!Parts
<1>7. count \in Nat /\ commit[q].committed \in Nat /\ commit[q].failed \in Nat
  BY <1>1 DEF Committing
<1>8. rows = Whole(commit[q].job, D \cup {i}, commit[q].no)
  <2>1. commit[q].written = Whole(commit[q].job, D, commit[q].no) \cup {<<commit[q].job, i, "record", commit[q].no>>}
    BY <1>1, <1>2 DEF CommitInv, I!Number
  <2> HIDE DEF D, i
  <2>2. Whole(commit[q].job, D, commit[q].no) \cup {<<commit[q].job, i, "record", commit[q].no>>}
          \cup {<<commit[q].job, i, "audit", commit[q].no>>} = Whole(commit[q].job, D \cup {i}, commit[q].no)
    BY DEF Whole, I!Parts
  <2> QED  BY <2>1, <2>2
<1>9. /\ IsFiniteSet(D) /\ Cardinality(D) = commit[q].committed /\ i \notin D
      /\ IsFiniteSet(D \cup {i}) /\ Cardinality(D \cup {i}) = count
  <2>1. IsFiniteSet(D) /\ Cardinality(D) = commit[q].committed /\ i \notin D
    BY <1>2 DEF CommitInv
  <2> HIDE DEF D, i
  <2> QED  BY <2>1, FS_AddElement
<1>10. todo \cap (D \cup {i}) = {}
  BY <1>2, <1>5 DEF CommitInv
<1> HIDE DEF rows, todo, count, D, i
<1>11. m \in Committing /\ m.job = commit[q].job
  BY <1>1, <1>4, <1>5, <1>6, <1>7 DEF Committing
<1>12. /\ m.todo = todo /\ m.no = commit[q].no /\ m.saved = rows
       /\ m.committed = count /\ m.failed = commit[q].failed
       /\ m.pc = "row" /\ m.written = rows
  BY <1>1 DEF Committing
<1> HIDE DEF m
<1>13. DoneOf(m) = D \cup {i}
  BY <1>8, <1>12, WholeRows DEF DoneOf
<1>14. m.committed + m.failed + Cardinality(m.todo) = Len(job[m.job].sheet)
  <2>1. commit[q].committed + commit[q].failed + Cardinality(commit[q].todo) = Len(job[commit[q].job].sheet)
    BY <1>2 DEF CommitInv
  <2>2. Cardinality(commit[q].todo) \in Nat
    BY <1>4, FS_CardinalityType
  <2>3. \A a, b, c \in Nat : (a + 1) + b + (c - 1) = a + b + c
    OBVIOUS
  <2>4. count + commit[q].failed + Cardinality(todo) = Len(job[commit[q].job].sheet)
    BY <1>5, <1>7, <2>1, <2>2, <2>3, SMTT(30) DEF count
  <2> QED  BY <1>11, <1>12, <2>4
<1>15. CommitInv(m)
  BY <1>2, <1>5, <1>8, <1>9, <1>10, <1>11, <1>12, <1>13, <1>14 DEF CommitInv
<1>16. UNCHANGED <<codes, phones, job, record>> /\ commits' \in 0..MaxCommits
  BY DEF I!ReleaseRow, ImportInv, ImportTypes
<1> QED  BY <1>1, <1>3, <1>11, <1>15, <1>16, OneCommitMoves

LEMMA FailRowKeeps ==
  ASSUME ImportInv, I!ImportConstants, NEW q \in Requests, I!FailRow(q)
  PROVE  ImportInv'
<1>0. UNCHANGED <<codes, phones, job, record, commits>>
  BY DEF I!FailRow
<1>1. commit[q] \in Committing /\ commit[q].todo # {}
  BY CallsOf DEF I!FailRow, ImportInv
<1>2. CommitInv(commit[q]) /\ commit[q].job \in Jobs /\ Len(job[commit[q].job].sheet) \in Nat
  BY <1>1, AtRows
<1> DEFINE todo == I!Rest(commit[q].todo)
           count == commit[q].failed + 1
           saved == commit[q].saved
           m == [commit[q] EXCEPT !.pc = "row", !.todo = todo, !.failed = count, !.written = saved]
<1>3. CASE I!Done(q)
  BY <1>0, <1>3, DoneKeeps
<1>4. CASE commit' = [commit EXCEPT ![q].pc = "row", ![q].todo = I!Rest(@), ![q].failed = @ + 1,
                                    ![q].written = commit[q].saved]
  <2>1. commit' = [commit EXCEPT ![q] = m]
    BY <1>4 DEF ImportInv, ImportTypes
  <2>2. commit[q].todo \in SUBSET Nat /\ IsFiniteSet(commit[q].todo)
    BY <1>1, <1>2 DEF Committing, CommitInv
  <2>3. /\ todo \subseteq commit[q].todo /\ IsFiniteSet(todo)
        /\ Cardinality(todo) = Cardinality(commit[q].todo) - 1 /\ Cardinality(todo) \in Nat
    BY <1>1, <2>2, RestOf
  <2>4. count \in Nat /\ commit[q].committed \in Nat /\ commit[q].failed \in Nat
    BY <1>1 DEF Committing
  <2> HIDE DEF todo, count
  <2>5. m \in Committing /\ m.job = commit[q].job
    BY <1>1, <2>2, <2>3, <2>4 DEF Committing
  <2>6. /\ m.todo = todo /\ m.no = commit[q].no /\ m.saved = commit[q].saved
        /\ m.committed = commit[q].committed /\ m.failed = count
        /\ m.pc = "row" /\ m.written = commit[q].saved
    BY <1>1 DEF Committing
  <2> HIDE DEF m
  <2>7. m.committed + m.failed + Cardinality(m.todo) = Len(job[m.job].sheet)
    <3>1. commit[q].committed + commit[q].failed + Cardinality(commit[q].todo) = Len(job[commit[q].job].sheet)
      BY <1>2 DEF CommitInv
    <3>2. Cardinality(commit[q].todo) \in Nat
      BY <2>2, FS_CardinalityType
    <3>3. commit[q].committed + (commit[q].failed + 1) + (Cardinality(commit[q].todo) - 1)
            = Len(job[commit[q].job].sheet)
      <4>1. PICK a, b, c \in Nat : a = commit[q].committed /\ b = commit[q].failed /\ c = Cardinality(commit[q].todo)
        BY <2>4, <3>2
      <4>2. a + (b + 1) + (c - 1) = a + b + c
        OBVIOUS
      <4> QED  BY <3>1, <4>1, <4>2
    <3>4. commit[q].committed + count + Cardinality(todo) = Len(job[commit[q].job].sheet)
      BY <2>3, <3>3 DEF count
    <3> QED  BY <2>5, <2>6, <3>4
  <2>8. CommitInv(m)
    BY <1>2, <2>3, <2>5, <2>6, <2>7 DEF CommitInv, DoneOf
  <2>9. commits' \in 0..MaxCommits
    BY <1>0 DEF ImportInv, ImportTypes
  <2> QED  BY <1>0, <1>1, <2>1, <2>5, <2>8, <2>9, OneCommitMoves
<1> QED  BY <1>3, <1>4 DEF I!FailRow

\* The transaction commits: what was written becomes what the job has written.
LEMMA CompleteKeeps ==
  ASSUME ImportInv, I!ImportConstants, NEW q \in Requests, I!Complete(q)
  PROVE  ImportInv'
<1>1. commit[q] \in Committing /\ commit[q].pc = "row" /\ commit[q].todo = {}
  BY CallsOf DEF I!Complete, ImportInv
<1>2. CommitInv(commit[q])
  BY <1>1, AtRows
<1>3. PICK j \in Jobs : j = commit[q].job
  BY <1>1 DEF Committing
<1> DEFINE D == DoneOf(commit[q])
           committed == commit[q].committed
           failed == commit[q].failed
           no == commit[q].no
           ending == IF committed > 0 THEN "completed" ELSE "failed"
           new == [job[j] EXCEPT !.status = ending, !.valid = committed, !.failed = failed]
<1>4. committed \in Nat /\ failed \in Nat /\ no \in 1..MaxCommits
      /\ commit[q].written \subseteq Jobs \X Nat \X I!Parts \X (1..MaxCommits)
  BY <1>1 DEF Committing
<1>5. /\ job[j].status = "validated" /\ IsFiniteSet(D) /\ Cardinality(D) = committed
      /\ commit[q].written = Whole(j, D, no)
      /\ committed + failed + Cardinality({}) = Len(job[j].sheet)
  BY <1>1, <1>2, <1>3 DEF CommitInv
<1>6. D \in SUBSET Nat
  BY <1>1 DEF DoneOf, Committing
<1>7. committed + failed = Len(job[j].sheet) /\ (committed > 0 <=> D # {})
  BY <1>4, <1>5, FS_EmptySet
<1>8. /\ record' = record \cup Whole(j, D, no)
      /\ job' = [job EXCEPT ![j] = new]
      /\ commit' = [commit EXCEPT ![q] = I!Free] /\ UNCHANGED <<codes, phones, commits>>
  BY <1>3, <1>5 DEF I!Complete, I!Done
<1>9. new \in JobRow /\ new.status = ending /\ new.valid = committed /\ new.failed = failed
      /\ new.sheet = job[j].sheet
  <2>1. job[j] \in JobRow /\ ending \in Status
    BY DEF ImportInv, ImportTypes, Status
  <2> HIDE DEF ending, committed, failed
  <2> QED  BY <1>4, <2>1 DEF JobRow
<1>10. \A k \in Jobs : job'[k] = IF k = j THEN new ELSE job[k]
  BY <1>8 DEF ImportInv, ImportTypes
<1>11. ImportTypes'
  <2>1. job' \in [Jobs -> JobRow]
    <3> HIDE DEF new
    <3> QED  BY <1>8, <1>9 DEF ImportInv, ImportTypes
  <2>2. commit' \in [Requests -> {I!Free} \cup Ready \cup Committing]
    BY <1>8 DEF ImportInv, ImportTypes
  <2>3. record' \subseteq Jobs \X Nat \X I!Parts \X (1..MaxCommits)
    BY <1>4, <1>5, <1>8 DEF ImportInv, ImportTypes
  <2> QED  BY <1>8, <2>1, <2>2, <2>3 DEF ImportInv, ImportTypes
<1>12. \A o \in Requests : commit'[o] \in Committing => o # q /\ commit'[o] = commit[o]
  BY <1>8 DEF ImportInv, ImportTypes, I!Free, Committing
<1>13. ASSUME NEW o \in Requests, commit'[o] \in Committing PROVE CommitInv(commit[o])'
  <2>1. PICK r : r = commit[o] /\ r = commit'[o]
    BY <1>12, <1>13
  <2>2. CommitInv(r) /\ r.job # j /\ r.job \in Jobs
    BY <1>1, <1>3, <1>12, <1>13, <2>1 DEF ImportInv, OneCommits, Committing
  <2>3. job'[r.job] = job[r.job]
    BY <1>10, <2>2
  <2> QED  BY <2>1, <2>2, <2>3 DEF CommitInv, DoneOf
<1>14. OneCommits'
  BY <1>12 DEF ImportInv, OneCommits
<1> HIDE DEF new, D, committed, failed, no
<1>15. ASSUME NEW k \in Jobs PROVE JobInv(k)'
  <2>1. CASE k # j
    <3>1. job'[k] = job[k]
      BY <1>10, <2>1
    <3>2. Mine(k)' = Mine(k)
      BY <1>8, <2>1 DEF Mine, Whole
    <3> QED  BY <3>1, <3>2 DEF ImportInv, JobInv
  <2>2. CASE k = j
    <3>1. Mine(j) = {}
      BY <1>5 DEF ImportInv, JobInv
    <3>2. Mine(j)' = Whole(j, D, no)
      BY <1>8, <3>1 DEF Mine, Whole
    <3>3. job'[j] = new
      BY <1>10
    <3>4. (job'[j].status = "completed") <=> D # {}
      BY <1>7, <1>9, <3>3
    <3>5. D = {} => Whole(j, D, no) = {}
      BY DEF Whole
    <3>6. job'[j].valid + job'[j].failed = Len(job'[j].sheet) /\ job'[j].valid = committed
      BY <1>7, <1>9, <3>3
    <3> QED  BY <1>4, <1>5, <1>6, <2>2, <3>2, <3>4, <3>5, <3>6 DEF JobInv
  <2> QED  BY <2>1, <2>2
<1> QED  BY <1>11, <1>13, <1>14, <1>15 DEF ImportInv

\* A new job is none that a commit is at.
LEMMA validateKeeps ==
  ASSUME ImportInv, I!ImportConstants, I!validate
  PROVE  ImportInv'
<1> DEFINE j == CHOOSE x \in I!Unused : TRUE
<1>1. j \in I!Unused
  BY DEF I!validate
<1>2. PICK s \in Sheets :
        job' = [job EXCEPT ![j] = [status |-> "validated", sheet |-> s, valid |-> Cardinality(I!Parsed(s)),
                                   failed |-> Len(s) - Cardinality(I!Parsed(s))]]
  BY CountedAlike DEF I!validate
<1> DEFINE new == [status |-> "validated", sheet |-> s, valid |-> Cardinality(I!Parsed(s)),
                   failed |-> Len(s) - Cardinality(I!Parsed(s))]
<1>3. Len(s) \in Nat /\ Cardinality(I!Parsed(s)) \in Nat /\ Cardinality(I!Parsed(s)) <= Len(s)
  BY SheetLength, ParsedRows
<1>4. new \in JobRow /\ new.status = "validated" /\ new.valid + new.failed = Len(new.sheet)
  BY <1>3 DEF JobRow, Status
<1>5. j \in Jobs /\ job[j].status = I!None
  BY <1>1 DEF I!Unused
<1> HIDE DEF j, new
<1>6. job' = [job EXCEPT ![j] = new]
  BY <1>2 DEF new
<1>7. \A k \in Jobs : job'[k] = IF k = j THEN new ELSE job[k]
  BY <1>6 DEF ImportInv, ImportTypes
<1>8. ImportTypes'
  BY <1>4, <1>6 DEF I!validate, ImportInv, ImportTypes
<1>9. ASSUME NEW o \in Requests, commit[o] \in Committing PROVE CommitInv(commit[o])'
  <2>1. CommitInv(commit[o]) /\ commit[o].job \in Jobs
    BY <1>9 DEF ImportInv, Committing
  <2>2. commit[o].job # j
    BY <2>1, <1>5 DEF CommitInv, I!None
  <2>3. job'[commit[o].job] = job[commit[o].job] /\ commit' = commit
    BY <1>7, <2>1, <2>2 DEF I!validate
  <2> QED  BY <2>1, <2>3 DEF CommitInv, DoneOf
<1>10. (\A o \in Requests : commit[o] \in Committing => CommitInv(commit[o]))' /\ OneCommits'
  BY <1>9 DEF I!validate, ImportInv, OneCommits
<1>11. ASSUME NEW k \in Jobs PROVE JobInv(k)'
  <2>1. Mine(k)' = Mine(k)
    BY DEF I!validate, Mine
  <2>2. CASE k # j
    BY <1>7, <2>1, <2>2 DEF ImportInv, JobInv
  <2>3. CASE k = j
    <3>1. Mine(j) = {}
      BY <1>5 DEF ImportInv, JobInv, I!None
    <3> QED  BY <1>4, <1>7, <2>1, <2>3, <3>1 DEF JobInv
  <2> QED  BY <2>2, <2>3
<1> QED  BY <1>8, <1>10, <1>11 DEF ImportInv

LEMMA ImportInvInit ==
  ASSUME I!Init, I!ImportConstants
  PROVE  ImportInv
<1>1. ImportTypes
  BY DEF I!Init, ImportTypes, I!ImportConstants, I!NoJob, JobRow, Status
<1>2. \A q \in Requests : commit[q] \notin Committing
  BY DEF I!Init, I!Free, Committing
<1>3. \A j \in Jobs : JobInv(j)
  BY DEF I!Init, I!NoJob, I!None, JobInv, Mine
<1> QED  BY <1>1, <1>2, <1>3 DEF ImportInv, OneCommits

LEMMA ImportInvNext ==
  ASSUME ImportInv, [I!Next]_I!vars, I!ImportConstants
  PROVE  ImportInv'
<1>1. CASE I!Elsewhere \/ UNCHANGED I!vars
  <2>1. ImportTypes' /\ UNCHANGED <<job, record, commit>>
    BY <1>1 DEF I!Elsewhere, I!vars, ImportInv, ImportTypes
  <2>2. \A r : CommitInv(r) => CommitInv(r)'
    BY <2>1 DEF CommitInv, DoneOf
  <2>3. ASSUME NEW o \in Requests, commit[o] \in Committing PROVE CommitInv(commit[o])'
    BY <2>1, <2>3 DEF ImportInv, CommitInv, DoneOf
  <2>4. (\A o \in Requests : commit[o] \in Committing => CommitInv(commit[o]))' /\ OneCommits'
    BY <2>1, <2>3 DEF ImportInv, OneCommits
  <2>5. \A j \in Jobs : JobInv(j)'
    BY <2>1 DEF ImportInv, JobInv, Mine
  <2> QED  BY <2>1, <2>4, <2>5 DEF ImportInv
<1>2. ASSUME NEW q \in Requests, I!Lose(q) PROVE ImportInv'
  BY <1>2, DoneKeeps DEF I!Lose
<1> QED
  BY <1>1, <1>2, validateKeeps, commitKeeps, LockKeeps, commitRowKeeps, ReleaseRowKeeps, FailRowKeeps,
     CompleteKeeps DEF I!Next

LEMMA ImportInductive ==
  ASSUME I!ImportConstants
  PROVE  I!Spec => []ImportInv
<1>1. I!Init => ImportInv
  BY ImportInvInit
<1>2. ImportInv /\ [I!Next]_I!vars => ImportInv'
  BY ImportInvNext
<1> QED  BY <1>1, <1>2, PTL DEF I!Spec

\* A completed import has written each row it counts once, whole, under one
\* commit, and any other job nothing: for any sheets, and whatever is retried,
\* overlaps, is skipped or is cut off.  Every variable keeps its type.
THEOREM RowsImportedOnce ==
  ASSUME I!ImportConstants
  PROVE  I!Spec => []ImportedOnce
<1>1. ASSUME ImportInv PROVE I!TypeOK
  BY <1>1 DEF ImportInv, ImportTypes, JobRow, Status, I!TypeOK
<1>2. ASSUME ImportInv PROVE I!ImportedOnce
  <2> SUFFICES ASSUME NEW j \in Jobs
               PROVE  LET mine == {r \in record : r[1] = j}
                          numbers == {r[2] : r \in mine}
                      IN  /\ job[j].status # "completed" => mine = {}
                          /\ job[j].status = "completed" =>
                              /\ Cardinality(numbers) = job[j].valid /\ numbers # {}
                              /\ \A n \in numbers :
                                  {<<r[3], r[4]>> : r \in {x \in mine : x[2] = n}} \in
                                      {I!Parts \X {no} : no \in 1..MaxCommits}
                          /\ job[j].valid + job[j].failed = Len(job[j].sheet)
    BY CountedAlike DEF I!ImportedOnce
  <2>1. JobInv(j)
    BY <1>2 DEF ImportInv
  <2>2. CASE job[j].status # "completed"
    BY <2>1, <2>2 DEF JobInv, Mine
  <2>3. CASE job[j].status = "completed"
    <3>1. PICK D \in SUBSET Nat, no \in 1..MaxCommits :
            D # {} /\ Cardinality(D) = job[j].valid /\ Mine(j) = Whole(j, D, no)
      BY <2>1, <2>3 DEF JobInv
    <3>2. {r[2] : r \in Mine(j)} = D
      BY <3>1, WholeRows
    <3>3. ASSUME NEW n \in D PROVE {<<r[3], r[4]>> : r \in {x \in Mine(j) : x[2] = n}} = I!Parts \X {no}
      <4>1. {x \in Mine(j) : x[2] = n} = {j} \X {n} \X I!Parts \X {no}
        BY <3>1, <3>3 DEF Whole
      <4>2. ASSUME NEW p \in I!Parts PROVE \E r \in {j} \X {n} \X I!Parts \X {no} : r[3] = p /\ r[4] = no
        <5>1. <<j, n, p, no>> \in {j} \X {n} \X I!Parts \X {no}
          OBVIOUS
        <5> QED  BY <5>1
      <4> QED  BY <4>1, <4>2
    <3> QED  BY <2>1, <2>3, <3>1, <3>2, <3>3 DEF JobInv, Mine
  <2> QED  BY <2>2, <2>3
<1>3. ImportInv => ImportedOnce
  BY <1>1, <1>2 DEF ImportedOnce
<1> QED  BY <1>3, ImportInductive, PTL
=============================================================================

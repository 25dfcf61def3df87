--------------------------- MODULE PermissionCache ---------------------------
(***************************************************************************)
(* How a request learns whether its user holds a permission: it reads the  *)
(* tenant's permissions_version, looks in a cache kept under that version, *)
(* and on a miss resolves roles and overrides with several queries         *)
(* (src/src/rbac/permission.guard.ts, permission-cache.service.ts,         *)
(* permission-resolver.service.ts), while every change to a role, a grant  *)
(* or an override raises the version in its own transaction.               *)
(*                                                                         *)
(* One permission; scopes are left out.  The clock matters because an      *)
(* override ends by itself, at valid_until, and so does a cache entry.     *)
(***************************************************************************)
EXTENDS Integers

CONSTANTS
    Users,
    Roles,
    Requests,
    Instants,     \* the values of valid_until
    TTL,          \* lifetime of a cache entry
    MaxEdits,     \* bound on edits
    MaxTime       \* bound on the clock

ASSUME CacheAssumption ==
    /\ Users # {} /\ Instants \subseteq Nat /\ Instants # {}
    /\ TTL \in Nat \ {0} /\ MaxEdits \in Nat /\ MaxTime \in Nat

VARIABLES
    holds,      \* user_role: the roles of each user
    carrying,   \* role_permission: the roles that carry the permission
    override,   \* user_permission_override of each user
    version,    \* tenant.permissions_version
    cache,      \* the LRU cache: a set of entries
    request,    \* what each request has read
    clock

vars == <<holds, carrying, override, version, cache, request, clock>>

NoOverride == [effect |-> "none", until |-> 0]

Override == [effect : {"grant", "deny"}, until : Instants] \cup {NoOverride}

Entry == [user : Users, version : Nat, value : BOOLEAN, at : Nat]

Queries == {"roles", "grants", "override"}

Request ==
    [pc : {"idle", "lookup", "resolve", "done"}, user : Users, version : Nat,
     todo : SUBSET Queries, held : SUBSET Roles, carried : SUBSET Roles,
     override : Override, looked : Nat, at : Nat, answer : BOOLEAN]

\* A request that has read nothing yet.
Idle ==
    [pc |-> "idle", user |-> CHOOSE u \in Users : TRUE, version |-> 0,
     todo |-> {}, held |-> {}, carried |-> {},
     override |-> NoOverride,
     looked |-> 0, at |-> 0, answer |-> FALSE]

-----------------------------------------------------------------------------
Active(o, t) == o.effect # "none" /\ t < o.until

\* The union of the roles' grants, then the user's override, at time t.
Permitted(carried, o, t) ==
    IF Active(o, t) THEN o.effect = "grant" ELSE carried # {}

resolve(u, t) == Permitted(holds[u] \cap carrying, override[u], t)

Put(e) == {f \in cache : f.user # e.user \/ f.version # e.version} \cup {e}

Found(u, v) ==
    {e \in cache : e.user = u /\ e.version = v /\ clock < e.at + TTL}

\* The request has its permissions: a value of instant t.
Answered(q, t, value) ==
    [Idle EXCEPT !.pc = "done", !.user = request[q].user,
                 !.version = request[q].version, !.looked = request[q].looked,
                 !.at = t, !.answer = value]

(***************************************************************************)
(* A request.                                                              *)
(***************************************************************************)
ReadVersion(q) ==
    /\ request[q].pc = "idle"
    /\ \E u \in Users :
        request' = [request EXCEPT ![q].pc = "lookup", ![q].user = u,
                                   ![q].version = version]
    /\ UNCHANGED <<holds, carrying, override, version, cache, clock>>

Hit(q) ==
    /\ request[q].pc = "lookup"
    /\ \E e \in Found(request[q].user, request[q].version) :
        request' = [request EXCEPT ![q] = [Answered(q, e.at, e.value)
                                             EXCEPT !.looked = clock]]
    /\ UNCHANGED <<holds, carrying, override, version, cache, clock>>

Miss(q) ==
    /\ request[q].pc = "lookup"
    /\ Found(request[q].user, request[q].version) = {}
    /\ request' = [request EXCEPT ![q].pc = "resolve", ![q].looked = clock,
                                  ![q].todo = Queries]
    /\ UNCHANGED <<holds, carrying, override, version, cache, clock>>

\* The roles are one query and their grants the next; the overrides are read
\* at the same time.
ReadRoles(q) ==
    /\ request[q].pc = "resolve" /\ "roles" \in request[q].todo
    /\ request' = [request EXCEPT ![q].todo = @ \ {"roles"},
                                  ![q].held = holds[request[q].user]]
    /\ UNCHANGED <<holds, carrying, override, version, cache, clock>>

ReadGrants(q) ==
    /\ request[q].pc = "resolve"
    /\ "grants" \in request[q].todo /\ "roles" \notin request[q].todo
    /\ request' = [request EXCEPT ![q].todo = @ \ {"grants"},
                                  ![q].carried = request[q].held \cap carrying,
                                  ![q].held = {}]
    /\ UNCHANGED <<holds, carrying, override, version, cache, clock>>

ReadOverride(q) ==
    /\ request[q].pc = "resolve" /\ "override" \in request[q].todo
    /\ request' = [request EXCEPT ![q].todo = @ \ {"override"},
                                  ![q].override = override[request[q].user]]
    /\ UNCHANGED <<holds, carrying, override, version, cache, clock>>

Resolved(q) == Permitted(request[q].carried, request[q].override, clock)

\* MUTANT: the entry is kept under the version of this moment.
FinishUnderLatest(q) ==
    /\ request[q].pc = "resolve" /\ request[q].todo = {}
    /\ request' = [request EXCEPT ![q] = Answered(q, clock, Resolved(q))]
    /\ cache' = Put([user |-> request[q].user, version |-> version,
                     value |-> Resolved(q), at |-> clock])
    /\ UNCHANGED <<holds, carrying, override, version, clock>>

Finish(q) ==
    /\ request[q].pc = "resolve" /\ request[q].todo = {}
    /\ request' = [request EXCEPT ![q] = Answered(q, clock, Resolved(q))]
    /\ cache' = Put([user |-> request[q].user, version |-> request[q].version,
                     value |-> Resolved(q), at |-> clock])
    /\ UNCHANGED <<holds, carrying, override, version, clock>>

\* The handler has run, or the request is lost.
End(q) ==
    /\ request[q].pc # "idle"
    /\ request' = [request EXCEPT ![q] = Idle]
    /\ UNCHANGED <<holds, carrying, override, version, cache, clock>>

(***************************************************************************)
(* The world around it.                                                    *)
(***************************************************************************)
\* MUTANT: a change to a role's grants leaves the version.
EditUnversioned ==
    /\ version < MaxEdits
    /\ \/ /\ \E u \in Users, R \in SUBSET Roles : holds' = [holds EXCEPT ![u] = R]
          /\ version' = version + 1
          /\ UNCHANGED <<carrying, override>>
       \/ /\ \E R \in SUBSET Roles : carrying' = R
          /\ UNCHANGED <<holds, override, version>>
       \/ /\ \E u \in Users, o \in Override : override' = [override EXCEPT ![u] = o]
          /\ version' = version + 1
          /\ UNCHANGED <<holds, carrying>>
    /\ UNCHANGED <<cache, request, clock>>

Edit ==
    /\ version < MaxEdits
    /\ version' = version + 1
    /\ \/ /\ \E u \in Users, R \in SUBSET Roles : holds' = [holds EXCEPT ![u] = R]
          /\ UNCHANGED <<carrying, override>>
       \/ /\ \E R \in SUBSET Roles : carrying' = R
          /\ UNCHANGED <<holds, override>>
       \/ /\ \E u \in Users, o \in Override : override' = [override EXCEPT ![u] = o]
          /\ UNCHANGED <<holds, carrying>>
    /\ UNCHANGED <<cache, request, clock>>

\* The cache is full, or the process was restarted.
Evict ==
    /\ \E e \in cache : cache' = cache \ {e}
    /\ UNCHANGED <<holds, carrying, override, version, request, clock>>

Tick ==
    /\ clock < MaxTime
    /\ clock' = clock + 1
    /\ UNCHANGED <<holds, carrying, override, version, cache, request>>

-----------------------------------------------------------------------------
Init ==
    /\ holds \in [Users -> SUBSET Roles]
    /\ carrying \in SUBSET Roles
    /\ override \in [Users -> Override]
    /\ version = 0
    /\ cache = {}
    /\ request = [q \in Requests |-> Idle]
    /\ clock = 0

Next ==
    \/ \E q \in Requests :
        \/ ReadVersion(q) \/ Hit(q) \/ Miss(q)
        \/ ReadRoles(q) \/ ReadGrants(q) \/ ReadOverride(q)
        \/ Finish(q) \/ End(q)
    \/ Edit \/ Evict \/ Tick

Spec == Init /\ [][Next]_vars

-----------------------------------------------------------------------------
(***************************************************************************)
(* Properties                                                              *)
(***************************************************************************)
\* Every variable keeps its type, a key has one entry, and nothing has been
\* read at a later version or instant than the present ones.
TypeOK ==
    /\ holds \in [Users -> SUBSET Roles]
    /\ carrying \in SUBSET Roles
    /\ override \in [Users -> Override]
    /\ version \in Nat /\ clock \in Nat
    /\ cache \subseteq Entry
    /\ request \in [Requests -> Request]
    /\ \A e, f \in cache : e.user = f.user /\ e.version = f.version => e = f
    /\ \A e \in cache : e.version =< version /\ e.at =< clock
    /\ \A q \in Requests : request[q].pc # "idle" => request[q].version =< version

\* What the cache holds under the present version is what the database says
\* of the present roles, grants and overrides, whatever edits came between a
\* request's reading of the version, its queries and its writing of the entry.
EntriesCurrent ==
    \A e \in cache :
        e.version = version => e.value = resolve(e.user, e.at)

\* "Edits take effect on the affected user's next request": an answer given
\* under the present version is that of the present rows, for an instant less
\* than TTL before the request looked.
EditsTakeEffect ==
    \A q \in Requests :
        LET r == request[q] IN
        r.pc = "done" /\ r.version = version =>
            /\ r.answer = resolve(r.user, r.at)
            /\ r.looked < r.at + TTL

\* "No stale window", for overrides that end by themselves too: the answer is
\* that of an instant since the request looked.
LapsesAtOnce ==
    \A q \in Requests :
        LET r == request[q] IN
        r.pc = "done" /\ r.version = version =>
            \E t \in r.looked..clock : r.answer = resolve(r.user, t)
=============================================================================

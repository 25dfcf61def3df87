------------------------------ MODULE StaffRoles ------------------------------
(***************************************************************************)
(* Who holds which role at which branch, and the rails that keep a tenant  *)
(* administrable: an active owner remains, and nobody takes the right to   *)
(* manage from themselves (src/src/users/users.service.ts,                 *)
(* src/src/roles/roles.service.ts, src/src/rbac/rbac-safety.service.ts).   *)
(*                                                                         *)
(* role:manage and user:manage are one permission, "manage"; the others    *)
(* are left out, and with them scopes and sensitivity: only an owner grants *)
(* Owner.  A request passes the permission guard, makes the reads that     *)
(* precede its transaction (Begin), and then runs the transaction.  Every  *)
(* transaction holds the tenant's row, by an explicit lock or by the       *)
(* trigger that bumps permissions_version: it is one step.                 *)
(***************************************************************************)
EXTENDS Integers, FiniteSets

CONSTANTS
    Users,
    Roles,        \* the roles that can be edited
    Owner,        \* the protected role, none of Roles
    Branches,
    Requests,     \* identities of requests
    Overlap,      \* whether two requests may be under way at once
    MaxRequests   \* bound on requests

\* A tenant starts with a branch.
RoleConstants == Branches # {} /\ Owner \notin Roles /\ MaxRequests \in Nat

VARIABLES
    status,     \* app_user.status, "none" before the account exists
    attached,   \* user_branch: pairs of a user and a branch
    holds,      \* user_role: triples of a user, a role and a branch
    granting,   \* the editable roles that carry "manage"
    override,   \* user_permission_override for "manage"
    request,    \* what each request does and has read
    begun       \* number of requests so far

vars == <<status, attached, holds, granting, override, request, begun>>

Idle == [op |-> "idle"]

(***************************************************************************)
(* resolve: the union of the roles' grants, then overrides, deny last.     *)
(***************************************************************************)
Carrying == granting \cup {Owner}

RolesOf(u) == {h[2] : h \in {x \in holds : x[1] = u}}
BranchesOf(u) == {a[2] : a \in {x \in attached : x[1] = u}}

resolve(u) ==
    /\ override[u] # "deny"
    /\ override[u] = "grant" \/ RolesOf(u) \cap Carrying # {}

MayGrant(actor, r) == r = Owner => Owner \in RolesOf(actor)

Owners == {u \in Users : status[u] = "active" /\ Owner \in RolesOf(u)}

\* MUTANT: an owner whose account is inactive counts.
NotLastOwnerAnyStatus == \E u \in Users : Owner \in RolesOf(u)'

assertNotLastOwner == Owners' # {}

\* MUTANT: the roles before the change are resolved.
SelfLockoutBefore(q) ==
    \A u \in Users : request[q].actor = u /\ request[q].target = u => resolve(u)

assertNoSelfLockout(q) ==
    \A u \in Users : request[q].actor = u /\ request[q].target = u => resolve(u)'

(***************************************************************************)
(* The reads of a request, outside its transaction.  The token of an       *)
(* account that was deactivated works until it expires.                    *)
(***************************************************************************)
Ask(q, r) ==
    /\ request[q] = Idle /\ begun < MaxRequests
    /\ Overlap \/ \A o \in Requests : request[o] = Idle
    /\ status[r.actor] # "none" /\ resolve(r.actor)
    /\ request' = [request EXCEPT ![q] = r]
    /\ begun' = begun + 1
    /\ UNCHANGED <<status, attached, holds, granting, override>>

\* createUser, assignRole and replaceRoles look up the role's grants and the
\* branches; an assignment without a branch is for all those of the user.
BeginCreate(q) ==
    \E a, u \in Users, r \in Roles \cup {Owner}, b \in Branches :
        /\ status[u] = "none" /\ MayGrant(a, r)
        /\ Ask(q, [op |-> "create", actor |-> a, target |-> u, role |-> r, branches |-> {b}])

\* A replacement by no role at all is one without branches.
BeginRole(q) ==
    \E a, u \in Users, r \in Roles \cup {Owner}, op \in {"assign", "replaceRoles"} :
      \E B \in {BranchesOf(u), {}} \cup {{b} : b \in Branches} :
        /\ status[u] # "none"
        /\ IF B = {} THEN op = "replaceRoles" ELSE MayGrant(a, r)
        /\ Ask(q, [op |-> op, actor |-> a, target |-> u, role |-> r, branches |-> B])

\* setBranches reads the branches and the roles the user has now.
BeginBranches(q) ==
    \E a, u \in Users, B \in SUBSET Branches :
        /\ status[u] # "none" /\ B # BranchesOf(u)
        /\ \A r \in RolesOf(u) : B \subseteq BranchesOf(u) \/ MayGrant(a, r)
        /\ Ask(q, [op |-> "branches", actor |-> a, target |-> u,
                   removed |-> BranchesOf(u) \ B, added |-> B \ BranchesOf(u),
                   roles |-> RolesOf(u)])

BeginPlain(q) ==
    \E a, u \in Users :
        /\ status[u] # "none"
        /\ \/ \E op \in {"activate", "deactivate"} :
                /\ op = "deactivate" => a # u
                /\ Ask(q, [op |-> op, actor |-> a, target |-> u])
           \/ \E r \in Roles \cup {Owner}, B \in {Branches} \cup {{b} : b \in Branches} :
                Ask(q, [op |-> "removeRole", actor |-> a, target |-> u,
                        role |-> r, branches |-> B])
           \/ \E e \in {"none", "grant", "deny"} :
                Ask(q, [op |-> "override", actor |-> a, target |-> u, effect |-> e])

\* replacePermissions and revokeOne check for a lockout only if the acting user
\* held the role when the request looked; grantOne can only add.
BeginPermissions(q) ==
    \E a \in Users, r \in Roles, carries \in BOOLEAN :
        Ask(q, [op |-> "permissions", actor |-> a,
                target |-> IF r \in RolesOf(a) THEN a ELSE Owner,
                role |-> r, carries |-> carries])

(***************************************************************************)
(* The transactions.                                                       *)
(***************************************************************************)
Begun(q, op) == request[q].op = op
End(q) == request' = [request EXCEPT ![q] = Idle] /\ UNCHANGED begun

createUser(q) ==
    LET r == request[q] IN
    /\ Begun(q, "create") /\ status[r.target] = "none"
    /\ status' = [status EXCEPT ![r.target] = "active"]
    /\ attached' = attached \cup ({r.target} \X r.branches)
    /\ holds' = holds \cup ({r.target} \X {r.role} \X r.branches)
    /\ End(q) /\ UNCHANGED <<granting, override>>

assignRole(q) ==
    LET r == request[q] IN
    /\ Begun(q, "assign")
    /\ holds' = holds \cup ({r.target} \X {r.role} \X r.branches)
    /\ End(q) /\ UNCHANGED <<status, attached, granting, override>>
    /\ assertNoSelfLockout(q)

replaceRoles(q) ==
    LET r == request[q] IN
    /\ Begun(q, "replaceRoles")
    /\ holds' = {h \in holds : h[1] # r.target}
                    \cup ({r.target} \X {r.role} \X r.branches)
    /\ End(q) /\ UNCHANGED <<status, attached, granting, override>>
    /\ assertNotLastOwner /\ assertNoSelfLockout(q)

removeRole(q) ==
    LET r == request[q] IN
    /\ Begun(q, "removeRole")
    /\ holds' = holds \ ({r.target} \X {r.role} \X r.branches)
    /\ End(q) /\ UNCHANGED <<status, attached, granting, override>>
    /\ r.role = Owner => assertNotLastOwner
    /\ assertNoSelfLockout(q)

MoveRoles(r) ==
    {h \in holds : ~(h[1] = r.target /\ h[3] \in r.removed)}
        \cup ({r.target} \X r.roles \X r.added)

setBranches(q) ==
    LET r == request[q] IN
    /\ Begun(q, "branches")
    /\ attached' = (attached \ ({r.target} \X r.removed)) \cup ({r.target} \X r.added)
    /\ holds' = MoveRoles(r)
    /\ End(q) /\ UNCHANGED <<status, granting, override>>
    /\ assertNotLastOwner /\ assertNoSelfLockout(q)

setActive(q) ==
    LET r == request[q] IN
    /\ \/ Begun(q, "activate") /\ status' = [status EXCEPT ![r.target] = "active"]
       \/ Begun(q, "deactivate") /\ status' = [status EXCEPT ![r.target] = "inactive"]
    /\ End(q) /\ UNCHANGED <<attached, holds, granting, override>>
    /\ Begun(q, "deactivate") => assertNotLastOwner

setOverride(q) ==
    LET r == request[q] IN
    /\ Begun(q, "override")
    /\ override' = [override EXCEPT ![r.target] = r.effect]
    /\ End(q) /\ UNCHANGED <<status, attached, holds, granting>>
    /\ assertNoSelfLockout(q)

replacePermissions(q) ==
    LET r == request[q] IN
    /\ Begun(q, "permissions")
    /\ granting' = IF r.carries THEN granting \cup {r.role} ELSE granting \ {r.role}
    /\ End(q) /\ UNCHANGED <<status, attached, holds, override>>
    /\ assertNoSelfLockout(q)

\* 409 LAST_OWNER, 403 SELF_LOCKOUT, or the request is lost.
Refuse(q) ==
    /\ request[q] # Idle
    /\ End(q)
    /\ UNCHANGED <<status, attached, holds, granting, override>>

-----------------------------------------------------------------------------
\* A tenant starts with one owner, attached to every branch.
Init ==
    /\ \E u \in Users :
        /\ status = [v \in Users |-> IF v = u THEN "active" ELSE "none"]
        /\ attached = {u} \X Branches
        /\ holds = {u} \X {Owner} \X Branches
    /\ granting \in SUBSET Roles
    /\ override = [u \in Users |-> "none"]
    /\ request = [q \in Requests |-> Idle]
    /\ begun = 0

Begin(q) ==
    \/ BeginCreate(q) \/ BeginRole(q) \/ BeginBranches(q)
    \/ BeginPlain(q) \/ BeginPermissions(q)

Commit(q) ==
    \/ createUser(q) \/ assignRole(q) \/ replaceRoles(q) \/ removeRole(q)
    \/ setBranches(q) \/ setActive(q) \/ setOverride(q) \/ replacePermissions(q)

Next == \E q \in Requests : Begin(q) \/ Commit(q) \/ Refuse(q)

Spec == Init /\ [][Next]_vars

-----------------------------------------------------------------------------
(***************************************************************************)
(* Properties                                                              *)
(***************************************************************************)
\* Every variable keeps its type, and only accounts that exist have branches
\* and roles.
TypeOK ==
    /\ status \in [Users -> {"none", "active", "inactive"}]
    /\ attached \subseteq Users \X Branches
    /\ holds \subseteq Users \X (Roles \cup {Owner}) \X Branches
    /\ granting \subseteq Roles
    /\ override \in [Users -> {"none", "grant", "deny"}]
    /\ begun \in 0..MaxRequests
    /\ \A u \in Users : status[u] = "none" => RolesOf(u) = {} /\ BranchesOf(u) = {}

\* At least one active user holds Owner, whatever is removed, replaced,
\* moved or deactivated at the same time, for branches that may differ.
OwnerRemains == Owners # {}

\* Nobody's own request takes the right to manage from them, whatever other
\* requests have changed since it looked; except by a change of a role's
\* permissions they did not hold when it looked.
KeepsManaging ==
    [][\A q \in Requests, u \in Users :
        /\ request[q] # Idle /\ request[q].actor = u /\ request'[q] = Idle
        /\ request[q].op = "permissions" => request[q].target = u
        /\ resolve(u)
        => resolve(u)']_vars

\* The same without the exception: "you cannot remove role:manage or
\* user:manage from yourself".
AlwaysKeepsManaging ==
    [][\A q \in Requests, u \in Users :
        /\ request[q] # Idle /\ request[q].actor = u /\ request'[q] = Idle
        /\ resolve(u)
        => resolve(u)']_vars

\* No role is held at a branch its holder is not attached to, the state the
\* comment on setBranches rules out.
RolesOnBranches ==
    \A h \in holds : <<h[1], h[3]>> \in attached
=============================================================================

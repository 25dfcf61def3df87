------------------------------- MODULE MCStaff -------------------------------
\* PermissionCache, StaffRoles, Sessions and Imports for TLC.  They share no
\* state: in each behaviour one of them is at work while the others rest.
EXTENDS PermissionCache, Sequences, TLC

CONSTANTS
    Staff, EditableRoles, Owner, Branches, Overlap, MaxRequests,
    SessionRows, ResetCodes, MaxFailed, MaxChanges, MaxCalls,
    Jobs, Sheets, Codes, Phones, MaxCommits

VARIABLES
    which,
    status, attached, roles, granting, staffOverride, staffRequest, begun,
    account, session, code, call, made,
    codes, phones, job, record, commit, commits

R == INSTANCE StaffRoles WITH
       Users <- Staff, Roles <- EditableRoles, holds <- roles,
       override <- staffOverride, request <- staffRequest
S == INSTANCE Sessions WITH
       Rows <- SessionRows, Codes <- ResetCodes, Calls <- Requests

ASSUME S!SessionConstants /\ R!RoleConstants

I == INSTANCE Imports WITH
       Calls <- Requests, MaxCalls <- MaxCommits, call <- commit, made <- commits

ASSUME I!ImportConstants

CacheVars == <<holds, carrying, override, version, cache, request, clock>>
RoleVars == <<status, attached, roles, granting, staffOverride, staffRequest, begun>>
SessionVars == <<account, session, code, call, made>>
ImportVars == <<codes, phones, job, record, commit, commits>>

OnlyCache == which = "cache" /\ UNCHANGED <<which, RoleVars, SessionVars, ImportVars>>
OnlyRoles == which = "roles" /\ UNCHANGED <<which, CacheVars, SessionVars, ImportVars>>
OnlySessions == which = "sessions" /\ UNCHANGED <<which, CacheVars, RoleVars, ImportVars>>
OnlyImports == which = "imports" /\ UNCHANGED <<which, CacheVars, RoleVars, SessionVars>>

MCInit ==
    /\ which \in {"cache", "roles", "sessions", "imports"}
    /\ Init /\ R!Init /\ S!Init /\ I!Init
    /\ which # "cache" =>
        /\ holds = [u \in Users |-> {}] /\ carrying = {}
        /\ override = [u \in Users |-> NoOverride]
    /\ which # "roles" => granting = {} /\ status[CHOOSE u \in Staff : TRUE] = "active"

MCNext ==
    \/ OnlyCache /\ Next
    \/ OnlyRoles /\ R!Next
    \/ OnlySessions /\ S!Next
    \/ OnlyImports /\ I!Next

MCSpec == MCInit /\ [][MCNext]_<<which, CacheVars, RoleVars, SessionVars, ImportVars>>

\* An override that ends soon, and one that outlasts the run.
MCInstants == {1, MaxTime + 1}

Row(w, c, p) == [wellFormed |-> w, code |-> c, phone |-> p]

\* Two rows that are sound, one bad and one sound, and one phone given twice.
MCSheets ==
    UNION {{<<Row(TRUE, c, p), Row(TRUE, c, "none")>>,
            <<Row(FALSE, c, "none"), Row(TRUE, c, p)>>,
            <<Row(TRUE, c, p), Row(TRUE, c, p)>>} : c \in Codes, p \in Phones}

Symmetry == Permutations(Requests) \cup Permutations(Branches)

-----------------------------------------------------------------------------
\* At least one active user holds Owner.  Every variable keeps its type.
OwnerRemains == R!TypeOK /\ R!OwnerRemains

\* Nobody's own request takes the right to manage from them, but for one case.
KeepsManaging == R!KeepsManaging

\* A refresh token and a reset code are used once.  Every variable keeps its
\* type.
SingleUse == S!TypeOK /\ S!SingleUse

\* A change of the password leaves no older session, but for one that raced.
PasswordEndsSessions == S!PasswordEndsSessions

\* A completed import has written every row it counts, once and whole.  Every
\* variable keeps its type.
ImportedOnce == I!TypeOK /\ I!ImportedOnce
=============================================================================

SPECIFICATION MCSpec
CONSTANTS
    Users = {u1}
    Roles = {r1}
    Requests = {q1, q2}
    Instants <- MCInstants
    TTL = 2
    MaxEdits = 1
    MaxTime = 2
    Staff = {s1, s2}
    EditableRoles = {e1}
    Owner = Owner
    Branches = {b1, b2}
    Overlap = TRUE
    MaxRequests = 3
    SessionRows = {t1, t2, t3}
    ResetCodes = {c1}
    MaxFailed = 2
    MaxChanges = 1
    MaxCalls = 5
    Jobs = {j1, j2}
    Sheets <- MCSheets
    Codes = {d1}
    Phones = {p1}
    MaxCommits = 3
SYMMETRY Symmetry
INVARIANTS OwnerRemains EntriesCurrent EditsTakeEffect SingleUse PasswordEndsSessions ImportedOnce
PROPERTIES KeepsManaging
CHECK_DEADLOCK FALSE

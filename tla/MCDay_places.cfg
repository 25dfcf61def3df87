SPECIFICATION MCSpec
CONSTANTS
    Parts = {"places"}
    Guardians = {p1, p2}
    Children = {c1, c2}
    Staff = {t1}
    Requests = {r1, r2}
    Keys = {k1}
    Texts = {x1, x2}
    Occasions = {o1, o2}
    NoOne = NoOne
    FirstDays = {365, 1095}
    Jumps = {1, 3}
    MaxEdits = 2
    MaxFaults = 1
    p1 = p1
    Persons = {q1}
    Fetchers = {g1}
    Clerks = {s1, s2}
    MaxAt = 2
    MaxPermissions = 2
    MaxCorrections = 3
    Groups = {h1, h2}
    Branches = {b1, b2}
    BranchOf <- OneBranch
    Capacities = {1}
    NoChild = NoChild
    NoGroup = NoGroup
    LastDay = 2
    Today = 1
SYMMETRY PlaceSymmetry
INVARIANTS PeakIsExact
PROPERTIES AdmittedWithinRead

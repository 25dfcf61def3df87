SPECIFICATION MCSpec
CONSTANTS
    Parts = {"bot", "exports"}
    Guardians = {p1}
    Chats = {c1}
    Tokens = {t1}
    Handlers = {h1}
    MaxUpdates = 3
    MaxCrashes = 1
    MaxFailures = 1
    b1 = b1
    b2 = b2
    Exported = {i1}
    Branches = {b1, b2}
    Groups = {g1, g2}
    Accesses <- MCAccesses
    Workers = {w1, w2}
    Asked = {"finance/cancellations", "attendance/monthly"}
    g1 = g1
    g2 = g2
    MaxEdits = 2
    MaxFaults = 1
    Blocks = {x1, x2}
    Contents = {n1, n2}
    Seos = {o1, o2}
    Editors = {e1}
    Publishers = {r1, r2}
    MaxStops = 1
    MaxVersion = 2
    MaxNow = 5
INVARIANTS StopIsFinal CoversRows
PROPERTIES UpdatesHandled ExportsSettle
CHECK_DEADLOCK FALSE

SPECIFICATION SceneSpec
CONSTANTS
    Root = root
    Admins = {a1, a2}
    a1 = a1
    a2 = a2
    x1 = x1
    x2 = x2
    g1 = g1
    g2 = g2
    i1 = i1
    Projects = {x1, x2}
    InScope <- OneEach
    Groups = {g1, g2}
    Items = {i1, i2}
    Amounts = {1, 2}
    Proc = {p1, p2}
    Faults = {"stripe", "crash", "database"}
    MaxPrices = 3
    MaxOps = 4
    Project = x1
    Server = {r1, r2}
    Bodies = {b1, b2}
    MaxSessions = 4
    None = None
CHECK_DEADLOCK FALSE
INVARIANTS OfferedAmountCharged OfferedPriceIsLive AnswersAgree

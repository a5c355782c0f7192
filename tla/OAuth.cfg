SPECIFICATION SceneSpec
CONSTANTS
    Connections = {c1, c2}
    c1 = c1
    c2 = c2
    BindingIds = {b1, b2}
    b1 = b1
    b2 = b2
    Keys = {k1}
    k1 = k1
    Projects = {j1}
    j1 = j1
    Namespaces = {n1, n2}
    n1 = n1
    n2 = n2
    Urls = {l1}
    l1 = l1
    Processes = {p1, p2}
    p1 = p1
    p2 = p2
    Actors = {root, admin}
    Root = {root}
    root = root
    admin = admin
    Administers <- MCAdministers
    ProjectOf <- MCProjectOf
    Users = {u1, u2}
    u1 = u1
    u2 = u2
    Subjects = {x1, x2}
    Families = {f1, f2}
    f1 = f1
    InitTokens = {t1, t2}
    States = {s1, s2}
    Callbacks = {h1, h2}
    Attempts = 2
    MaxMarks = 2
    MaxWrites = 3
    None = None
    Kids = {"kid1", "kid2"}
    Verifiers = {v1, v2}
    Tokens <- MCTokens
    ClientId = "client"
    Nonce = "nonce"
    Issuers = {"issuer"}
    Domains = {"domain"}
    Tenants = {"tenant"}
    NoToken = None
CHECK_DEADLOCK FALSE
INVARIANTS OwnChangesSeen OneOutcome RefusedKeyWasGone
PROPERTIES CompletedInLiveSession

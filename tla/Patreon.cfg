SPECIFICATION SceneSpec
CONSTANTS
    Users = {u1, u2}
    u1 = u1
    Subjects = {s1, s2}
    s1 = s1
    s2 = s2
    Members = {m1, m2, m3}
    m1 = m1
    m2 = m2
    m3 = m3
    c1 = c1
    c2 = c2
    a1 = a1
    r1 = r1
    p1 = p1
    h1 = h1
    SubjectOf <- MCSubjectOf
    CampaignOf <- MCCampaignOf
    Configured = {c1, c2}
    Plans = {"gold"}
    Accounts = {a1, a2}
    Rows = {r1, r2, r3}
    Proofs = {p1, p2}
    Handlers = {h1, h2}
    MaxTries = 1
    Deliveries = {d1}
    Workers = {w1}
    JobIds = {j1, j2}
    MaxAttempts = 2
    MaxShocks = 2
    Processes = {w1, w2}
    MaxGrants = 3
    NoToken = NoToken
    None = None
CHECK_DEADLOCK FALSE
INVARIANTS OneHolder PaidNeedsLink RequestKept
PROPERTIES StoredTokenKept EntitlementsConverge

SPECIFICATION SceneSpec
CONSTANTS
    Scenes = {"refresh", "revoke", "reset", "switch", "change"}
    User = {u1}
    Family = {f1, f2}
    f1 = f1
    Owner <- OneOwner
    Project = {a}
    Platform = platform
    Proc = {p1, p2, p3}
    p1 = p1
    p2 = p2
    p3 = p3
    Can <- AllRoles
    Events = {"grace", "session_ttl", "token_ttl", "family_ttl", "grant"}
    MaxGen = 3
    Grace = TRUE
    DbErrors = TRUE
    Crashes = TRUE
    None = None
CHECK_DEADLOCK FALSE
INVARIANTS ReuseNeedsStaleToken NoLateAccept SweptIsEnded RevokedKeepNoSession
PROPERTIES Promise

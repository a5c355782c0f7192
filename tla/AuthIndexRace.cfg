SPECIFICATION Spec
CONSTANTS
    User = {u1}
    Family = {f1}
    Owner <- OneOwner
    Project = {a}
    Platform = platform
    Proc = {p1, p2}
    p1 = p1
    p2 = p2
    p3 = p3
    Can <- IndexRoles
    Events = {}
    MaxGen = 1
    Grace = TRUE
    DbErrors = FALSE
    Crashes = FALSE
    None = None
CHECK_DEADLOCK FALSE
INVARIANTS SweptIsEnded

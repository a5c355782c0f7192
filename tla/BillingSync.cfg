SPECIFICATION SceneSpec
CONSTANTS
    Subs = {s1, s2}
    s1 = s1
    Purchases = {b1, b2}
    Kinds = {"checkout", "failed", "bought", "noise", "foreign", "deleted", "dispute"}
    Disabled = {}
    Marked = {s1, b1}
    Replica = {r1, r2}
    r1 = r1
    Worker = {w1, w2}
    Faults = {"scope", "ledger", "persist", "classify", "enqueue", "crash", "fetch", "write", "complete", "die", "lapse", "resync"}
    MaxEvents = 2
    MaxJobs = 2
    MaxAttempts = 2
    MaxMishaps = 1
    None = None
CHECK_DEADLOCK FALSE
INVARIANTS NothingLostQuietly AppliedOnce
PROPERTIES JobsSettle

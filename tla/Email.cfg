SPECIFICATION SceneSpec
CONSTANTS
    Msg = {m1, m2}
    Rcpt = {r1}
    To <- OneRecipient
    Bare = {}
    Worker = {w1, w2}
    Hook = {h1}
    Kind = {"bounced"}
    Batch = 2
    MaxAttempts = 3
    Faults = {"answer", "crash", "webhook"}
    Events = {"activate"}
    Slow = FALSE
    MaxMishaps = 1
    NoMsg = NoMsg
    Users = {u1, u2}
    u1 = u1
    u2 = u2
    Addresses = {a1, a2}
    a1 = a1
    a2 = a2
    Keys = {k1}
    k1 = k1
    Requests = {r1, r2}
    None = None
    MaxRows = 2
    MaxLinks = 3
    MaxPasswords = 2
    Jobs = {j1, j2, j3}
    Calls = {c1, c2}
    Slots = 2
    Limit <- MCLimit
    MaxFaults = 1
    Spare <- MCSpare
    Codes = {c1, c2}
    c1 = c1
    c2 = c2
    Builtin = {c1}
    Internal = {c2}
    Editors = {e1, e2}
    Letters = {l1, l2}
    l1 = l1
    LetterCode <- MCLetterCode
    Off = Off
    Unknown = Unknown
    MaxVersions = 2
    MaxComing = 3
    MaxChanges = 2
SYMMETRY Alike
CHECK_DEADLOCK FALSE
INVARIANTS EventKept OneMessagePerKey OvershootBounded CountersExpire
PROPERTIES SettledIsFinal StaleLinkDoesNothing MailFollowsLastWrite

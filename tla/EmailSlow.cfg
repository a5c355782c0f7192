SPECIFICATION SlowSpec
CONSTANTS
    Msg = {m1}
    Rcpt = {r1}
    To <- OneRecipient
    Bare = {m1}
    Worker = {w1, w2}
    Hook = {h1}
    Kind = {"delivered"}
    Batch = 1
    MaxAttempts = 2
    Faults = {"disabled", "lookup", "render", "provider", "answer", "suppression", "finalize", "crash", "webhook", "restart", "redis"}
    Events = {"purge", "erase"}
    Slow = TRUE
    MaxMishaps = 1
    NoMsg = NoMsg
CHECK_DEADLOCK FALSE
INVARIANTS BudgetLeft SentWasAccepted
PROPERTIES MessagesSettle

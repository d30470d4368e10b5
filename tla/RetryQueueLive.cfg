\* The tick alone works the queue; entries are cancelled at any time.
SPECIFICATION FairSpec
CONSTANTS
    Tick = tick
    None = None
    MaxAttempts = 2
    BatchSize = 1
    Entries = {e1, e2}
    Subscriptions = {s1, s2}
    Callers = {}
    Cancellers = {x1}
    DeclineCodes = {"card_declined", "insufficient_funds"}
    PendingIndex = TRUE
    Rebills = FALSE
    DbErrors = FALSE
    Lossy = TRUE
    Deadlines = FALSE
    Crashes = FALSE
PROPERTIES
    EveryRetryResolved
CHECK_DEADLOCK FALSE

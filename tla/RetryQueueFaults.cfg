\* A tick, a retry by hand and a cancellation meet; deadlines, lost calls and crashes.
SPECIFICATION Spec
CONSTANTS
    Tick = tick
    None = None
    MaxAttempts = 3
    BatchSize = 2
    Entries = {e1}
    Subscriptions = {s1}
    Callers = {c1}
    Cancellers = {x1}
    DeclineCodes = {"card_declined", "insufficient_funds"}
    PendingIndex = TRUE
    Rebills = TRUE
    DbErrors = FALSE
    Lossy = TRUE
    Deadlines = TRUE
    Crashes = TRUE
INVARIANTS
    TypeOK
    AttemptsBounded
PROPERTIES
    OverMeansOver
    ResolvedIsFinal
CHECK_DEADLOCK FALSE

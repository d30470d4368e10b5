\* A tick, and somebody who triggers billing and retries by hand, over the first renewals.
SPECIFICATION Spec
CONSTANTS
    Subscriptions = {s1}
    Entries = {e1, e2}
    Ticker = tick
    Triggers = {h1}
    Callers = {h1}
    LastDay = 4
    Cycles = {"monthly", "yearly"}
    Length <- MCLength
    MaxAttempts = 2
    Trials = TRUE
    Changes = TRUE
    DbErrors = TRUE
    Lossy = TRUE
    Deadlines = TRUE
    Crashes = TRUE
    None = None
SYMMETRY BillingSymmetry
CONSTRAINT SomeoneIsOrderly
INVARIANTS
    TypeOK
    OncePerPeriod
    PaidIsAdvanced
CHECK_DEADLOCK FALSE

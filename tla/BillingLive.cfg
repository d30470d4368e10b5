\* The tick and a trigger bill over several days; replies get lost.
SPECIFICATION FairSpec
CONSTANTS
    Subscriptions = {s1}
    Entries = {e1, e2}
    Ticker = tick
    Triggers = {g1}
    Callers = {}
    LastDay = 3
    Cycles = {"monthly"}
    Length <- MCLength
    MaxAttempts = 2
    Trials = FALSE
    Changes = FALSE
    DbErrors = FALSE
    Lossy = TRUE
    Deadlines = FALSE
    Crashes = FALSE
    None = None
PROPERTIES
    EveryBillSettled
CHECK_DEADLOCK FALSE

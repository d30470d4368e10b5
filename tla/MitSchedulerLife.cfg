\* Ticks, a trigger and a shutdown over two subscriptions, one of them slow.
SPECIFICATION FairSpec
CONSTANTS
    Subscriptions = {s1, s2}
    Slow = {s1}
    Loop = loop
    Triggers = {g1}
    BatchSize = 2
    Patience = 2
    MaxFaults = 1
    Crashes = TRUE
INVARIANTS
    TypeOK
    LeftoverNeedsFault
    BatchAccounted
PROPERTIES
    StopComesBack
    EveryDueIsBilled
CHECK_DEADLOCK FALSE

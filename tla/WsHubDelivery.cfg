\* Two clients with tiny buffers come, stall and go while events are emitted.
SPECIFICATION FairSpec
CONSTANTS
    Clients = {c1, c2}
    BroadcastCap = 1
    SendCap = 1
    MaxMessages = 2
INVARIANTS
    TypeOK
    HubSurvives
    NoSilentGap
PROPERTIES
    EveryoneIsServed
    DeadClientsLeave
CHECK_DEADLOCK FALSE

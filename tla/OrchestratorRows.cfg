\* The table is reliable; the cache and the network are not.
SPECIFICATION FairSpec
CONSTANTS
    NoAnswer = NoAnswer
    Requests = {r1, r2}
    ClientKeys = {k1}
    BpasTargets = {"none"}
    DbOutcomes = {"ok"}
    CacheOutcomes = {"ok", "error"}
    Lossy = TRUE
    Expires = TRUE
    Disconnects = FALSE
    Crashes = FALSE
    SerialCallers = FALSE
INVARIANTS
    DuplicateNeedsOverlap
    DisagreementNeedsOverlap
PROPERTIES
    EveryChargeAnswered

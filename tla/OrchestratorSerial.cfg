\* Callers take turns with a key, on a network that loses nothing.
SPECIFICATION Spec
CONSTANTS
    NoAnswer = NoAnswer
    Requests = {r1, r2}
    ClientKeys = {k1}
    BpasTargets = {"none", "processor_b"}
    DbOutcomes = {"ok"}
    CacheOutcomes = {"ok", "error"}
    Lossy = FALSE
    Expires = TRUE
    Disconnects = FALSE
    Crashes = FALSE
    SerialCallers = TRUE
SYMMETRY RequestSymmetry
INVARIANTS
    ZeroDuplicateCharges
PROPERTIES
    ImplementsIdempotentCharge

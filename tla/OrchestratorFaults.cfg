\* Lost replies, failing stores, disconnects and crashes together.
SPECIFICATION Spec
CONSTANTS
    NoAnswer = NoAnswer
    Requests = {r1, r2}
    ClientKeys = {k1}
    BpasTargets = {"none"}
    DbOutcomes = {"ok", "error"}
    CacheOutcomes = {"ok"}
    Lossy = TRUE
    Expires = FALSE
    Disconnects = TRUE
    Crashes = TRUE
    SerialCallers = FALSE
SYMMETRY RequestSymmetry
INVARIANTS
    TypeOK
    SuccessIsBacked
    RepeatNeedsCutOff

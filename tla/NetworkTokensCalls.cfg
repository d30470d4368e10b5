\* Two calls of any kind next to a token created earlier.
SPECIFICATION Spec
CONSTANTS
    Callers = {c1, c2}
    MaxRetries = 1
    Dates = {begun, ahead}
    Past = {begun}
    Old = old
    None = None
INVARIANTS
    TypeOK
    RaceNeedsDualVault
    GrantedIsKnown
    ExtraTokenNeedsLoss
PROPERTIES
    InfoIsWhole
CHECK_DEADLOCK FALSE

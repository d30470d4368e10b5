\* One charge and two refunds on an unreliable network.
SPECIFICATION FairSpec
CONSTANTS
    Charges = {t1}
    Refunds = {r1, r2}
    Prices = {2, 3}
    Asks = {1, 2, 4}
    Currencies = {usd, other}
    Foreign = {other}
    Lossy = TRUE
    MaxAdmin = 2
    None = None
INVARIANTS
    TypeOK
    RefundsFit
    AnswerIsTrue
    CapturedIsRefundable
PROPERTIES
    EveryRefundAnswered
CHECK_DEADLOCK FALSE

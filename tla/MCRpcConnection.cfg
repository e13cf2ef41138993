CONSTANTS
    Requests = {r1, r2}
    Pushers = {p1}
    Limit = 1
    MaxExtra = 1
SPECIFICATION FairSpec
CHECK_DEADLOCK FALSE
INVARIANTS
    ResponseAtMostOnce
    NoLossBeforeCancel
    TeardownOrder
PROPERTIES
    DeadlockIsForever
    RequestCompletes
    PanicCancels
    CancelledIsRemoved

CONSTANTS
    Requests = {r1, r2, r3}
    Operations = {"query", "login", "authenticate", "begin", "commit", "rollback", "stream"}
    Limit = 2
    PoolSize = 2
    Broadcasts = 1
    None = None
SPECIFICATION FairSpec
CHECK_DEADLOCK FALSE
INVARIANTS
    OpenIsOwned
    SessionTxnIsOpen
    RoleWasCurrent
    ClaimsWereAccepted
PROPERTIES EndedStaysEnded AnsweredOrStuck

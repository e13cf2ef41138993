CONSTANTS
    Sockets = {s1, s2}
    MaxTxns = 2
    MaxEvents = 2
    MaxAsks = 1
    MaxRestarts = 1
SPECIFICATION FairSpec
CHECK_DEADLOCK FALSE
INVARIANTS
    WholeInOrderNoGap
    OnlyPosServers
PROPERTIES
    ImplementsChangeFeed
    

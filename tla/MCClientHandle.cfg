CONSTANTS
    Tasks = {t1, t2, t3}
    MaxCalls = 2
    None = None
SPECIFICATION FairSpec
CHECK_DEADLOCK FALSE
INVARIANTS
    OkIsInUse
    NewNeverPanics
PROPERTY OpenedIsUsedOrClosed

CONSTANTS
    Requests = {r1, r2}
    Pushers = {p1}
    Limit = 2
    MaxExtra = 1
SPECIFICATION Spec
CHECK_DEADLOCK FALSE
INVARIANT QueuedMessagesProcessed

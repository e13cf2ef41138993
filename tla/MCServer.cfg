CONSTANTS
    Orgs = {o1, o2}
    Inits = {i1, i2, i3}
    Sockets = {s1, s2}
    MaxStarts = 2
SPECIFICATION FairSpec
CHECK_DEADLOCK FALSE
INVARIANTS
    OkIsServed
    OneFiller
    EmptyIsUnfinished
PROPERTY ShutdownEnds

CONSTANTS
    Calls = {c1, c2}
    Kinds = {"query", "login", "stream"}
    Given = {}
    Good = {c1}
    Rows = 0
    MaxChanges = 0
    MaxWire = 2
    MaxBreaks = 1
    Nobody = Nobody
SPECIFICATION FairSpec
CHECK_DEADLOCK FALSE
PROPERTIES
    CallEnds
    StreamEnds

CONSTANTS
    Calls = {c1, c2}
    Kinds = {"authenticate", "stream", "listen"}
    Given = {g}
    Good = {c1, g}
    Rows = 2
    MaxChanges = 2
    MaxWire = 2
    MaxBreaks = 1
    Nobody = Nobody
SPECIFICATION BothSpec
CHECK_DEADLOCK FALSE
INVARIANTS
    WaitingIsRouted
    RowsAreARun
    NativeKeepsIdentity
    WasmKeepsGiven
PROPERTY ImplementsRemoteCall

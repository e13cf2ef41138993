SPECIFICATION Spec
CONSTANTS
    Vouchers = {v1, v2}
    TxnIds = {t1, t2}
    Accounts = {a1, a2}
    Dates = {1, 2}
    OpeningDate = 0
    Amounts = {1, 2}
    MaxLines = 1
    MaxRedated = 1
    None = None
SYMMETRY MCSymmetry
INVARIANTS SummaryMatchesLedger BookedHasCell

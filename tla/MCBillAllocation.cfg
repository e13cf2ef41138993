SPECIFICATION BillSpec
CONSTANTS
    Vouchers = {v1, v2}
    BillIds = {1, 2, 3}
    Pendings = {1, 2, 3}
    MaxItems = 2
    Opening = Opening
    None = None
SYMMETRY MCSymmetry
INVARIANT VoucherPendingFitsRef
PROPERTY AdjustersAreFreed

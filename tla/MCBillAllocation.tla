-------------------------- MODULE MCBillAllocation --------------------------
EXTENDS BillAllocation
MCSymmetry == Permutations(Vouchers)
=============================================================================

--------------------------- MODULE MCDailySummary ---------------------------
(* DailySummary for TLC: ids, vouchers and accounts are interchangeable. *)
EXTENDS DailySummary, TLC
MCSymmetry == Permutations(TxnIds) \cup Permutations(Vouchers) \cup Permutations(Accounts)
=============================================================================

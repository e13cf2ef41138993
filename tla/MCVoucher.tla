----------------------------- MODULE MCVoucher -----------------------------
\* Two voucher types share one sequence: a payment that needs two approvals and
\* a journal that needs none; a third type is numbered by the caller.
EXTENDS Voucher, TLC
CONSTANTS pay, jrn, man, m1, m2
MCSequence == [t \in VoucherTypes |-> IF t = man THEN man ELSE pay]
MCRequired == [t \in VoucherTypes |-> IF t = pay THEN 2 ELSE 0]
MCTag == [t \in VoucherTypes |->
            [n \in 1..5 |-> IF t = pay /\ n <= 2 THEN (IF n = 1 THEN {m1, m2} ELSE {m2}) ELSE {}]]
MCSymmetry == Permutations(Sessions) \cup Permutations(Ids)
=============================================================================

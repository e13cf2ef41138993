------------------------------- MODULE Books --------------------------------
(***************************************************************************)
(* What DailySummary and BillAllocation have in common: the vouchers, and  *)
(* tables as functions on the keys present.                                *)
(***************************************************************************)
CONSTANTS
    Vouchers,   \* voucher.id values
    None        \* SQL's null

\* The contents a table may have.
TableOf(keys, rows) == UNION {[D -> rows] : D \in SUBSET keys}

\* A table with this row, whatever it had under that key.
With(table, key, row) == [k \in DOMAIN table \cup {key} |-> IF k = key THEN row ELSE table[k]]
=============================================================================

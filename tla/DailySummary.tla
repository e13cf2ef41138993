---------------------------- MODULE DailySummary ----------------------------
(***************************************************************************)
(* The ledger and its running totals: ac_txn rows are written by the       *)
(* voucher functions (058_voucher.sql) and by set_account_opening          *)
(* (053_account_opening.sql), and the row triggers of 051_ac_txn.sql keep  *)
(* account_daily_summary, from which 216_account_book.sql answers every    *)
(* balance, in step.                                                       *)
(*                                                                         *)
(* credit and debit go through the same statements, so one column, amount, *)
(* stands for both; the branch is fixed.  A voucher function holds its     *)
(* voucher's row lock throughout and a summary row is updated in place     *)
(* under its own lock, so each call is one step; what remains of the       *)
(* overlap of calls is in InsertOpening.  A call that raises changes       *)
(* nothing and is no step at all.                                          *)
(***************************************************************************)
EXTENDS Books, Integers, FiniteSets, FiniteSetsExt, Sequences, Functions

CONSTANTS
    TxnIds,       \* ac_txn.id values, generated or sent by the client
    Accounts,     \* accounts with transaction_enabled
    Dates,        \* voucher dates
    OpeningDate,  \* book_begin - 1
    Amounts,      \* amounts a client may enter
    MaxLines,     \* bound on the lines of one voucher
    MaxRedated    \* bound on the edits that change a line's date and amount

ASSUME DailySummaryAssumption ==
    /\ OpeningDate \notin Dates
    /\ Amounts \subseteq Nat \ {0}
    /\ None \notin Vouchers
    /\ IsFiniteSet(TxnIds)
    /\ MaxLines \in Nat /\ MaxRedated \in Nat

VARIABLES
    voucher,          \* base_voucher_type of each voucher, "absent" if there is no
                      \* row; no type but MEMO and PAYMENT is treated specially,
                      \* and no table keeps the id of a deleted voucher
    ac_txn,           \* the table, a function on the ids present
    summary,          \* account_daily_summary, a function on the cells present
    account_opening,  \* account_opening, a function on the accounts present
    redated           \* history: the cells lines left in an edit that also
                      \* changed their amount

vars == <<voucher, ac_txn, summary, account_opening, redated>>

Cells == (Dates \cup {OpeningDate}) \X Accounts
Line == [account : Accounts, amount : Amounts]
Txn == [voucher : Vouchers \cup {None}, account : Accounts,
        date : Dates \cup {OpeningDate}, amount : Amounts, is_memo : BOOLEAN]

TypeOK ==
    /\ voucher \in [Vouchers -> {"absent", "MEMO", "PAYMENT"}]
    /\ ac_txn \in TableOf(TxnIds, Txn)
    /\ summary \in TableOf(Cells, Int)
    /\ account_opening \in TableOf(Accounts, Amounts)
    /\ redated \in Seq(Cells)

Init ==
    /\ voucher = [v \in Vouchers |-> "absent"]
    /\ ac_txn = << >>
    /\ summary = << >>
    /\ account_opening = << >>
    /\ redated = << >>

-----------------------------------------------------------------------------
Cell(r) == <<r.date, r.account>>

\* insert ... on conflict (branch_id, date, account_id) do update
Upsert(s, cell, inserted, delta) ==
    IF cell \in DOMAIN s THEN With(s, cell, s[cell] + delta) ELSE With(s, cell, inserted)

tgf_insert_on_ac_txn(s, new) ==
    IF new.is_memo THEN s ELSE Upsert(s, Cell(new), new.amount, new.amount)

\* Mutant of tgf_update_on_ac_txn: the old amount is not taken back.
tgf_update_adds(s, old, new) ==
    IF new.is_memo THEN s
    ELSE IF new.date = old.date
    THEN Upsert(s, Cell(new), new.amount, new.amount)
    ELSE Upsert(Upsert(s, Cell(new), new.amount, new.amount),
                <<old.date, new.account>>, new.amount, 0 - new.amount)

\* Mutant of tgf_update_on_ac_txn: the new day is forgotten.
tgf_update_old_day(s, old, new) ==
    IF new.is_memo THEN s
    ELSE IF new.date = old.date
    THEN Upsert(s, Cell(new), new.amount, new.amount - old.amount)
    ELSE Upsert(s, <<old.date, new.account>>, new.amount, 0 - new.amount)

tgf_update_on_ac_txn(s, old, new) ==
    IF new.is_memo THEN s
    ELSE IF new.date = old.date
    THEN Upsert(s, Cell(new), new.amount, new.amount - old.amount)
    ELSE Upsert(Upsert(s, Cell(new), new.amount, new.amount),
                <<old.date, new.account>>, new.amount, 0 - new.amount)

tgf_delete_on_ac_txn(s, old) ==
    IF old.is_memo THEN s ELSE Upsert(s, Cell(old), old.amount, 0 - old.amount)

-----------------------------------------------------------------------------
\* The tables a statement works on, threaded through the statements of a call.
Tables == [txn |-> ac_txn, sum |-> summary, red |-> redated]

DeleteRows(t, ids) ==
    [txn |-> Restrict(t.txn, DOMAIN t.txn \ ids),
     sum |-> FoldSet(LAMBDA i, s : tgf_delete_on_ac_txn(s, t.txn[i]), t.sum, ids),
     red |-> t.red]

InsertRow(t, i, r) ==
    [txn |-> With(t.txn, i, r), sum |-> tgf_insert_on_ac_txn(t.sum, r), red |-> t.red]

UpdateRow(t, i, date, amount) ==
    LET old == t.txn[i]
        new == [old EXCEPT !.date = date, !.amount = amount]
    IN [txn |-> With(t.txn, i, new),
        sum |-> tgf_update_on_ac_txn(t.sum, old, new),
        red |-> IF ~old.is_memo /\ date # old.date /\ amount # old.amount
                THEN Append(t.red, Cell(old)) ELSE t.red]

\* One update statement over several rows, each on its own date.
UpdateRows(t, ids, amount) ==
    FoldSet(LAMBDA i, u : UpdateRow(u, i, t.txn[i].date, amount), t, ids)

VoucherRows(t, v) == {i \in DOMAIN t.txn : t.txn[i].voucher = v}

\* `delete from voucher where id = memo', cascading to its ac_txn rows.
ConvertMemo(t, m) == IF m = None THEN t ELSE DeleteRows(t, VoucherRows(t, m))

NewRow(v, base, date, line) ==
    [voucher |-> v, account |-> line.account, date |-> date, amount |-> line.amount,
     is_memo |-> base = "MEMO"]

insert_ac_txn(t, v, base, date, lines) ==
    FoldSet(LAMBDA i, u : InsertRow(u, i, NewRow(v, base, date, lines[i])), t, DOMAIN lines)

(***************************************************************************)
(* Rows of the voucher that the input does not name with the same account  *)
(* are deleted; the others, and any other row whose id the input names,    *)
(* are updated in place, keeping account, voucher and is_memo.             *)
(***************************************************************************)
update_ac_txn(t, v, base, date, lines) ==
    LET missed == {i \in VoucherRows(t, v) :
                     i \notin DOMAIN lines \/ lines[i].account # t.txn[i].account}
        upsert(i, u) == IF i \in DOMAIN u.txn
                        THEN UpdateRow(u, i, date, lines[i].amount)
                        ELSE InsertRow(u, i, NewRow(v, base, date, lines[i]))
    IN FoldSet(upsert, DeleteRows(t, missed), DOMAIN lines)

Store(t) ==
    /\ Len(t.red) <= MaxRedated
    /\ ac_txn' = t.txn
    /\ summary' = t.sum
    /\ redated' = t.red

Lines == UNION {[ids -> Line] : ids \in {S \in SUBSET TxnIds : Cardinality(S) <= MaxLines}}
MemoAllowed(base, m) == m # None => base = "PAYMENT"
Live(v) == voucher[v] # "absent"
Memos == {None} \cup {w \in Vouchers : Live(w)}   \* no other id deletes anything

-----------------------------------------------------------------------------
CreateVoucher(v, base, date, lines, m) ==
    LET t == ConvertMemo(Tables, m) IN
    /\ voucher[v] = "absent"
    /\ MemoAllowed(base, m)
    /\ DOMAIN lines \cap DOMAIN t.txn = {}   \* primary key of ac_txn
    /\ voucher' = [w \in Vouchers |-> IF w = v THEN base
                                      ELSE IF w = m THEN "absent" ELSE voucher[w]]
    /\ Store(insert_ac_txn(t, v, base, date, lines))
    /\ UNCHANGED account_opening

\* A voucher that names itself as its memo is deleted by its own update, and
\* its lines then violate the foreign key: the call raises.
UpdateVoucher(v, date, lines, m) ==
    /\ Live(v)
    /\ MemoAllowed(voucher[v], m)
    /\ m # v
    /\ voucher' = [w \in Vouchers |-> IF w = m THEN "absent" ELSE voucher[w]]
    /\ Store(update_ac_txn(ConvertMemo(Tables, m), v, voucher[v], date, lines))
    /\ UNCHANGED account_opening

DeleteVoucher(v) ==
    /\ Live(v)
    /\ voucher' = [voucher EXCEPT ![v] = "absent"]
    /\ Store(DeleteRows(Tables, VoucherRows(Tables, v)))
    /\ UNCHANGED account_opening

-----------------------------------------------------------------------------
OpeningRows(a) == {i \in DOMAIN ac_txn : ac_txn[i].voucher = None /\ ac_txn[i].account = a}

\* set_account_opening with credit = debit = 0
ClearOpening(a) ==
    /\ Store(DeleteRows(Tables, OpeningRows(a)))
    /\ account_opening' = Restrict(account_opening, DOMAIN account_opening \ {a})
    /\ UNCHANGED voucher

\* `update ac_txn ... where is_opening returning id into' when it finds a row,
\* then account_opening; it raises when it finds more than one.
UpdateOpening(a, amount) ==
    /\ Cardinality(OpeningRows(a)) = 1
    /\ Store(UpdateRows(Tables, OpeningRows(a), amount))
    /\ account_opening' = With(account_opening, a, amount)
    /\ UNCHANGED voucher

(***************************************************************************)
(* `if not FOUND then insert into ac_txn', then account_opening.  The      *)
(* update that found no row locked nothing, and any number of calls may    *)
(* have come that far before the first of them inserted: so an insert may  *)
(* also come when a row is there.                                          *)
(***************************************************************************)
InsertOpening(a, i, amount) ==
    /\ i \in TxnIds \ DOMAIN ac_txn
    /\ Store(InsertRow(Tables, i, [voucher |-> None, account |-> a, date |-> OpeningDate,
                                   amount |-> amount, is_memo |-> FALSE]))
    /\ account_opening' = With(account_opening, a, amount)
    /\ UNCHANGED voucher

Next ==
    \/ \E v \in Vouchers, date \in Dates, lines \in Lines, m \in Memos :
          \/ \E base \in {"MEMO", "PAYMENT"} : CreateVoucher(v, base, date, lines, m)
          \/ UpdateVoucher(v, date, lines, m)
    \/ \E v \in Vouchers : DeleteVoucher(v)
    \/ \E a \in Accounts : ClearOpening(a)
    \/ \E a \in Accounts, amount \in Amounts : UpdateOpening(a, amount)
    \/ \E a \in Accounts, i \in TxnIds, amount \in Amounts : InsertOpening(a, i, amount)

Spec == Init /\ [][Next]_vars

-----------------------------------------------------------------------------
\* The lines of a ledger on one cell, memo vouchers excluded, and their sum.
LinesOn(txn, cell) == {i \in DOMAIN txn : ~txn[i].is_memo /\ Cell(txn[i]) = cell}
BookedIn(txn, cell) == SumFunction([i \in LinesOn(txn, cell) |-> txn[i].amount])

(***************************************************************************)
(* The daily summary is the ledger: each cell holds the sum of the lines   *)
(* booked on that day and account, memo vouchers excluded, after any       *)
(* sequence of creations, edits, memo conversions, deletions and openings. *)
(* The one exception the update trigger makes is the day a line left in    *)
(* an edit that also changed its amount (see README).                      *)
(***************************************************************************)
SummaryMatchesLedger ==
    \A cell \in Cells \ Range(redated) :
        BookedIn(ac_txn, cell) = IF cell \in DOMAIN summary THEN summary[cell] ELSE 0

(***************************************************************************)
(* A booked line's summary row exists: without it the delete trigger's     *)
(* upsert would add the amount it is meant to take away.                   *)
(***************************************************************************)
BookedHasCell ==
    \A i \in DOMAIN ac_txn : ~ac_txn[i].is_memo => Cell(ac_txn[i]) \in DOMAIN summary
=============================================================================

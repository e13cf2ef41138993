------------------------------ MODULE Voucher ------------------------------
(***************************************************************************)
(* The voucher table under concurrent sessions: numbering, approval, memo  *)
(* conversion, e-invoice freeze and deletion (058_voucher.sql with         *)
(* 039_voucher_type, 042_approval_log, 044_voucher_numbering and           *)
(* 224_e_invoice).                                                         *)
(*                                                                         *)
(* A session runs one function call per transaction at READ COMMITTED, the *)
(* isolation level the server leaves at PostgreSQL's default: a plain      *)
(* select sees what is committed when it runs and takes no lock, while an  *)
(* insert, update or delete holds its row's lock until the transaction     *)
(* ends.  A statement is therefore one action that takes the lock, and     *)
(* Commit publishes the transaction's writes.  The accounting entries a    *)
(* voucher carries are modelled in DailySummary and BillAllocation.        *)
(***************************************************************************)
EXTENDS Naturals, FiniteSets

CONSTANTS
    Sessions,      \* database sessions
    Ids,           \* voucher.id values the identity column may hand out
    VoucherTypes,  \* voucher_type rows
    Payment,       \* those with base_type PAYMENT
    AutoSequence,  \* those with auto_sequence
    Sequence,      \* coalesce(sequence_id, id), for each voucher type
    Required,      \* the highest approve<n>_id that is set, or 0
    Tag,           \* the members of approve<n>_id's tag, for each type and n
    Books,         \* <branch, financial year> pairs
    Members,       \* the members that may sign
    MaxSeq,        \* bound on the numbers handed out in one sequence
    ManualSeqs,    \* the numbers that callers give where there is no auto_sequence
    None

Levels == 1..5
Keys == Books \X {Sequence[t] : t \in VoucherTypes}

ASSUME VoucherAssumption ==
    /\ VoucherTypes # {} /\ Books # {}
    /\ Payment \subseteq VoucherTypes
    /\ AutoSequence \subseteq VoucherTypes
    /\ Required \in [VoucherTypes -> 0..5]
    /\ Tag \in [VoucherTypes -> [Levels -> SUBSET Members]]
    /\ MaxSeq \in Nat \ {0}
    /\ ManualSeqs \subseteq Nat
    /\ None \notin Sessions \cup Ids \cup Members

VARIABLES
    status,     \* what became of each id: "taken" while its insert is uncommitted
    row,        \* the voucher row of each id (a draft while "taken")
    unreleased, \* the kinds of NEW bill allocations with is_approved = false
    numbering,  \* voucher_numbering.seq, 0 where there is no row yet
    numLock,    \* the session holding each voucher_numbering row
    rowLock,    \* the session holding each voucher row
    log,        \* approval_log: <<member, voucher, approval_state>>
    op,         \* the statement each session has reached
    target, memo, level, signer   \* the arguments of the session's call

tables == <<status, row, unreleased, numbering, log>>
locks == <<numLock, rowLock>>
args == <<target, memo, level, signer>>
vars == <<status, row, unreleased, numbering, numLock, rowLock, log, op,
          target, memo, level, signer>>

Key(id) == <<row[id].book, Sequence[row[id].type]>>

Row == [type : VoucherTypes, book : Books, seq : Nat,
        approval_state : 0..5, require_no_of_approval : 0..5,
        irn : {"empty", "filled"}]

\* A bill allocation of type NEW has been NEW all along or has become so late,
\* after having been one that adjusts another (ADJ) or is on account.
Kinds == {"NEW", "late"}

TypeOK ==
    /\ status \in [Ids -> {"unused", "taken", "burnt", "live", "deleted"}]
    /\ row \in [Ids -> Row]
    /\ unreleased \in [Ids -> SUBSET Kinds]
    /\ numbering \in [Keys -> Nat]
    /\ numLock \in [Keys -> Sessions \cup {None}]
    /\ rowLock \in [Ids -> Sessions \cup {None}]
    /\ log \subseteq Members \X Ids \X Levels
    /\ op \in [Sessions -> {"idle", "create", "update", "convert_create",
                            "convert_update", "approve", "approved", "delete", "irn"}]
    /\ target \in [Sessions -> Ids \cup {None}]
    /\ memo \in [Sessions -> Ids \cup {None}]
    /\ level \in [Sessions -> 0..5]
    /\ signer \in [Sessions -> Members \cup {None}]

\* The caller's e_invoice_details may have an IRN already.
NewRow(t, b, seq, irn) ==
    [type |-> t, book |-> b, seq |-> seq, approval_state |-> 0,
     require_no_of_approval |-> Required[t], irn |-> irn]

BlankRow == NewRow(CHOOSE t \in VoucherTypes : TRUE, CHOOSE b \in Books : TRUE, 0, "empty")

Init ==
    /\ status = [id \in Ids |-> "unused"]
    /\ row = [id \in Ids |-> BlankRow]
    /\ unreleased = [id \in Ids |-> {}]
    /\ numbering = [k \in Keys |-> 0]
    /\ numLock = [k \in Keys |-> None]
    /\ rowLock = [id \in Ids |-> None]
    /\ log = {}
    /\ op = [s \in Sessions |-> "idle"]
    /\ target = [s \in Sessions |-> None]
    /\ memo = [s \in Sessions |-> None]
    /\ level = [s \in Sessions |-> 0]
    /\ signer = [s \in Sessions |-> None]

-----------------------------------------------------------------------------
Begin(s, what, id, m, lvl, who) ==
    /\ op' = [op EXCEPT ![s] = what]
    /\ target' = [target EXCEPT ![s] = id]
    /\ memo' = [memo EXCEPT ![s] = m]
    /\ level' = [level EXCEPT ![s] = lvl]
    /\ signer' = [signer EXCEPT ![s] = who]

Unlocked(id) == rowLock[id] = None
Logged(id) == \E e \in log : e[2] = id

\* 'Memo conversion only allowed payment voucher'
MemoAllowed(t, m) == m # None => t \in Payment

\* Mutant of CreateVoucher: the number is read without waiting for the row's lock.
CreateVoucherUnlocked(s, id, t, b, m) ==
    LET k == <<b, Sequence[t]>> IN
    /\ op[s] = "idle"
    /\ status[id] = "unused"
    /\ t \in AutoSequence
    /\ MemoAllowed(t, m)
    /\ numbering[k] < MaxSeq
    /\ numLock' = [numLock EXCEPT ![k] = s]
    /\ status' = [status EXCEPT ![id] = "taken"]
    /\ \E irn \in {"empty", "filled"} :
           row' = [row EXCEPT ![id] = NewRow(t, b, numbering[k] + 1, irn)]
    /\ Begin(s, IF m = None THEN "create" ELSE "convert_create", id, m, 0, None)
    /\ UNCHANGED <<unreleased, numbering, rowLock, log>>

(***************************************************************************)
(* create_voucher of a type with auto_sequence: the before-insert trigger  *)
(* upserts the numbering row, whose lock is held until the transaction     *)
(* ends, and writes its seq into the new voucher.                          *)
(***************************************************************************)
CreateVoucher(s, id, t, b, m) ==
    LET k == <<b, Sequence[t]>> IN
    /\ op[s] = "idle"
    /\ status[id] = "unused"
    /\ t \in AutoSequence
    /\ MemoAllowed(t, m)
    /\ numLock[k] = None
    /\ numbering[k] < MaxSeq
    /\ numLock' = [numLock EXCEPT ![k] = s]
    /\ status' = [status EXCEPT ![id] = "taken"]
    /\ \E irn \in {"empty", "filled"} :
           row' = [row EXCEPT ![id] = NewRow(t, b, numbering[k] + 1, irn)]
    /\ Begin(s, IF m = None THEN "create" ELSE "convert_create", id, m, 0, None)
    /\ UNCHANGED <<unreleased, numbering, rowLock, log>>

\* create_voucher of a type without auto_sequence: the caller gives voucher_seq.
CreateManual(s, id, t, b, m, seq) ==
    /\ op[s] = "idle"
    /\ status[id] = "unused"
    /\ t \notin AutoSequence
    /\ MemoAllowed(t, m)
    /\ status' = [status EXCEPT ![id] = "taken"]
    /\ \E irn \in {"empty", "filled"} : row' = [row EXCEPT ![id] = NewRow(t, b, seq, irn)]
    /\ Begin(s, IF m = None THEN "create" ELSE "convert_create", id, m, 0, None)
    /\ UNCHANGED <<unreleased, numbering, numLock, rowLock, log>>

(***************************************************************************)
(* update_voucher: the before-update trigger refuses a voucher whose IRN   *)
(* is filled.  Number, type and approval_state are not in the set list.    *)
(***************************************************************************)
UpdateVoucher(s, id, m) ==
    /\ op[s] = "idle"
    /\ status[id] = "live"
    /\ Unlocked(id)
    /\ row[id].irn = "empty"
    /\ MemoAllowed(row[id].type, m)
    /\ rowLock' = [rowLock EXCEPT ![id] = s]
    /\ Begin(s, IF m = None THEN "update" ELSE "convert_update", id, m, 0, None)
    /\ UNCHANGED <<tables, numLock>>

(***************************************************************************)
(* `delete from voucher where id = memo' inside create_ or update_voucher. *)
(* It waits for the memo's row lock; an approval_log row refers to its     *)
(* voucher without cascade, so a signed memo fails the whole transaction   *)
(* (Rollback); an id that is not there deletes nothing.                    *)
(***************************************************************************)
ConvertMemo(s) ==
    LET m == memo[s] IN
    /\ op[s] \in {"convert_create", "convert_update"}
    /\ rowLock[m] \in {None, s}
    /\ status[m] = "live" => ~Logged(m)
    /\ rowLock' = IF status[m] = "live" THEN [rowLock EXCEPT ![m] = s] ELSE rowLock
    /\ memo' = IF status[m] = "live" THEN memo ELSE [memo EXCEPT ![s] = None]
    /\ op' = [op EXCEPT ![s] = IF op[s] = "convert_create" THEN "create" ELSE "update"]
    /\ UNCHANGED <<tables, numLock, target, level, signer>>

\* Mutant of ApproveRead: a level may be skipped.
ApproveReadAnyLevel(s, id, lvl, who) ==
    /\ op[s] = "idle"
    /\ status[id] = "live"
    /\ row[id].approval_state # row[id].require_no_of_approval
    /\ lvl <= row[id].require_no_of_approval
    /\ who \in Tag[row[id].type][lvl]
    /\ Begin(s, "approve", id, None, lvl, who)
    /\ UNCHANGED <<tables, locks>>

(***************************************************************************)
(* approve_voucher up to its update: the voucher is read without a lock    *)
(* and every check is made on that snapshot.                               *)
(***************************************************************************)
ApproveRead(s, id, lvl, who) ==
    /\ op[s] = "idle"
    /\ status[id] = "live"
    /\ row[id].approval_state # row[id].require_no_of_approval
    /\ row[id].approval_state = lvl - 1
    /\ who \in Tag[row[id].type][lvl]
    /\ Begin(s, "approve", id, None, lvl, who)
    /\ UNCHANGED <<tables, locks>>

(***************************************************************************)
(* approve_voucher from its update on.  A voucher deleted meanwhile, a     *)
(* filled IRN, the table's CHECK and the primary key of approval_log each  *)
(* fail the call, leaving Rollback.                                        *)
(***************************************************************************)
ApproveUpdate(s) ==
    LET id == target[s] IN
    /\ op[s] = "approve"
    /\ Unlocked(id)
    /\ status[id] = "live"
    /\ row[id].irn = "empty"
    /\ level[s] <= row[id].require_no_of_approval
    /\ <<signer[s], id, level[s]>> \notin log
    /\ rowLock' = [rowLock EXCEPT ![id] = s]
    /\ op' = [op EXCEPT ![s] = "approved"]
    /\ UNCHANGED <<tables, numLock, args>>

\* Mutant of DeleteVoucher: approval_log cascades.
DeleteVoucherCascade(s, id) ==
    /\ op[s] = "idle"
    /\ status[id] = "live"
    /\ Unlocked(id)
    /\ rowLock' = [rowLock EXCEPT ![id] = s]
    /\ Begin(s, "delete", id, None, 0, None)
    /\ UNCHANGED <<tables, numLock>>

\* delete_voucher: refused by the foreign key of approval_log once signed.
DeleteVoucher(s, id) ==
    /\ op[s] = "idle"
    /\ status[id] = "live"
    /\ Unlocked(id)
    /\ ~Logged(id)
    /\ rowLock' = [rowLock EXCEPT ![id] = s]
    /\ Begin(s, "delete", id, None, 0, None)
    /\ UNCHANGED <<tables, numLock>>

\* set_e_invoice_irn_details
SetIrn(s, id) ==
    /\ op[s] = "idle"
    /\ status[id] = "live"
    /\ Unlocked(id)
    /\ row[id].irn = "empty"
    /\ rowLock' = [rowLock EXCEPT ![id] = s]
    /\ Begin(s, "irn", id, None, 0, None)
    /\ UNCHANGED <<tables, numLock>>

-----------------------------------------------------------------------------
EndTransaction(s) ==
    /\ numLock' = [k \in Keys |-> IF numLock[k] = s THEN None ELSE numLock[k]]
    /\ rowLock' = [id \in Ids |-> IF rowLock[id] = s THEN None ELSE rowLock[id]]
    /\ Begin(s, "idle", None, None, 0, None)

FullyApproved(id) == row[id].approval_state = row[id].require_no_of_approval

\* Vouchers that may have an unreleased allocation that is not NEW: one that
\* was inserted while an approval was missing, as each of them was when created.
Adjusting == {id \in Ids : status[id] = "live" /\ row[id].require_no_of_approval > 0}

\* insert_bill_allocation: is_approved is whether no approval is required.
Inserts(id) == SUBSET (IF FullyApproved(id) THEN {} ELSE {"NEW"})

\* update_bill_allocation: allocations that are left out are deleted, those
\* without a known id inserted, and the others keep is_approved while their
\* ref_type becomes what the caller gives.
Edits(id) ==
    {u \in SUBSET Kinds :
        /\ "NEW" \in u => "NEW" \in unreleased[id] \/ ~FullyApproved(id)
        /\ "late" \in u => id \in Adjusting}

\* The allocations of the voucher `gone' are deleted, and tgf_del_on_bill_allc
\* makes those that adjusted a NEW one of them, on the vouchers `freed', NEW
\* without a change of is_approved.
Cascade(gone, freed) ==
    [id \in Ids |-> IF id = gone THEN {}
                    ELSE unreleased[id] \cup (IF id \in freed THEN {"late"} ELSE {})]

CommitCreate(s) ==
    LET id == target[s] IN
    /\ op[s] = "create"
    /\ status' = [i \in Ids |-> IF i = id THEN "live"
                                ELSE IF i = memo[s] THEN "deleted" ELSE status[i]]
    /\ \E u \in Inserts(id), freed \in SUBSET (IF memo[s] = None THEN {} ELSE Adjusting \ {memo[s]}) :
           unreleased' = [Cascade(memo[s], freed) EXCEPT ![id] = u]
    /\ numbering' = [k \in Keys |-> IF numLock[k] = s THEN row[id].seq ELSE numbering[k]]
    /\ EndTransaction(s)
    /\ UNCHANGED <<row, log>>

CommitUpdate(s) ==
    LET id == target[s] IN
    /\ op[s] = "update"
    /\ status' = [i \in Ids |-> IF i = memo[s] THEN "deleted" ELSE status[i]]
    /\ \E u \in Edits(id), freed \in SUBSET (Adjusting \ {id, memo[s]}) :
           unreleased' = [Cascade(memo[s], freed) EXCEPT ![id] = IF id = memo[s] THEN {} ELSE u]
    /\ EndTransaction(s)
    /\ UNCHANGED <<row, numbering, log>>

\* Mutant of CommitApproval: the bills are not released.
CommitApprovalSilent(s) ==
    LET id == target[s] IN
    /\ op[s] = "approved"
    /\ row' = [row EXCEPT ![id] = [@ EXCEPT !.approval_state = level[s]]]
    /\ log' = log \cup {<<signer[s], id, level[s]>>}
    /\ UNCHANGED unreleased
    /\ EndTransaction(s)
    /\ UNCHANGED <<status, numbering>>

\* With the last level, the allocations that are NEW now are released.
CommitApproval(s) ==
    LET id == target[s] IN
    /\ op[s] = "approved"
    /\ row' = [row EXCEPT ![id] = [@ EXCEPT !.approval_state = level[s]]]
    /\ log' = log \cup {<<signer[s], id, level[s]>>}
    /\ unreleased' = IF row[id].require_no_of_approval = level[s]
                     THEN [unreleased EXCEPT ![id] = {}] ELSE unreleased
    /\ EndTransaction(s)
    /\ UNCHANGED <<status, numbering>>

CommitDelete(s) ==
    LET id == target[s] IN
    /\ op[s] = "delete"
    /\ status' = [status EXCEPT ![id] = "deleted"]
    /\ \E freed \in SUBSET (Adjusting \ {id}) : unreleased' = Cascade(id, freed)
    /\ EndTransaction(s)
    /\ UNCHANGED <<row, numbering, log>>

CommitIrn(s) ==
    /\ op[s] = "irn"
    /\ row' = [row EXCEPT ![target[s]] = [@ EXCEPT !.irn = "filled"]]
    /\ EndTransaction(s)
    /\ UNCHANGED <<status, unreleased, numbering, log>>

\* An exception in any later statement, a deadlock victim or a lost session:
\* everything is undone except that the identity value stays consumed.
Rollback(s) ==
    /\ op[s] # "idle"
    /\ status' = [id \in Ids |-> IF id = target[s] /\ status[id] = "taken"
                                 THEN "burnt" ELSE status[id]]
    /\ row' = [id \in Ids |-> IF id = target[s] /\ status[id] = "taken"
                              THEN BlankRow ELSE row[id]]
    /\ EndTransaction(s)
    /\ UNCHANGED <<unreleased, numbering, log>>

Next ==
    \E s \in Sessions :
        \/ \E id \in Ids, t \in VoucherTypes, b \in Books, m \in Ids \cup {None} :
              \/ CreateVoucher(s, id, t, b, m)
              \/ \E seq \in ManualSeqs : CreateManual(s, id, t, b, m, seq)
        \/ \E id \in Ids, m \in Ids \cup {None} : UpdateVoucher(s, id, m)
        \/ ConvertMemo(s)
        \/ \E id \in Ids, lvl \in Levels, who \in Members : ApproveRead(s, id, lvl, who)
        \/ ApproveUpdate(s)
        \/ \E id \in Ids : DeleteVoucher(s, id)
        \/ \E id \in Ids : SetIrn(s, id)
        \/ CommitCreate(s)
        \/ CommitUpdate(s)
        \/ CommitApproval(s)
        \/ CommitDelete(s)
        \/ CommitIrn(s)
        \/ Rollback(s)

Spec == Init /\ [][Next]_vars

-----------------------------------------------------------------------------
Issued(id) == status[id] \in {"live", "deleted"}
Numbered(id) == Issued(id) /\ row[id].type \in AutoSequence

(***************************************************************************)
(* Within a branch, a financial year and a sequence (which voucher types   *)
(* may share), no two committed vouchers carry the same number and no      *)
(* number is skipped, whatever transactions overlap or roll back: the      *)
(* upsert of tgf_generate_voucher_no keeps its row locked to the end.      *)
(***************************************************************************)
NumbersAreARun ==
    /\ \A i, j \in Ids :
          Numbered(i) /\ Numbered(j) /\ i # j /\ Key(i) = Key(j) => row[i].seq # row[j].seq
    /\ \A k \in Keys : \A n \in 1..numbering[k] :
          \E id \in Ids : Numbered(id) /\ Key(id) = k /\ row[id].seq = n

(***************************************************************************)
(* A voucher's approval_state counts signatures that exist: every level up *)
(* to it was signed, in approval_log, by a member of that level's tag,     *)
(* although approve_voucher checks a snapshot it does not lock.            *)
(***************************************************************************)
EveryLevelSigned ==
    \A id \in Ids : status[id] = "live" =>
        \A n \in 1..row[id].approval_state :
            \E who \in Tag[row[id].type][n] : <<who, id, n>> \in log

(***************************************************************************)
(* A fully approved voucher has no allocation that is NEW, has been NEW    *)
(* all along and is not released (is_approved): neither when it needed no  *)
(* approval, when two approvals of one level overlapped and lowered the    *)
(* state again, nor when it was edited before or after.  Those that became *)
(* NEW late are left unreleased by the code, and are not claimed.          *)
(***************************************************************************)
FullyApprovedIsReleased ==
    \A id \in Ids : status[id] = "live" /\ FullyApproved(id) => "NEW" \notin unreleased[id]

(***************************************************************************)
(* A voucher somebody signed is never deleted, neither by delete_voucher   *)
(* nor as the memo of a payment, even when the signature and the deletion  *)
(* overlap.                                                                *)
(***************************************************************************)
SignedIsKept ==
    [][\A id \in Ids : Logged(id) /\ status[id] = "live" => status'[id] = "live"]_vars

(***************************************************************************)
(* What the guard `Already approved' of approve_voucher asserts: the       *)
(* approval of a fully approved voucher is not written again.              *)
(***************************************************************************)
AlreadyApprovedIsFinal ==
    [][\A id \in Ids : status[id] = "live" /\ FullyApproved(id)
         => row'[id].approval_state = row[id].approval_state]_vars
=============================================================================

--------------------------- MODULE BillAllocation ---------------------------
(***************************************************************************)
(* Bill-wise references (047_bill_allocation.sql): a NEW allocation opens  *)
(* a bill under a pending id, ADJ allocations settle it by naming that id, *)
(* ON_ACC ones belong to no bill.  They are written by create_voucher and  *)
(* update_voucher for the sundry line of a voucher, by set_account_opening *)
(* for the opening line of an account, and by the trigger that runs when a *)
(* NEW allocation is deleted.                                              *)
(*                                                                         *)
(* A call that raises is rolled back and is no step.  Clients send back    *)
(* the allocation ids they read from the same document; an id of their own *)
(* making is as good as a generated one.  Amounts, dates and names ride    *)
(* along and are left out.                                                 *)
(***************************************************************************)
EXTENDS Books, Naturals, Sequences, SequencesExt, FiniteSets

CONSTANTS
    BillIds,    \* bill_allocation.id values
    Pendings,   \* pending values
    MaxItems,   \* bound on the allocations of one document
    Opening     \* the owner of the opening line's allocations (voucher_id null)

ASSUME BillAllocationAssumption ==
    /\ MaxItems \in Nat
    /\ Opening \notin Vouchers
    /\ None \notin BillIds \cup Pendings

VARIABLES
    bill_voucher,     \* whether each voucher has a row; no table keeps the id of
                      \* a deleted one
    bill_allocation   \* the table, a function on the ids present

bill_vars == <<bill_voucher, bill_allocation>>

RefTypes == {"NEW", "ADJ", "ON_ACC"}
Allocation == [owner : Vouchers \cup {Opening}, ref_type : RefTypes,
               pending : Pendings \cup {None}]

BillTypeOK ==
    /\ bill_voucher \in [Vouchers -> {"absent", "live"}]
    /\ bill_allocation \in TableOf(BillIds, Allocation)

BillInit ==
    /\ bill_voucher = [v \in Vouchers |-> "absent"]
    /\ bill_allocation = << >>

-----------------------------------------------------------------------------
PendingsOf(b) == {b[i].pending : i \in DOMAIN b}
Named(items, field) == {items[n][field] : n \in DOMAIN items}

\* gen_random_uuid(): a value nobody uses or names
GenPending(b, items) == Pendings \ (PendingsOf(b) \cup Named(items, "pending"))
GenId(b, items) == BillIds \ (DOMAIN b \cup Named(items, "id"))
Pick(S) == IF S = {} THEN None ELSE CHOOSE x \in S : TRUE

Owned(b, owner) == {i \in DOMAIN b : b[i].owner = owner}

\* A call in progress: the table so far, p_id, and whether the call raised.  A
\* model that runs out of ids to generate raises as well.
Start(b) == [bill |-> b, p_id |-> None, raised |-> FALSE]

\* The allocations of b that settle a bill whose NEW is deleted.
Adjusters(b, deleted) ==
    LET gone == {b[i].pending : i \in {j \in deleted : b[j].ref_type = "NEW"}} \ {None}
    IN {i \in DOMAIN b \ deleted : b[i].ref_type = "ADJ" /\ b[i].pending \in gone}

\* One of them becomes the NEW of the pending id p.
Free(i, c, p) ==
    [bill   |-> With(c.bill, i, [owner |-> c.bill[i].owner, ref_type |-> "NEW", pending |-> p]),
     p_id   |-> c.p_id,
     raised |-> c.raised \/ p = None]

\* Mutant of tgf_del_on_bill_allc: the pending id is generated once for all rows.
tgf_del_shared(b, deleted, items) ==
    FoldSet(LAMBDA i, c : Free(i, c, Pick(GenPending(b, items))),
            Start(Restrict(b, DOMAIN b \ deleted)), Adjusters(b, deleted))

(***************************************************************************)
(* tg_del_bill_allc: every ADJ of a deleted NEW becomes a NEW of its own,  *)
(* under a pending id generated for that row.                              *)
(***************************************************************************)
tgf_del_on_bill_allc(b, deleted, items) ==
    FoldSet(LAMBDA i, c : Free(i, c, Pick(GenPending(c.bill, items))),
            Start(Restrict(b, DOMAIN b \ deleted)), Adjusters(b, deleted))

\* The upsert of an item under p_id, unless one of the loop's checks refused it.
Put(c, owner, item, p, refused, items) ==
    LET i == IF item.id = None THEN Pick(GenId(c.bill, items)) ELSE item.id
    IN [bill   |-> With(c.bill, i, [owner |-> owner, ref_type |-> item.ref_type, pending |-> p]),
        p_id   |-> p,
        raised |-> c.raised \/ refused \/ i = None]

\* Mutant of ItemPending: ON_ACC keeps what the client sent.
ItemPendingKept(c, item, items) ==
    CASE item.ref_type = "NEW" /\ item.pending = None -> Pick(GenPending(c.bill, items))
      [] OTHER -> item.pending

\* p_id in the loops of insert_ and update_bill_allocation
ItemPending(c, item, items) ==
    CASE item.ref_type = "NEW" /\ item.pending = None -> Pick(GenPending(c.bill, items))
      [] item.ref_type = "ON_ACC" -> None
      [] OTHER -> item.pending

NewRefs(b, p) == {i \in DOMAIN b : b[i].ref_type = "NEW" /\ b[i].pending = p}

\* `pending must be required on adjusted ref'
NeedsPending(item, p) == item.ref_type \in {"NEW", "ADJ"} /\ p = None

insert_item(c, owner, item, items) ==
    LET p == ItemPending(c, item, items)
    IN Put(c, owner, item, p,
           \/ NeedsPending(item, p)
           \/ item.ref_type = "NEW" /\ NewRefs(c.bill, p) # {}, items)

insert_bill_allocation(b, owner, items) ==
    FoldLeft(LAMBDA c, item : insert_item(c, owner, item, items), Start(b), items)

(***************************************************************************)
(* `not (id = coalesce(i.id))' is null when the item carries no id, so     *)
(* the check for an existing NEW then finds nothing.                       *)
(***************************************************************************)
update_item(c, owner, item, items) ==
    LET p == ItemPending(c, item, items)
    IN Put(c, owner, item, p,
           \/ NeedsPending(item, p)
           \/ item.ref_type = "NEW" /\ item.id # None /\ NewRefs(c.bill, p) \ {item.id} # {},
           items)

Missed(b, owner, items) == Owned(b, owner) \ Named(items, "id")

update_bill_allocation(b, owner, items) ==
    FoldLeft(LAMBDA c, item : update_item(c, owner, item, items),
             tgf_del_on_bill_allc(b, Missed(b, owner, items), items), items)

(***************************************************************************)
(* The loop of set_account_opening.  p_id is assigned by a NEW item only   *)
(* and keeps its value for the items that follow; a row already there      *)
(* takes the new ref_type and keeps its pending.                           *)
(***************************************************************************)
opening_item(c, item, items) ==
    LET p == IF item.ref_type # "NEW" THEN c.p_id ELSE ItemPending(c, item, items)
        refused == \/ item.ref_type = "ADJ"
                   \/ item.ref_type = "ON_ACC" /\ item.pending # None
                   \/ NeedsPending(item, p)
    IN IF item.id \in DOMAIN c.bill
       THEN [bill   |-> With(c.bill, item.id, [owner |-> c.bill[item.id].owner,
                                               ref_type |-> item.ref_type,
                                               pending |-> c.bill[item.id].pending]),
             p_id   |-> p,
             raised |-> c.raised \/ refused]
       ELSE Put(c, Opening, item, p, refused, items)

opening_allocations(b, items) ==
    FoldLeft(LAMBDA c, item : opening_item(c, item, items),
             tgf_del_on_bill_allc(b, Missed(b, Opening, items), items), items)

-----------------------------------------------------------------------------
Items(owner) ==
    LET Item == [id : Owned(bill_allocation, owner) \cup {None}, ref_type : RefTypes,
                 pending : Pendings \cup {None}]
    IN UNION {[1..n -> Item] : n \in 0..MaxItems}

StoreBills(c) ==
    /\ ~c.raised
    /\ bill_allocation' = c.bill

CreateBills(v, items) ==
    /\ bill_voucher[v] = "absent"
    /\ bill_voucher' = [bill_voucher EXCEPT ![v] = "live"]
    /\ StoreBills(insert_bill_allocation(bill_allocation, v, items))

\* An update that drops the sundry line deletes its allocations: the case << >>.
UpdateBills(v, items) ==
    /\ bill_voucher[v] = "live"
    /\ StoreBills(update_bill_allocation(bill_allocation, v, items))
    /\ UNCHANGED bill_voucher

\* delete_voucher, or its deletion as the memo of a payment, cascading here
DeleteBills(v) ==
    /\ bill_voucher[v] = "live"
    /\ bill_voucher' = [bill_voucher EXCEPT ![v] = "absent"]
    /\ StoreBills(tgf_del_on_bill_allc(bill_allocation, Owned(bill_allocation, v), << >>))

\* set_account_opening; with credit = debit = 0 it deletes them all: the case << >>
SetAccountOpening(items) ==
    /\ StoreBills(opening_allocations(bill_allocation, items))
    /\ UNCHANGED bill_voucher

BillNext ==
    \/ \E v \in Vouchers :
          \/ \E items \in Items(v) : CreateBills(v, items) \/ UpdateBills(v, items)
          \/ DeleteBills(v)
    \/ \E items \in Items(Opening) : SetAccountOpening(items)

BillSpec == BillInit /\ [][BillNext]_bill_vars

-----------------------------------------------------------------------------
OfVoucher(i) == bill_allocation[i].owner # Opening

(***************************************************************************)
(* When a bill's NEW allocation goes away, by an edit, a deletion, a memo  *)
(* conversion or a new opening, every allocation of another document that  *)
(* was settling it becomes a bill of its own: NEW, under a pending id that *)
(* no other row carries.                                                   *)
(***************************************************************************)
AdjustersAreFreed ==
    [][\A i \in DOMAIN bill_allocation \ DOMAIN bill_allocation' :
         bill_allocation[i].ref_type = "NEW" =>
           \A j \in DOMAIN bill_allocation \cap DOMAIN bill_allocation' :
              /\ bill_allocation[j].ref_type = "ADJ"
              /\ bill_allocation[j].pending = bill_allocation[i].pending
              /\ bill_allocation[j].owner # bill_allocation[i].owner
              => /\ bill_allocation'[j].ref_type = "NEW"
                 /\ \A k \in DOMAIN bill_allocation' \ {j} :
                       bill_allocation'[k].pending # bill_allocation'[j].pending]_bill_vars

(***************************************************************************)
(* Allocations of a voucher carry a pending id exactly when they belong to *)
(* a bill, through every chain of edits, deletions and freed adjustments.  *)
(***************************************************************************)
VoucherPendingFitsRef ==
    \A i \in DOMAIN bill_allocation : OfVoucher(i) =>
        (bill_allocation[i].pending = None <=> bill_allocation[i].ref_type = "ON_ACC")
=============================================================================

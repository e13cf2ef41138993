--------------------------- MODULE VoucherProofs ---------------------------
(* Theorems about Voucher, for any set of sessions, voucher types, books   *)
(* and members, and any number of overlapping transactions.                *)
EXTENDS Voucher, TLAPS

Creating(s) == op[s] \in {"create", "convert_create"}
Holding(s) == op[s] \in {"update", "convert_update", "approved", "delete", "irn"}
Signing(s) == op[s] \in {"approve", "approved"}

\* An insert in progress owns its id and, if the type is numbered, the lock of
\* its numbering row and the number that comes next.
CreateOwns ==
    /\ \A s \in Sessions : Creating(s) =>
          target[s] \in Ids /\ status[target[s]] = "taken"
    /\ \A s \in Sessions : Creating(s) /\ row[target[s]].type \in AutoSequence =>
          /\ numLock[Key(target[s])] = s
          /\ row[target[s]].seq = numbering[Key(target[s])] + 1
    /\ \A s, t \in Sessions :
          Creating(s) /\ Creating(t) /\ target[s] = target[t] => s = t
    /\ \A k \in Keys, s \in Sessions : numLock[k] = s =>
          Creating(s) /\ row[target[s]].type \in AutoSequence /\ Key(target[s]) = k
    /\ \A id \in Ids : status[id] = "taken" => row[id].approval_state = 0

\* A session that writes or deletes a voucher holds its row lock, the voucher
\* is there, and what is to be deleted is unsigned.
LockOwns ==
    /\ \A s \in Sessions : Holding(s) =>
          target[s] \in Ids /\ rowLock[target[s]] = s /\ status[target[s]] = "live"
    /\ \A s \in Sessions : op[s] = "approve" => target[s] \in Ids /\ Issued(target[s])
    /\ \A s \in Sessions : op[s] \in {"convert_create", "convert_update"} => memo[s] \in Ids
    /\ \A s \in Sessions : op[s] \in {"create", "update"} /\ memo[s] # None =>
          rowLock[memo[s]] = s /\ status[memo[s]] = "live" /\ ~Logged(memo[s])
    /\ \A s \in Sessions : op[s] = "delete" => ~Logged(target[s])
    /\ \A s \in Sessions : Signing(s) => level[s] \in Levels /\ signer[s] \in Members

\* Types, and the ownership of ids and locks: what every other proof rests on.
OwnInv == TypeOK /\ CreateOwns /\ LockOwns

-----------------------------------------------------------------------------
\* Writing one column of a row leaves a row.
LEMMA RowApproval ==
    ASSUME NEW r \in Row, NEW n \in 0..5 PROVE [r EXCEPT !.approval_state = n] \in Row
  BY DEF Row
LEMMA RowIrn == ASSUME NEW r \in Row PROVE [r EXCEPT !.irn = "filled"] \in Row
  BY DEF Row

\* The sequence of a voucher is one of the keys of voucher_numbering.
LEMMA KeyInKeys == ASSUME TypeOK, NEW id \in Ids PROVE Key(id) \in Keys
  BY DEF TypeOK, Key, Keys, Row

\* A session past its first statement works on a voucher.
LEMMA TargetInIds ==
    ASSUME OwnInv, NEW s \in Sessions, op[s] # "idle" PROVE target[s] \in Ids
  BY DEF OwnInv, TypeOK, CreateOwns, LockOwns, Creating, Holding

\* The end of a transaction keeps the types of locks and arguments.
LEMMA EndTypes ==
    ASSUME TypeOK, NEW s \in Sessions, EndTransaction(s)
    PROVE  /\ numLock' \in [Keys -> Sessions \cup {None}]
           /\ rowLock' \in [Ids -> Sessions \cup {None}]
           /\ op' \in [Sessions -> {"idle", "create", "update", "convert_create",
                            "convert_update", "approve", "approved", "delete", "irn"}]
           /\ target' \in [Sessions -> Ids \cup {None}]
           /\ memo' \in [Sessions -> Ids \cup {None}]
           /\ level' \in [Sessions -> 0..5]
           /\ signer' \in [Sessions -> Members \cup {None}]
  BY DEF TypeOK, EndTransaction, Begin

\* The start of a call keeps the types of its arguments.
LEMMA BeginTypes ==
    ASSUME TypeOK, NEW s \in Sessions, NEW id \in Ids, NEW m \in Ids \cup {None},
           NEW lvl \in 0..5, NEW who \in Members \cup {None},
           NEW what \in {"create", "update", "convert_create", "convert_update",
                         "approve", "delete", "irn"},
           Begin(s, what, id, m, lvl, who)
    PROVE  /\ op' \in [Sessions -> {"idle", "create", "update", "convert_create",
                            "convert_update", "approve", "approved", "delete", "irn"}]
           /\ target' \in [Sessions -> Ids \cup {None}]
           /\ memo' \in [Sessions -> Ids \cup {None}]
           /\ level' \in [Sessions -> 0..5]
           /\ signer' \in [Sessions -> Members \cup {None}]
  BY DEF TypeOK, Begin

\* A deletion makes no allocation one that has been NEW all along.
LEMMA CascadeTypes ==
    ASSUME TypeOK, NEW gone, NEW freed
    PROVE  /\ Cascade(gone, freed) \in [Ids -> SUBSET Kinds]
           /\ \A i \in Ids : "NEW" \in Cascade(gone, freed)[i] => "NEW" \in unreleased[i]
  BY DEF TypeOK, Cascade, Kinds

\* Every step keeps the types.
LEMMA TypeStep == OwnInv /\ [Next]_vars => TypeOK'
<1> SUFFICES ASSUME OwnInv, [Next]_vars PROVE TypeOK'
    OBVIOUS
<1>t. TypeOK
  BY DEF OwnInv
<1> USE VoucherAssumption, <1>t DEF tables, locks, args
<1>1. ASSUME NEW s \in Sessions, NEW id \in Ids, NEW t \in VoucherTypes, NEW b \in Books,
             NEW m \in Ids \cup {None}, CreateVoucher(s, id, t, b, m)
      PROVE TypeOK'
  <2> DEFINE k == <<b, Sequence[t]>>
             what == IF m = None THEN "create" ELSE "convert_create"
  <2>1. k \in Keys
    BY DEF Keys
  <2>2. \A irn \in {"empty", "filled"} : NewRow(t, b, numbering[k] + 1, irn) \in Row
    BY <2>1 DEF TypeOK, NewRow, Row
  <2>3. Begin(s, what, id, m, 0, None)
    BY <1>1 DEF CreateVoucher
  <2>4. what \in {"create", "update", "convert_create", "convert_update",
                  "approve", "delete", "irn"}
    OBVIOUS
  <2> HIDE DEF what
  <2> QED  BY <1>1, <2>1, <2>2, <2>3, <2>4, BeginTypes DEF CreateVoucher, TypeOK
<1>2. ASSUME NEW s \in Sessions, NEW id \in Ids, NEW t \in VoucherTypes, NEW b \in Books,
             NEW m \in Ids \cup {None}, NEW seq \in ManualSeqs, CreateManual(s, id, t, b,
          m, seq)
      PROVE TypeOK'
  <2> DEFINE what == IF m = None THEN "create" ELSE "convert_create"
  <2>1. \A irn \in {"empty", "filled"} : NewRow(t, b, seq, irn) \in Row
    BY VoucherAssumption DEF NewRow, Row
  <2>2. Begin(s, what, id, m, 0, None)
    BY <1>2 DEF CreateManual
  <2>3. what \in {"create", "update", "convert_create", "convert_update",
                  "approve", "delete", "irn"}
    OBVIOUS
  <2> HIDE DEF what
  <2> QED  BY <1>2, <2>1, <2>2, <2>3, BeginTypes DEF CreateManual, TypeOK
<1>3. ASSUME NEW s \in Sessions, NEW id \in Ids, NEW m \in Ids \cup {None},
             UpdateVoucher(s, id, m)
      PROVE TypeOK'
  BY <1>3, BeginTypes DEF UpdateVoucher, TypeOK
<1>4. ASSUME NEW s \in Sessions, ConvertMemo(s) PROVE TypeOK'
  BY <1>4 DEF ConvertMemo, TypeOK, OwnInv, LockOwns
<1>5. ASSUME NEW s \in Sessions, NEW id \in Ids, NEW lvl \in Levels, NEW who \in Members,
             ApproveRead(s, id, lvl, who)
      PROVE TypeOK'
  <2>1. Begin(s, "approve", id, None, lvl, who) /\ UNCHANGED <<tables, locks>> /\ lvl \in 0..5
    BY <1>5 DEF ApproveRead, Levels
  <2>2. /\ op' \in [Sessions -> {"idle", "create", "update", "convert_create",
                            "convert_update", "approve", "approved", "delete", "irn"}]
        /\ target' \in [Sessions -> Ids \cup {None}]
        /\ memo' \in [Sessions -> Ids \cup {None}]
        /\ level' \in [Sessions -> 0..5]
        /\ signer' \in [Sessions -> Members \cup {None}]
    BY <2>1, BeginTypes
  <2> QED  BY <2>1, <2>2 DEF TypeOK
<1>6. ASSUME NEW s \in Sessions, ApproveUpdate(s) PROVE TypeOK'
  BY <1>6, TargetInIds DEF ApproveUpdate, TypeOK
<1>7. ASSUME NEW s \in Sessions, NEW id \in Ids, DeleteVoucher(s, id) PROVE TypeOK'
  BY <1>7, BeginTypes DEF DeleteVoucher, TypeOK
<1>8. ASSUME NEW s \in Sessions, NEW id \in Ids, SetIrn(s, id) PROVE TypeOK'
  BY <1>8, BeginTypes DEF SetIrn, TypeOK
<1>9. ASSUME NEW s \in Sessions, CommitCreate(s) PROVE TypeOK'
  <2>1. target[s] \in Ids
    BY <1>9, TargetInIds DEF CommitCreate
  <2>2. row[target[s]].seq \in Nat
    BY <2>1 DEF TypeOK, Row
  <2>3. unreleased' \in [Ids -> SUBSET Kinds]
    <3>1. PICK u \in Inserts(target[s]), freed \in SUBSET Ids :
             unreleased' = [Cascade(memo[s], freed) EXCEPT ![target[s]] = u]
      BY <1>9 DEF CommitCreate, Adjusting
    <3>2. u \in SUBSET Kinds
      BY DEF Inserts, Kinds
    <3> QED  BY <2>1, <3>1, <3>2, CascadeTypes
  <2> QED  BY <1>9, <2>1, <2>2, <2>3, EndTypes DEF CommitCreate, TypeOK
<1>10. ASSUME NEW s \in Sessions, CommitUpdate(s) PROVE TypeOK'
  <2>1. target[s] \in Ids
    BY <1>10, TargetInIds DEF CommitUpdate
  <2>2. unreleased' \in [Ids -> SUBSET Kinds]
    <3>1. PICK u \in Edits(target[s]), freed \in SUBSET Ids :
             unreleased' = [Cascade(memo[s], freed) EXCEPT
                              ![target[s]] = IF target[s] = memo[s] THEN {} ELSE u]
      BY <1>10 DEF CommitUpdate, Adjusting
    <3>2. u \in SUBSET Kinds
      BY DEF Edits
    <3> QED  BY <2>1, <3>1, <3>2, CascadeTypes
  <2> QED  BY <1>10, <2>1, <2>2, EndTypes DEF CommitUpdate, TypeOK
<1>11. ASSUME NEW s \in Sessions, CommitApproval(s) PROVE TypeOK'
  <2>0. op[s] = "approved" /\ op[s] # "idle"
    BY <1>11 DEF CommitApproval
  <2>a. target[s] \in Ids
    BY <2>0, TargetInIds
  <2>b. level[s] \in Levels /\ signer[s] \in Members
    BY <2>0 DEF OwnInv, LockOwns, Signing
  <2>1. target[s] \in Ids /\ row[target[s]] \in Row /\ level[s] \in Levels /\ signer[s] \in Members
    BY <2>a, <2>b DEF TypeOK
  <2>2. [row[target[s]] EXCEPT !.approval_state = level[s]] \in Row
    <3>1. level[s] \in 0..5
      BY <2>1 DEF Levels
    <3> QED  BY <3>1, <2>1, RowApproval
  <2> QED  BY <1>11, <2>1, <2>2, EndTypes DEF CommitApproval, TypeOK
<1>12. ASSUME NEW s \in Sessions, CommitDelete(s) PROVE TypeOK'
  <2>1. unreleased' \in [Ids -> SUBSET Kinds]
    BY <1>12, CascadeTypes DEF CommitDelete
  <2> QED  BY <1>12, <2>1, EndTypes DEF CommitDelete, TypeOK
<1>13. ASSUME NEW s \in Sessions, CommitIrn(s) PROVE TypeOK'
  <2>1. target[s] \in Ids /\ row[target[s]] \in Row
    BY <1>13, TargetInIds DEF CommitIrn, TypeOK
  <2>2. [row[target[s]] EXCEPT !.irn = "filled"] \in Row
    BY <2>1, RowIrn
  <2> QED  BY <1>13, <2>1, <2>2, EndTypes DEF CommitIrn, TypeOK
<1>14. ASSUME NEW s \in Sessions, Rollback(s) PROVE TypeOK'
  <2>1. BlankRow \in Row
    BY DEF BlankRow, NewRow, Row
  <2> QED  BY <1>14, <2>1, EndTypes DEF Rollback, TypeOK
<1>15. CASE UNCHANGED vars
  BY <1>15 DEF vars, TypeOK
<1> QED  BY <1>1, <1>2, <1>3, <1>4, <1>5, <1>6, <1>7, <1>8, <1>9, <1>10, <1>11, <1>12,
          <1>13,
            <1>14, <1>15
         DEF Next
-----------------------------------------------------------------------------
\* A transaction that ends without taking an id takes nothing from the inserts
\* of other sessions.
LEMMA EndOwns ==
    ASSUME OwnInv, TypeOK', NEW s \in Sessions, EndTransaction(s),
           \A i \in Ids : status'[i] = "taken" =>
              status[i] = "taken" /\ row'[i] = row[i] /\ ~(Creating(s) /\ i = target[s]),
           \A i \in Ids : status[i] = "taken" /\ i # target[s] => status'[i] = "taken",
           \A i \in Ids : ~Creating(s) /\ status[i] = "taken" => status'[i] = "taken",
           \A k \in Keys : numLock[k] # s => numbering'[k] = numbering[k]
    PROVE  CreateOwns'
<1> USE DEF OwnInv, CreateOwns
<1>1. /\ \A t \in Sessions : t # s => op'[t] = op[t] /\ target'[t] = target[t]
      /\ op'[s] = "idle"
  BY DEF TypeOK, EndTransaction, Begin
<1>2. \A t \in Sessions : Creating(t)' => t # s /\ Creating(t) /\ target'[t] = target[t]
  BY <1>1 DEF Creating
<1>3. \A t \in Sessions : Creating(t)' => target[t] \in Ids /\ status'[target[t]] = "taken"
  BY <1>2
<1>4. \A i \in Ids : status'[i] = "taken" => row'[i] = row[i] /\ Key(i)' = Key(i)
  BY DEF Key
<1>5. \A k \in Keys : numLock'[k] = IF numLock[k] = s THEN None ELSE numLock[k]
  BY DEF EndTransaction
<1>6. \A t \in Sessions : Creating(t)' => row'[target'[t]] = row[target[t]]
  BY <1>2, <1>3, <1>4
<1>7. \A t \in Sessions : Creating(t)' /\ row[target[t]].type \in AutoSequence =>
          /\ numLock'[Key(target[t])] = t
          /\ row[target[t]].seq = numbering'[Key(target[t])] + 1
  <2> SUFFICES ASSUME NEW t \in Sessions, Creating(t)',
                      row[target[t]].type \in AutoSequence
               PROVE  /\ numLock'[Key(target[t])] = t
                      /\ row[target[t]].seq = numbering'[Key(target[t])] + 1
    OBVIOUS
  <2>1. Key(target[t]) \in Keys
    BY <1>3, KeyInKeys
  <2> QED  BY <2>1, <1>2, <1>5
<1>10. \A k \in Keys, t \in Sessions : numLock'[k] = t =>
          Creating(t)' /\ row[target[t]].type \in AutoSequence /\ Key(target[t]) = k
  <2> SUFFICES ASSUME NEW k \in Keys, NEW t \in Sessions, numLock'[k] = t
               PROVE  Creating(t)' /\ row[target[t]].type \in AutoSequence /\ Key(target[t]) = k
    OBVIOUS
  <2>1. numLock[k] = t /\ t # s
    BY <1>5, VoucherAssumption
  <2> QED  BY <2>1, <1>1 DEF Creating
<1>8. \A t, u \in Sessions : Creating(t)' /\ Creating(u)' /\ target'[t] = target'[u] => t = u
  BY <1>2
<1>9. \A i \in Ids : status'[i] = "taken" => row'[i].approval_state = 0
  BY <1>4
<1>11. \A t \in Sessions : Creating(t)' => Key(target[t])' = Key(target[t])
  BY <1>6 DEF Key
<1>12. \A t \in Sessions : Creating(t)' /\ row'[target'[t]].type \in AutoSequence =>
          /\ numLock'[Key(target[t])'] = t
          /\ row'[target'[t]].seq = numbering'[Key(target[t])'] + 1
  BY <1>6, <1>7, <1>11
<1>13. \A k \in Keys, t \in Sessions : numLock'[k] = t =>
          Creating(t)' /\ row'[target'[t]].type \in AutoSequence /\ Key(target[t])' = k
  BY <1>6, <1>10, <1>11
<1> QED  BY <1>2, <1>3, <1>8, <1>9, <1>12, <1>13

\* An insert in progress keeps what it owns.
LEMMA CreateStep == OwnInv /\ [Next]_vars => CreateOwns'
<1> SUFFICES ASSUME OwnInv, [Next]_vars PROVE CreateOwns'
    OBVIOUS
<1>t. TypeOK'
  BY TypeStep
<1> USE VoucherAssumption, <1>t DEF OwnInv, TypeOK, CreateOwns, LockOwns, Creating,
          Holding, Issued, Key, Row, tables, locks, args
<1>1. ASSUME NEW s \in Sessions, NEW id \in Ids, NEW t \in VoucherTypes, NEW b \in Books,
             NEW m \in Ids \cup {None}, CreateVoucher(s, id, t, b, m) PROVE CreateOwns'
  <2> DEFINE k == <<b, Sequence[t]>>
  <2>1. k \in Keys /\ numLock[k] = None /\ status[id] = "unused"
    <3> HIDE DEF OwnInv, TypeOK, CreateOwns, LockOwns
    <3>1. k \in Keys
      BY DEF Keys
    <3>2. numLock[k] = None /\ status[id] = "unused"
      BY <1>1 DEF CreateVoucher
    <3> QED  BY <3>1, <3>2
  <2>2. /\ \E irn : row' = [row EXCEPT ![id] = NewRow(t, b, numbering[k] + 1, irn)]
        /\ numLock' = [numLock EXCEPT ![k] = s]
        /\ status' = [status EXCEPT ![id] = "taken"]
        /\ numbering' = numbering
    BY <1>1 DEF CreateVoucher
  <2>3. /\ row'[id].type = t /\ row'[id].seq = numbering[k] + 1
        /\ row'[id].approval_state = 0 /\ Key(id)' = k
    BY <2>2 DEF NewRow
  <2>4. \A i \in Ids : i # id => row'[i] = row[i] /\ Key(i)' = Key(i) /\ status'[i] = status[i]
    BY <2>2
  <2>5. /\ op'[s] \in {"create", "convert_create"} /\ target'[s] = id /\ op[s] = "idle"
        /\ \A u \in Sessions : u # s => op'[u] = op[u] /\ target'[u] = target[u]
    BY <1>1 DEF CreateVoucher, Begin
  <2>6. \A u \in Sessions : Creating(u) => target[u] \in Ids /\ target[u] # id /\ u # s
    BY <2>1, <2>5
  <2>7. \A u \in Sessions : u # s /\ Creating(u)' =>
          /\ Creating(u) /\ target[u] \in Ids
          /\ row'[target'[u]] = row[target[u]] /\ Key(target[u])' = Key(target[u])
          /\ status'[target'[u]] = "taken"
    BY <2>4, <2>5, <2>6
  <2>8. Key(target[s])' = k
    BY <2>3, <2>5
  <2>9. \A u \in Sessions : Creating(u)' /\ row'[target'[u]].type \in AutoSequence =>
          /\ numLock'[Key(target[u])'] = u
          /\ row'[target'[u]].seq = numbering'[Key(target[u])'] + 1
    <3> SUFFICES ASSUME NEW u \in Sessions, Creating(u)', row'[target'[u]].type \in AutoSequence
                 PROVE  /\ numLock'[Key(target[u])'] = u
                        /\ row'[target'[u]].seq = numbering'[Key(target[u])'] + 1
      OBVIOUS
    <3>1. CASE u = s
      <4>1. numLock'[k] = s
        BY <2>1, <2>2
      <4> HIDE DEF k, Key
      <4> QED  BY <3>1, <4>1, <2>2, <2>3, <2>5, <2>8
    <3>2. CASE u # s
      <4>1. Key(target[u]) \in Keys /\ numLock[Key(target[u])] = u
        BY <3>2, <2>7, KeyInKeys
      <4>2. Key(target[u]) # k
        <5> HIDE DEF OwnInv, TypeOK, CreateOwns, LockOwns, Key, k
        <5> QED  BY <4>1, <2>1
      <4> HIDE DEF k, Key
      <4> QED  BY <3>2, <4>1, <4>2, <2>2, <2>7
    <3> QED  BY <3>1, <3>2
  <2>10. \A c \in Keys, u \in Sessions : numLock'[c] = u =>
          Creating(u)' /\ row'[target'[u]].type \in AutoSequence /\ Key(target[u])' = c
    <3> SUFFICES ASSUME NEW c \in Keys, NEW u \in Sessions, numLock'[c] = u
                 PROVE  Creating(u)' /\ row'[target'[u]].type \in AutoSequence /\ Key(target[u])' = c
      OBVIOUS
    <3>1. CASE c = k
      <4>1. u = s /\ t \in AutoSequence
        BY <3>1, <1>1, <2>1, <2>2 DEF CreateVoucher
      <4> QED  BY <3>1, <4>1, <2>3, <2>5, <2>8
    <3>2. CASE c # k
      <4>1. numLock[c] = u
        BY <3>2, <2>1, <2>2
      <4>2. Creating(u) /\ row[target[u]].type \in AutoSequence /\ Key(target[u]) = c
        BY <4>1
      <4>3. u # s /\ Creating(u)'
        <5> HIDE DEF OwnInv, TypeOK, CreateOwns, LockOwns, Key
        <5> QED  BY <4>2, <2>5, <2>6
      <4> HIDE DEF OwnInv, TypeOK, CreateOwns, LockOwns, Key, Creating
      <4> QED  BY <4>2, <4>3, <2>5, <2>7
    <3> QED  BY <3>1, <3>2
  <2>11. \A u \in Sessions : Creating(u)' => target'[u] \in Ids /\ status'[target'[u]] = "taken"
    BY <2>2, <2>5, <2>7, ZenonT(30)
  <2>12. \A u, w \in Sessions : Creating(u)' /\ Creating(w)' /\ target'[u] = target'[w] => u = w
    <3>1. \A u \in Sessions : u # s /\ Creating(u)' => Creating(u) /\ target'[u] = target[u]
      BY <2>5, <2>7
    <3>2. \A u, w \in Sessions : Creating(u) /\ Creating(w) /\ target[u] = target[w] => u = w
      OBVIOUS
    <3> HIDE DEF OwnInv, TypeOK, CreateOwns, LockOwns, Creating, k, Key
    <3> QED  BY <3>1, <3>2, <2>5, <2>6
  <2>13. \A i \in Ids : status'[i] = "taken" => row'[i].approval_state = 0
    <3>1. \A i \in Ids : status[i] = "taken" => row[i].approval_state = 0
      OBVIOUS
    <3> HIDE DEF OwnInv, TypeOK, CreateOwns, LockOwns, Key, k, Row
    <3> QED  BY <2>3, <2>4, <3>1
  <2> HIDE DEF k, Creating, Key
  <2> QED  BY <2>9, <2>10, <2>11, <2>12, <2>13
<1>2. ASSUME NEW s \in Sessions, NEW id \in Ids, NEW t \in VoucherTypes, NEW b \in Books,
             NEW m \in Ids \cup {None}, NEW seq \in ManualSeqs, CreateManual(s, id, t, b,
          m, seq) PROVE CreateOwns'
  <2>1. /\ status[id] = "unused" /\ t \notin AutoSequence /\ status'[id] = "taken"
        /\ row'[id].type = t /\ row'[id].approval_state = 0
        /\ \A i \in Ids : i # id => row'[i] = row[i] /\ status'[i] = status[i]
        /\ numLock' = numLock /\ numbering' = numbering
    BY <1>2 DEF CreateManual, NewRow
  <2>2. /\ op'[s] \in {"create", "convert_create"} /\ target'[s] = id /\ op[s] = "idle"
        /\ \A u \in Sessions : u # s => op'[u] = op[u] /\ target'[u] = target[u]
    BY <1>2 DEF CreateManual, Begin
  <2>3. CreateOwns
    OBVIOUS
  <2>4. \A u \in Sessions : Creating(u) => target[u] # id /\ u # s
    <3> HIDE DEF OwnInv, TypeOK, LockOwns, Row, Key
    <3> QED  BY <2>1, <2>2, <2>3
  <2>5. \A u \in Sessions : u # s =>
          /\ Creating(u)' <=> Creating(u)
          /\ Creating(u) => /\ target[u] \in Ids /\ target'[u] = target[u] /\ target[u] # id
                            /\ row'[target'[u]] = row[target[u]]
                            /\ status'[target'[u]] = status[target[u]]
                            /\ Key(target[u])' = Key(target[u])
    <3> HIDE DEF OwnInv, TypeOK, LockOwns, Row
    <3> QED  BY <2>1, <2>2, <2>3, <2>4
  <2>6. Creating(s)' /\ ~Creating(s) /\ row'[target'[s]].type \notin AutoSequence
    <3> HIDE DEF OwnInv, TypeOK, CreateOwns, LockOwns, Row
    <3> QED  BY <2>1, <2>2
  <2> HIDE DEF OwnInv, TypeOK, LockOwns, Row, CreateOwns, Creating, Key
  <2>7. \A u \in Sessions : Creating(u)' => target'[u] \in Ids /\ status'[target'[u]] = "taken"
    BY <2>1, <2>2, <2>3, <2>5 DEF CreateOwns
  <2>8. \A u \in Sessions : Creating(u)' /\ row'[target'[u]].type \in AutoSequence =>
          /\ numLock'[Key(target[u])'] = u
          /\ row'[target'[u]].seq = numbering'[Key(target[u])'] + 1
    BY <2>1, <2>3, <2>5, <2>6 DEF CreateOwns
  <2>9. \A u, w \in Sessions : Creating(u)' /\ Creating(w)' /\ target'[u] = target'[w] => u = w
    BY <2>2, <2>3, <2>5 DEF CreateOwns
  <2>10. \A c \in Keys, u \in Sessions : numLock'[c] = u =>
          Creating(u)' /\ row'[target'[u]].type \in AutoSequence /\ Key(target[u])' = c
    BY <2>1, <2>3, <2>5, <2>6 DEF CreateOwns
  <2>11. \A i \in Ids : status'[i] = "taken" => row'[i].approval_state = 0
    BY <2>1, <2>3 DEF CreateOwns
  <2> QED  BY <2>7, <2>8, <2>9, <2>10, <2>11 DEF CreateOwns
<1>3. ASSUME NEW s \in Sessions, NEW id \in Ids, NEW m \in Ids \cup {None},
             UpdateVoucher(s, id, m) PROVE CreateOwns'
  <2>1. UNCHANGED <<status, row, numLock, numbering>>
    BY <1>3 DEF UpdateVoucher
  <2>2. /\ op'[s] \notin {"create", "convert_create"} /\ op[s] = "idle"
        /\ \A u \in Sessions : u # s => op'[u] = op[u] /\ target'[u] = target[u]
    BY <1>3 DEF UpdateVoucher, Begin
  <2>3. CreateOwns
    OBVIOUS
  <2>4. \A u \in Sessions :
          /\ Creating(u)' <=> Creating(u)
          /\ Creating(u) => /\ target'[u] = target[u] /\ row'[target'[u]] = row[target[u]]
                            /\ Key(target[u])' = Key(target[u])
    <3> HIDE DEF OwnInv, TypeOK, LockOwns, Row
    <3> QED  BY <2>1, <2>2
  <2> HIDE DEF OwnInv, TypeOK, LockOwns, Row, Creating, Key
  <2> QED  BY <2>1, <2>3, <2>4
<1>4. ASSUME NEW s \in Sessions, ConvertMemo(s) PROVE CreateOwns'
  BY <1>4 DEF ConvertMemo
<1>5. ASSUME NEW s \in Sessions, NEW id \in Ids, NEW lvl \in Levels, NEW who \in Members,
             ApproveRead(s, id, lvl, who) PROVE CreateOwns'
  BY <1>5 DEF ApproveRead, Begin
<1>6. ASSUME NEW s \in Sessions, ApproveUpdate(s) PROVE CreateOwns'
  BY <1>6 DEF ApproveUpdate, Unlocked
<1>7. ASSUME NEW s \in Sessions, NEW id \in Ids, DeleteVoucher(s, id) PROVE CreateOwns'
  BY <1>7 DEF DeleteVoucher, Begin, Unlocked
<1>8. ASSUME NEW s \in Sessions, NEW id \in Ids, SetIrn(s, id) PROVE CreateOwns'
  BY <1>8 DEF SetIrn, Begin, Unlocked
<1>9. ASSUME NEW s \in Sessions, CommitCreate(s) PROVE CreateOwns'
  <2>1. \A i \in Ids : status'[i] = "taken" =>
           status[i] = "taken" /\ row'[i] = row[i] /\ ~(Creating(s) /\ i = target[s])
    BY <1>9 DEF CommitCreate
  <2>0. \A i \in Ids : i = memo[s] => status[i] = "live"
    BY <1>9 DEF CommitCreate
  <2>2. \A i \in Ids : status[i] = "taken" /\ i # target[s] => status'[i] = "taken"
    BY <1>9, <2>0 DEF CommitCreate
  <2>3. \A i \in Ids : ~Creating(s) /\ status[i] = "taken" => status'[i] = "taken"
    BY <1>9, <2>0 DEF CommitCreate
  <2>4. \A k \in Keys : numLock[k] # s => numbering'[k] = numbering[k]
    BY <1>9 DEF CommitCreate
  <2> HIDE DEF OwnInv, TypeOK, CreateOwns
  <2> QED  BY <1>9, <2>1, <2>2, <2>3, <2>4, EndOwns DEF CommitCreate
<1>10. ASSUME NEW s \in Sessions, CommitUpdate(s) PROVE CreateOwns'
  <2>1. \A i \in Ids : status'[i] = "taken" =>
           status[i] = "taken" /\ row'[i] = row[i] /\ ~(Creating(s) /\ i = target[s])
    BY <1>10 DEF CommitUpdate
  <2>0. \A i \in Ids : i = memo[s] => status[i] = "live"
    BY <1>10 DEF CommitUpdate
  <2>2. \A i \in Ids : status[i] = "taken" /\ i # target[s] => status'[i] = "taken"
    BY <1>10, <2>0 DEF CommitUpdate
  <2>3. \A i \in Ids : ~Creating(s) /\ status[i] = "taken" => status'[i] = "taken"
    BY <1>10, <2>0 DEF CommitUpdate
  <2>4. \A k \in Keys : numLock[k] # s => numbering'[k] = numbering[k]
    BY <1>10 DEF CommitUpdate
  <2> HIDE DEF OwnInv, TypeOK, CreateOwns
  <2> QED  BY <1>10, <2>1, <2>2, <2>3, <2>4, EndOwns DEF CommitUpdate
<1>11. ASSUME NEW s \in Sessions, CommitApproval(s) PROVE CreateOwns'
  <2>1. \A i \in Ids : status'[i] = "taken" =>
           status[i] = "taken" /\ row'[i] = row[i] /\ ~(Creating(s) /\ i = target[s])
    BY <1>11 DEF CommitApproval
  <2>2. \A i \in Ids : status[i] = "taken" /\ i # target[s] => status'[i] = "taken"
    BY <1>11 DEF CommitApproval
  <2>3. \A i \in Ids : ~Creating(s) /\ status[i] = "taken" => status'[i] = "taken"
    BY <1>11 DEF CommitApproval
  <2>4. \A k \in Keys : numLock[k] # s => numbering'[k] = numbering[k]
    BY <1>11 DEF CommitApproval
  <2> HIDE DEF OwnInv, TypeOK, CreateOwns
  <2> QED  BY <1>11, <2>1, <2>2, <2>3, <2>4, EndOwns DEF CommitApproval
<1>12. ASSUME NEW s \in Sessions, CommitDelete(s) PROVE CreateOwns'
  <2>1. \A i \in Ids : status'[i] = "taken" =>
           status[i] = "taken" /\ row'[i] = row[i] /\ ~(Creating(s) /\ i = target[s])
    BY <1>12 DEF CommitDelete
  <2>2. \A i \in Ids : status[i] = "taken" /\ i # target[s] => status'[i] = "taken"
    BY <1>12 DEF CommitDelete
  <2>3. \A i \in Ids : ~Creating(s) /\ status[i] = "taken" => status'[i] = "taken"
    BY <1>12 DEF CommitDelete
  <2>4. \A k \in Keys : numLock[k] # s => numbering'[k] = numbering[k]
    BY <1>12 DEF CommitDelete
  <2> HIDE DEF OwnInv, TypeOK, CreateOwns
  <2> QED  BY <1>12, <2>1, <2>2, <2>3, <2>4, EndOwns DEF CommitDelete
<1>13. ASSUME NEW s \in Sessions, CommitIrn(s) PROVE CreateOwns'
  <2>1. \A i \in Ids : status'[i] = "taken" =>
           status[i] = "taken" /\ row'[i] = row[i] /\ ~(Creating(s) /\ i = target[s])
    BY <1>13 DEF CommitIrn
  <2>2. \A i \in Ids : status[i] = "taken" /\ i # target[s] => status'[i] = "taken"
    BY <1>13 DEF CommitIrn
  <2>3. \A i \in Ids : ~Creating(s) /\ status[i] = "taken" => status'[i] = "taken"
    BY <1>13 DEF CommitIrn
  <2>4. \A k \in Keys : numLock[k] # s => numbering'[k] = numbering[k]
    BY <1>13 DEF CommitIrn
  <2> HIDE DEF OwnInv, TypeOK, CreateOwns
  <2> QED  BY <1>13, <2>1, <2>2, <2>3, <2>4, EndOwns DEF CommitIrn
<1>14. ASSUME NEW s \in Sessions, Rollback(s) PROVE CreateOwns'
  <2>1. \A i \in Ids : status'[i] = "taken" =>
           status[i] = "taken" /\ row'[i] = row[i] /\ ~(Creating(s) /\ i = target[s])
    BY <1>14 DEF Rollback
  <2>2. \A i \in Ids : status[i] = "taken" /\ i # target[s] => status'[i] = "taken"
    BY <1>14 DEF Rollback
  <2>3. \A i \in Ids : ~Creating(s) /\ status[i] = "taken" => status'[i] = "taken"
    BY <1>14, ZenonT(30) DEF Rollback
  <2>4. \A k \in Keys : numLock[k] # s => numbering'[k] = numbering[k]
    BY <1>14 DEF Rollback
  <2> HIDE DEF OwnInv, TypeOK, CreateOwns
  <2> QED  BY <1>14, <2>1, <2>2, <2>3, <2>4, EndOwns DEF Rollback
<1>15. CASE UNCHANGED vars
  BY <1>15 DEF vars
<1> QED  BY <1>1, <1>2, <1>3, <1>4, <1>5, <1>6, <1>7, <1>8, <1>9, <1>10, <1>11, <1>12,
          <1>13, <1>14, <1>15
         DEF Next
-----------------------------------------------------------------------------
\* A session that writes a voucher keeps it.
LEMMA LockStep == OwnInv /\ [Next]_vars => LockOwns'
<1> SUFFICES ASSUME OwnInv, [Next]_vars PROVE LockOwns'
    OBVIOUS
<1>t. TypeOK'
  BY TypeStep
<1> USE VoucherAssumption, <1>t DEF OwnInv, TypeOK, CreateOwns, LockOwns, Creating,
          Holding, Signing, Issued, Logged, Levels, tables, locks, args
<1>1. ASSUME NEW s \in Sessions, NEW id \in Ids, NEW t \in VoucherTypes, NEW b \in Books,
             NEW m \in Ids \cup {None}, CreateVoucher(s, id, t, b, m) PROVE LockOwns'
  BY <1>1 DEF CreateVoucher, Begin, MemoAllowed, NewRow
<1>2. ASSUME NEW s \in Sessions, NEW id \in Ids, NEW t \in VoucherTypes, NEW b \in Books,
             NEW m \in Ids \cup {None}, NEW seq \in ManualSeqs, CreateManual(s, id, t, b,
          m, seq) PROVE LockOwns'
  BY <1>2 DEF CreateManual, Begin, MemoAllowed, NewRow
<1>3. ASSUME NEW s \in Sessions, NEW id \in Ids, NEW m \in Ids \cup {None},
             UpdateVoucher(s, id, m) PROVE LockOwns'
  BY <1>3 DEF UpdateVoucher, Begin, Unlocked
<1>4. ASSUME NEW s \in Sessions, ConvertMemo(s) PROVE LockOwns'
  BY <1>4 DEF ConvertMemo
<1>5. ASSUME NEW s \in Sessions, NEW id \in Ids, NEW lvl \in Levels, NEW who \in Members,
             ApproveRead(s, id, lvl, who) PROVE LockOwns'
  BY <1>5 DEF ApproveRead, Begin
<1>6. ASSUME NEW s \in Sessions, ApproveUpdate(s) PROVE LockOwns'
  BY <1>6 DEF ApproveUpdate, Unlocked
<1>7. ASSUME NEW s \in Sessions, NEW id \in Ids, DeleteVoucher(s, id) PROVE LockOwns'
  BY <1>7 DEF DeleteVoucher, Begin, Unlocked
<1>8. ASSUME NEW s \in Sessions, NEW id \in Ids, SetIrn(s, id) PROVE LockOwns'
  BY <1>8 DEF SetIrn, Begin, Unlocked
<1>9. ASSUME NEW s \in Sessions, CommitCreate(s) PROVE LockOwns'
  BY <1>9 DEF CommitCreate, EndTransaction, Begin
<1>10. ASSUME NEW s \in Sessions, CommitUpdate(s) PROVE LockOwns'
  BY <1>10 DEF CommitUpdate, EndTransaction, Begin
<1>11. ASSUME NEW s \in Sessions, CommitApproval(s) PROVE LockOwns'
  BY <1>11 DEF CommitApproval, EndTransaction, Begin
<1>12. ASSUME NEW s \in Sessions, CommitDelete(s) PROVE LockOwns'
  BY <1>12 DEF CommitDelete, EndTransaction, Begin
<1>13. ASSUME NEW s \in Sessions, CommitIrn(s) PROVE LockOwns'
  BY <1>13 DEF CommitIrn, EndTransaction, Begin
<1>14. ASSUME NEW s \in Sessions, Rollback(s) PROVE LockOwns'
  BY <1>14 DEF Rollback, EndTransaction, Begin
<1>15. CASE UNCHANGED vars
  BY <1>15 DEF vars
<1> QED  BY <1>1, <1>2, <1>3, <1>4, <1>5, <1>6, <1>7, <1>8, <1>9, <1>10, <1>11, <1>12,
          <1>13, <1>14, <1>15
         DEF Next
-----------------------------------------------------------------------------
\* Nothing is owned at the start.
LEMMA OwnInit == Init => OwnInv
  BY VoucherAssumption
     DEF Init, OwnInv, TypeOK, CreateOwns, LockOwns, Creating, Holding, Signing, Row,
          BlankRow,
         NewRow

(***************************************************************************)
(* Ids and locks are owned as CreateOwns and LockOwns say, at every step   *)
(* of every interleaving of sessions.                                      *)
(***************************************************************************)
THEOREM OwnershipCorrect == Spec => []OwnInv
<1>1. OwnInv /\ [Next]_vars => OwnInv'
  BY TypeStep, CreateStep, LockStep DEF OwnInv
<1> QED  BY OwnInit, <1>1, PTL DEF Spec

\* The tables, locks and arguments are of their types.
THEOREM VoucherTypeCorrect == Spec => []TypeOK
  BY OwnershipCorrect, PTL DEF OwnInv

\* A committed voucher keeps its type, book, number and required approvals, and
\* the log only grows.
IssuedKept ==
    /\ \A i \in Ids : Issued(i) =>
          /\ Issued(i)'
          /\ row'[i].type = row[i].type /\ row'[i].book = row[i].book
          /\ row'[i].seq = row[i].seq
          /\ row'[i].require_no_of_approval = row[i].require_no_of_approval
    /\ log \subseteq log'

LEMMA IssuedKeeps == OwnInv /\ [Next]_vars => IssuedKept
<1> SUFFICES ASSUME OwnInv, [Next]_vars PROVE IssuedKept
    OBVIOUS
<1> USE VoucherAssumption DEF OwnInv, TypeOK, CreateOwns, LockOwns, Creating, Holding,
          Issued, tables, locks, args, Row, IssuedKept
<1>1. ASSUME NEW s \in Sessions, NEW id \in Ids, NEW t \in VoucherTypes, NEW b \in Books,
             NEW m \in Ids \cup {None}, CreateVoucher(s, id, t, b, m) PROVE IssuedKept
  BY <1>1 DEF CreateVoucher, Begin
<1>2. ASSUME NEW s \in Sessions, NEW id \in Ids, NEW t \in VoucherTypes, NEW b \in Books,
             NEW m \in Ids \cup {None}, NEW seq \in ManualSeqs, CreateManual(s, id, t, b,
          m, seq) PROVE IssuedKept
  BY <1>2 DEF CreateManual, Begin
<1>3. ASSUME NEW s \in Sessions, NEW id \in Ids, NEW m \in Ids \cup {None},
             UpdateVoucher(s, id, m) PROVE IssuedKept
  BY <1>3 DEF UpdateVoucher, Begin
<1>4. ASSUME NEW s \in Sessions, ConvertMemo(s) PROVE IssuedKept
  BY <1>4 DEF ConvertMemo
<1>5. ASSUME NEW s \in Sessions, NEW id \in Ids, NEW lvl \in Levels, NEW who \in Members,
             ApproveRead(s, id, lvl, who) PROVE IssuedKept
  BY <1>5 DEF ApproveRead, Begin
<1>6. ASSUME NEW s \in Sessions, ApproveUpdate(s) PROVE IssuedKept
  BY <1>6 DEF ApproveUpdate
<1>7. ASSUME NEW s \in Sessions, NEW id \in Ids, DeleteVoucher(s, id) PROVE IssuedKept
  BY <1>7 DEF DeleteVoucher, Begin
<1>8. ASSUME NEW s \in Sessions, NEW id \in Ids, SetIrn(s, id) PROVE IssuedKept
  BY <1>8 DEF SetIrn, Begin
<1>9. ASSUME NEW s \in Sessions, CommitCreate(s) PROVE IssuedKept
  BY <1>9 DEF CommitCreate
<1>10. ASSUME NEW s \in Sessions, CommitUpdate(s) PROVE IssuedKept
  BY <1>10 DEF CommitUpdate
<1>11. ASSUME NEW s \in Sessions, CommitApproval(s) PROVE IssuedKept
  BY <1>11 DEF CommitApproval
<1>12. ASSUME NEW s \in Sessions, CommitDelete(s) PROVE IssuedKept
  BY <1>12 DEF CommitDelete
<1>13. ASSUME NEW s \in Sessions, CommitIrn(s) PROVE IssuedKept
  BY <1>13 DEF CommitIrn
<1>14. ASSUME NEW s \in Sessions, Rollback(s) PROVE IssuedKept
  BY <1>14 DEF Rollback
<1>15. CASE UNCHANGED vars
  BY <1>15 DEF vars
<1> QED  BY <1>1, <1>2, <1>3, <1>4, <1>5, <1>6, <1>7, <1>8, <1>9, <1>10,
            <1>11, <1>12, <1>13, <1>14, <1>15
         DEF Next

\* Only the commit of a creation issues a voucher and a number.
OnlyCreationIssues ==
    \/ \E u \in Sessions : CommitCreate(u)
    \/ numbering' = numbering /\ \A i \in Ids : Issued(i)' => Issued(i)

LEMMA IssuedBy == OwnInv /\ [Next]_vars => OnlyCreationIssues
<1> SUFFICES ASSUME OwnInv, [Next]_vars PROVE OnlyCreationIssues
    OBVIOUS
<1> USE VoucherAssumption DEF OwnInv, TypeOK, CreateOwns, LockOwns, Creating, Holding,
          Issued, tables, locks, args, OnlyCreationIssues
<1>1. ASSUME NEW s \in Sessions, NEW id \in Ids, NEW t \in VoucherTypes, NEW b \in Books,
             NEW m \in Ids \cup {None}, CreateVoucher(s, id, t, b, m)
      PROVE OnlyCreationIssues
  BY <1>1 DEF CreateVoucher, Begin
<1>2. ASSUME NEW s \in Sessions, NEW id \in Ids, NEW t \in VoucherTypes, NEW b \in Books,
             NEW m \in Ids \cup {None}, NEW seq \in ManualSeqs, CreateManual(s, id, t, b,
          m, seq) PROVE OnlyCreationIssues
  BY <1>2 DEF CreateManual, Begin
<1>3. ASSUME NEW s \in Sessions, NEW id \in Ids, NEW m \in Ids \cup {None},
             UpdateVoucher(s, id, m) PROVE OnlyCreationIssues
  BY <1>3 DEF UpdateVoucher, Begin
<1>4. ASSUME NEW s \in Sessions, ConvertMemo(s) PROVE OnlyCreationIssues
  BY <1>4 DEF ConvertMemo
<1>5. ASSUME NEW s \in Sessions, NEW id \in Ids, NEW lvl \in Levels, NEW who \in Members,
             ApproveRead(s, id, lvl, who) PROVE OnlyCreationIssues
  BY <1>5 DEF ApproveRead, Begin
<1>6. ASSUME NEW s \in Sessions, ApproveUpdate(s) PROVE OnlyCreationIssues
  BY <1>6 DEF ApproveUpdate
<1>7. ASSUME NEW s \in Sessions, NEW id \in Ids, DeleteVoucher(s, id)
      PROVE OnlyCreationIssues
  BY <1>7 DEF DeleteVoucher, Begin
<1>8. ASSUME NEW s \in Sessions, NEW id \in Ids, SetIrn(s, id) PROVE OnlyCreationIssues
  BY <1>8 DEF SetIrn, Begin
<1>9. ASSUME NEW s \in Sessions, CommitCreate(s) PROVE OnlyCreationIssues
  BY <1>9 DEF CommitCreate
<1>10. ASSUME NEW s \in Sessions, CommitUpdate(s) PROVE OnlyCreationIssues
  BY <1>10 DEF CommitUpdate
<1>11. ASSUME NEW s \in Sessions, CommitApproval(s) PROVE OnlyCreationIssues
  BY <1>11 DEF CommitApproval
<1>12. ASSUME NEW s \in Sessions, CommitDelete(s) PROVE OnlyCreationIssues
  BY <1>12 DEF CommitDelete
<1>13. ASSUME NEW s \in Sessions, CommitIrn(s) PROVE OnlyCreationIssues
  BY <1>13 DEF CommitIrn
<1>14. ASSUME NEW s \in Sessions, Rollback(s) PROVE OnlyCreationIssues
  BY <1>14 DEF Rollback
<1>15. CASE UNCHANGED vars
  BY <1>15 DEF vars
<1> QED  BY <1>1, <1>2, <1>3, <1>4, <1>5, <1>6, <1>7, <1>8, <1>9, <1>10,
            <1>11, <1>12, <1>13, <1>14, <1>15
         DEF Next

\* How the approval of a voucher comes about: it stays, it starts at 0, or a signer's
\* transaction commits.
ApprovalMoves ==
    \A i \in Ids : status'[i] = "live" =>
        \/ /\ status[i] = "live" /\ row'[i].approval_state = row[i].approval_state
           /\ "NEW" \in unreleased'[i] => "NEW" \in unreleased[i] \/ ~FullyApproved(i)
        \/ /\ row'[i].approval_state = 0
           /\ row'[i].require_no_of_approval = 0 => "NEW" \notin unreleased'[i]
        \/ \E u \in Sessions :
              /\ op[u] = "approved" /\ target[u] = i /\ row'[i].approval_state = level[u]
              /\ <<signer[u], i, level[u]>> \in log'
              /\ row'[i].require_no_of_approval = level[u] => "NEW" \notin unreleased'[i]

LEMMA ApprovalSteps == OwnInv /\ [Next]_vars => ApprovalMoves
<1> SUFFICES ASSUME OwnInv, [Next]_vars PROVE ApprovalMoves
    OBVIOUS
<1> USE VoucherAssumption DEF OwnInv, TypeOK, CreateOwns, LockOwns, Creating, Holding,
          Issued, tables, locks, args, Row, ApprovalMoves
<1>1. ASSUME NEW s \in Sessions, NEW id \in Ids, NEW t \in VoucherTypes, NEW b \in Books,
             NEW m \in Ids \cup {None}, CreateVoucher(s, id, t, b, m) PROVE ApprovalMoves
  BY <1>1 DEF CreateVoucher, Begin
<1>2. ASSUME NEW s \in Sessions, NEW id \in Ids, NEW t \in VoucherTypes, NEW b \in Books,
             NEW m \in Ids \cup {None}, NEW seq \in ManualSeqs, CreateManual(s, id, t, b,
          m, seq) PROVE ApprovalMoves
  BY <1>2 DEF CreateManual, Begin
<1>3. ASSUME NEW s \in Sessions, NEW id \in Ids, NEW m \in Ids \cup {None},
             UpdateVoucher(s, id, m) PROVE ApprovalMoves
  BY <1>3 DEF UpdateVoucher, Begin
<1>4. ASSUME NEW s \in Sessions, ConvertMemo(s) PROVE ApprovalMoves
  BY <1>4 DEF ConvertMemo
<1>5. ASSUME NEW s \in Sessions, NEW id \in Ids, NEW lvl \in Levels, NEW who \in Members,
             ApproveRead(s, id, lvl, who) PROVE ApprovalMoves
  BY <1>5 DEF ApproveRead, Begin
<1>6. ASSUME NEW s \in Sessions, ApproveUpdate(s) PROVE ApprovalMoves
  BY <1>6 DEF ApproveUpdate
<1>7. ASSUME NEW s \in Sessions, NEW id \in Ids, DeleteVoucher(s, id) PROVE ApprovalMoves
  BY <1>7 DEF DeleteVoucher, Begin
<1>8. ASSUME NEW s \in Sessions, NEW id \in Ids, SetIrn(s, id) PROVE ApprovalMoves
  BY <1>8 DEF SetIrn, Begin
<1>9. ASSUME NEW s \in Sessions, CommitCreate(s) PROVE ApprovalMoves
  <2> DEFINE id == target[s]
  <2>1. /\ op[s] = "create" /\ row' = row
        /\ \A i \in Ids : status'[i] = "live" => i = id \/ status[i] = "live"
    BY <1>9 DEF CommitCreate
  <2>2. id \in Ids /\ status[id] = "taken" /\ row[id].approval_state = 0
    BY <2>1
  <2>3. PICK u \in Inserts(id),
               freed \in SUBSET (IF memo[s] = None THEN {} ELSE Adjusting \ {memo[s]}) :
           unreleased' = [Cascade(memo[s], freed) EXCEPT ![id] = u]
    <3> HIDE DEF OwnInv, TypeOK, CreateOwns, LockOwns
    <3> QED  BY <1>9, Zenon DEF CommitCreate
  <2>4. /\ unreleased'[id] = u
        /\ \A i \in Ids \ {id} : "NEW" \in unreleased'[i] => "NEW" \in unreleased[i]
    BY <2>2, <2>3, CascadeTypes
  <2>5. FullyApproved(id) => "NEW" \notin u
    BY DEF Inserts
  <2> HIDE DEF id, OwnInv, TypeOK, CreateOwns, LockOwns
  <2> QED  BY <2>1, <2>2, <2>4, <2>5 DEF FullyApproved
<1>10. ASSUME NEW s \in Sessions, CommitUpdate(s) PROVE ApprovalMoves
  <2> DEFINE id == target[s]
  <2>1. /\ op[s] = "update" /\ row' = row
        /\ \A i \in Ids : status'[i] = "live" => status[i] = "live"
    BY <1>10 DEF CommitUpdate
  <2>2. id \in Ids
    BY <2>1
  <2>3. PICK u \in Edits(id), freed \in SUBSET (Adjusting \ {id, memo[s]}) :
           unreleased' = [Cascade(memo[s], freed) EXCEPT ![id] = IF id = memo[s] THEN {} ELSE u]
    <3> HIDE DEF OwnInv, TypeOK, CreateOwns, LockOwns
    <3> QED  BY <1>10, Zenon DEF CommitUpdate
  <2>4. /\ "NEW" \in unreleased'[id] => "NEW" \in u
        /\ \A i \in Ids \ {id} : "NEW" \in unreleased'[i] => "NEW" \in unreleased[i]
    BY <2>2, <2>3, CascadeTypes
  <2>5. "NEW" \in u => "NEW" \in unreleased[id] \/ ~FullyApproved(id)
    BY DEF Edits
  <2> HIDE DEF id, OwnInv, TypeOK, CreateOwns, LockOwns
  <2> QED  BY <2>1, <2>2, <2>4, <2>5
<1>11. ASSUME NEW s \in Sessions, CommitApproval(s) PROVE ApprovalMoves
  BY <1>11 DEF CommitApproval
<1>12. ASSUME NEW s \in Sessions, CommitDelete(s) PROVE ApprovalMoves
  <2>1. /\ row' = row /\ \A i \in Ids : status'[i] = "live" => status[i] = "live"
    BY <1>12 DEF CommitDelete
  <2>2. \A i \in Ids : "NEW" \in unreleased'[i] => "NEW" \in unreleased[i]
    BY <1>12, CascadeTypes DEF CommitDelete
  <2> HIDE DEF OwnInv, TypeOK, CreateOwns, LockOwns
  <2> QED  BY <2>1, <2>2
<1>13. ASSUME NEW s \in Sessions, CommitIrn(s) PROVE ApprovalMoves
  BY <1>13 DEF CommitIrn
<1>14. ASSUME NEW s \in Sessions, Rollback(s) PROVE ApprovalMoves
  BY <1>14 DEF Rollback
<1>15. CASE UNCHANGED vars
  BY <1>15 DEF vars
<1> QED  BY <1>1, <1>2, <1>3, <1>4, <1>5, <1>6, <1>7, <1>8, <1>9, <1>10,
            <1>11, <1>12, <1>13, <1>14, <1>15
         DEF Next

\* An approval in progress keeps its arguments, or has just read the voucher.
SigningMoves ==
    \A u \in Sessions : Signing(u)' =>
        \/ /\ Signing(u) /\ target'[u] = target[u] /\ level'[u] = level[u]
           /\ signer'[u] = signer[u]
        \/ /\ status[target'[u]] = "live" /\ row[target'[u]].approval_state = level'[u] - 1
           /\ signer'[u] \in Tag[row[target'[u]].type][level'[u]]

LEMMA SigningSteps == OwnInv /\ [Next]_vars => SigningMoves
<1> SUFFICES ASSUME OwnInv, [Next]_vars PROVE SigningMoves
    OBVIOUS
<1> USE VoucherAssumption DEF OwnInv, TypeOK, LockOwns, Holding, Signing, tables, locks,
          args, SigningMoves
<1>1. ASSUME NEW s \in Sessions, NEW id \in Ids, NEW t \in VoucherTypes, NEW b \in Books,
             NEW m \in Ids \cup {None}, CreateVoucher(s, id, t, b, m) PROVE SigningMoves
  BY <1>1 DEF CreateVoucher, Begin
<1>2. ASSUME NEW s \in Sessions, NEW id \in Ids, NEW t \in VoucherTypes, NEW b \in Books,
             NEW m \in Ids \cup {None}, NEW seq \in ManualSeqs, CreateManual(s, id, t, b,
          m, seq) PROVE SigningMoves
  BY <1>2 DEF CreateManual, Begin
<1>3. ASSUME NEW s \in Sessions, NEW id \in Ids, NEW m \in Ids \cup {None},
             UpdateVoucher(s, id, m) PROVE SigningMoves
  BY <1>3 DEF UpdateVoucher, Begin
<1>4. ASSUME NEW s \in Sessions, ConvertMemo(s) PROVE SigningMoves
  BY <1>4 DEF ConvertMemo
<1>5. ASSUME NEW s \in Sessions, NEW id \in Ids, NEW lvl \in Levels, NEW who \in Members,
             ApproveRead(s, id, lvl, who) PROVE SigningMoves
  BY <1>5 DEF ApproveRead, Begin
<1>6. ASSUME NEW s \in Sessions, ApproveUpdate(s) PROVE SigningMoves
  BY <1>6 DEF ApproveUpdate
<1>7. ASSUME NEW s \in Sessions, NEW id \in Ids, DeleteVoucher(s, id) PROVE SigningMoves
  BY <1>7 DEF DeleteVoucher, Begin
<1>8. ASSUME NEW s \in Sessions, NEW id \in Ids, SetIrn(s, id) PROVE SigningMoves
  BY <1>8 DEF SetIrn, Begin
<1>9. ASSUME NEW s \in Sessions, CommitCreate(s) PROVE SigningMoves
  BY <1>9 DEF CommitCreate, EndTransaction, Begin
<1>10. ASSUME NEW s \in Sessions, CommitUpdate(s) PROVE SigningMoves
  BY <1>10 DEF CommitUpdate, EndTransaction, Begin
<1>11. ASSUME NEW s \in Sessions, CommitApproval(s) PROVE SigningMoves
  BY <1>11 DEF CommitApproval, EndTransaction, Begin
<1>12. ASSUME NEW s \in Sessions, CommitDelete(s) PROVE SigningMoves
  BY <1>12 DEF CommitDelete, EndTransaction, Begin
<1>13. ASSUME NEW s \in Sessions, CommitIrn(s) PROVE SigningMoves
  BY <1>13 DEF CommitIrn, EndTransaction, Begin
<1>14. ASSUME NEW s \in Sessions, Rollback(s) PROVE SigningMoves
  BY <1>14 DEF Rollback, EndTransaction, Begin
<1>15. CASE UNCHANGED vars
  BY <1>15 DEF vars
<1> QED  BY <1>1, <1>2, <1>3, <1>4, <1>5, <1>6, <1>7, <1>8, <1>9, <1>10,
            <1>11, <1>12, <1>13, <1>14, <1>15
         DEF Next

-----------------------------------------------------------------------------
(* Numbers *)

\* No committed number is beyond its sequence: with it, NumbersAreARun is inductive.
NumbersBounded ==
    \A id \in Ids : Numbered(id) => row[id].seq \in 1..numbering[Key(id)]

NumInv == NumbersBounded /\ NumbersAreARun

\* At the start no voucher is numbered and every sequence is empty.
LEMMA NumInit == Init => NumInv
  BY DEF Init, NumInv, NumbersBounded, NumbersAreARun, Numbered, Issued

\* Every step keeps the run: a commit adds the number its lock has kept for it,
\* any other step changes no committed number.
LEMMA NumStep == OwnInv /\ NumInv /\ [Next]_vars => NumInv'
<1> SUFFICES ASSUME OwnInv, NumInv, [Next]_vars PROVE NumInv'
    OBVIOUS
<1>1. TypeOK /\ TypeOK'
  BY TypeStep DEF OwnInv
<1>2. \A i \in Ids : Key(i) \in Keys /\ Key(i)' \in Keys
  BY <1>1 DEF TypeOK, Key, Keys, Row
<1>3. \A i \in Ids : Issued(i) =>
        /\ Issued(i)' /\ row'[i].seq = row[i].seq /\ Key(i)' = Key(i)
        /\ Numbered(i)' <=> Numbered(i)
  BY IssuedKeeps DEF IssuedKept, Key, Numbered
<1>4. CASE numbering' = numbering /\ \A i \in Ids : Issued(i)' => Issued(i)
  <2>1. \A i \in Ids : Numbered(i)' => Numbered(i) /\ row'[i].seq = row[i].seq /\ Key(i)' = Key(i)
    BY <1>3, <1>4 DEF Numbered
  <2>2. \A i \in Ids : Numbered(i) => Numbered(i)' /\ row'[i].seq = row[i].seq /\ Key(i)' = Key(i)
    BY <1>3 DEF Numbered
  <2>3. NumbersBounded'
    BY <1>4, <2>1 DEF NumInv, NumbersBounded
  <2>4. \A i, j \in Ids :
           Numbered(i)' /\ Numbered(j)' /\ i # j /\ Key(i)' = Key(j)' => row'[i].seq # row'[j].seq
    BY <2>1 DEF NumInv, NumbersAreARun
  <2>5. \A k \in Keys : \A n \in 1..numbering[k] :
           \E id \in Ids : Numbered(id)' /\ Key(id)' = k /\ row'[id].seq = n
    BY <2>2 DEF NumInv, NumbersAreARun
  <2> QED  BY <1>4, <2>3, <2>4, <2>5 DEF NumInv, NumbersAreARun
<1>5. ASSUME NEW s \in Sessions, CommitCreate(s) PROVE NumInv'
  <2> DEFINE new == target[s]
             key == Key(new)
  <2>1. /\ new \in Ids /\ status[new] = "taken" /\ row' = row
        /\ numbering' = [k \in Keys |-> IF numLock[k] = s THEN row[new].seq ELSE numbering[k]]
    BY <1>5 DEF CommitCreate, OwnInv, CreateOwns, Creating
  <2>2. \A i \in Ids : Issued(i)' <=> Issued(i) \/ i = new
    BY <1>5, VoucherAssumption DEF CommitCreate, Issued, OwnInv, TypeOK, LockOwns
  <2>3. \A i \in Ids : Key(i)' = Key(i)
    BY <2>1 DEF Key
  <2>4. key \in Keys /\ ~Issued(new)
    BY <1>2, <2>1 DEF Issued
  <2>5. row[new].type \in AutoSequence => numLock[key] = s /\ row[new].seq = numbering[key] + 1
    BY <1>5 DEF CommitCreate, OwnInv, CreateOwns, Creating
  <2>6. \A k \in Keys : numLock[k] = s => row[new].type \in AutoSequence /\ k = key
    BY <1>5 DEF OwnInv, CreateOwns
  <2>7. \A i \in Ids : Numbered(i)' <=> Numbered(i) \/ (i = new /\ row[new].type \in AutoSequence)
    BY <2>1, <2>2 DEF Numbered
  <2>8. \A k \in Keys : numbering[k] \in Nat
    BY <1>1 DEF TypeOK
  <2> HIDE DEF new, key
  <2>9. CASE row[new].type \in AutoSequence
    <3>1. /\ numbering'[key] = numbering[key] + 1
          /\ \A k \in Keys : k # key => numbering'[k] = numbering[k]
      BY <2>1, <2>4, <2>5, <2>6, <2>9
    <3>2. \A i \in Ids : Numbered(i) => i # new
      BY <2>4 DEF Numbered
    <3>3. key = Key(new)
      BY DEF key
    <3>4. \A i \in Ids : Numbered(i) => row[i].seq \in 1..numbering[Key(i)]
      BY DEF NumInv, NumbersBounded
    <3>5. \A i \in Ids : Numbered(i)' => row'[i].seq \in 1..numbering'[Key(i)']
      <4> SUFFICES ASSUME NEW i \in Ids, Numbered(i)'
                   PROVE  row[i].seq \in 1..numbering'[Key(i)]
        BY <2>1, <2>3
      <4>1. CASE i = new
        BY <4>1, <2>4, <2>5, <2>8, <2>9, <3>1, <3>3
      <4>2. CASE i # new
        <5>1. Numbered(i) /\ Key(i) \in Keys
          BY <4>2, <2>7, <1>2
        <5>2. row[i].seq \in 1..numbering[Key(i)] /\ numbering[Key(i)] \in Nat
          BY <5>1, <3>4, <2>8
        <5>3. numbering'[Key(i)] = numbering[Key(i)] \/ numbering'[Key(i)] = numbering[Key(i)] + 1
          BY <5>1, <3>1
        <5> QED  BY <5>2, <5>3
      <4> QED  BY <4>1, <4>2
    <3>6. \A i, j \in Ids :
             Numbered(i)' /\ Numbered(j)' /\ i # j /\ Key(i)' = Key(j)' => row'[i].seq # row'[j].seq
      <4> SUFFICES ASSUME NEW i \in Ids, NEW j \in Ids, Numbered(i)', Numbered(j)', i # j,
                          Key(i) = Key(j)
                   PROVE  row[i].seq # row[j].seq
        BY <2>1, <2>3
      <4>1. CASE i # new /\ j # new
        BY <4>1, <2>7 DEF NumInv, NumbersAreARun
      <4>2. CASE i = new
        <5>1. Numbered(j) /\ row[j].seq \in 1..numbering[key] /\ row[i].seq = numbering[key] + 1
          BY <4>2, <2>5, <2>7, <2>9, <3>3, <3>4
        <5> QED  BY <5>1, <2>4, <2>8
      <4>3. CASE j = new
        <5>1. Numbered(i) /\ row[i].seq \in 1..numbering[key] /\ row[j].seq = numbering[key] + 1
          BY <4>3, <2>5, <2>7, <2>9, <3>3, <3>4
        <5> QED  BY <5>1, <2>4, <2>8
      <4> QED  BY <4>1, <4>2, <4>3
    <3>7. \A k \in Keys : \A n \in 1..numbering'[k] :
             \E id \in Ids : Numbered(id)' /\ Key(id)' = k /\ row'[id].seq = n
      <4> SUFFICES ASSUME NEW k \in Keys, NEW n \in 1..numbering'[k]
                   PROVE  \E id \in Ids : Numbered(id)' /\ Key(id) = k /\ row[id].seq = n
        BY <2>1, <2>3
      <4>1. CASE n \in 1..numbering[k]
        BY <4>1, <2>7 DEF NumInv, NumbersAreARun
      <4>2. CASE n \notin 1..numbering[k]
        <5>1. k = key /\ n = numbering[key] + 1
          BY <4>2, <2>8, <3>1
        <5> QED  BY <5>1, <2>1, <2>5, <2>7, <2>9, <3>3
      <4> QED  BY <4>1, <4>2
    <3> QED  BY <3>5, <3>6, <3>7 DEF NumInv, NumbersBounded, NumbersAreARun
  <2>10. CASE row[new].type \notin AutoSequence
    <3>1. \A k \in Keys : numbering'[k] = numbering[k]
      BY <2>1, <2>6, <2>10
    <3>2. \A i \in Ids : Numbered(i)' <=> Numbered(i)
      BY <2>7, <2>10
    <3>3. NumbersBounded'
      BY <1>2, <2>1, <2>3, <3>1, <3>2 DEF NumInv, NumbersBounded
    <3>4. NumbersAreARun'
      BY <1>2, <2>1, <2>3, <3>1, <3>2 DEF NumInv, NumbersAreARun
    <3> QED  BY <3>3, <3>4 DEF NumInv
  <2> QED  BY <2>9, <2>10
<1> QED  BY <1>4, <1>5, IssuedBy DEF OnlyCreationIssues

(***************************************************************************)
(* Committed vouchers of one branch, financial year and sequence carry the *)
(* numbers 1, 2, 3, ... without repetition or gap, for any number of       *)
(* overlapping sessions.                                                   *)
(***************************************************************************)
THEOREM NumbersCorrect == Spec => []NumbersAreARun
<1>1. NumInv => NumbersAreARun
  BY DEF NumInv
<1> QED  BY OwnershipCorrect, NumInit, NumStep, <1>1, PTL DEF Spec

-----------------------------------------------------------------------------
(* Approvals *)

SignedAt(id, n) == \E who \in Tag[row[id].type][n] : <<who, id, n>> \in log

\* A signer in progress may sign its level, and the levels below are signed, though
\* the voucher may have moved on since it was read.
SignersQualified ==
    \A s \in Sessions : Signing(s) =>
        /\ signer[s] \in Tag[row[target[s]].type][level[s]]
        /\ \A n \in 1..(level[s] - 1) : SignedAt(target[s], n)

ApprInv == EveryLevelSigned /\ SignersQualified /\ FullyApprovedIsReleased

\* At the start there is no voucher and no signer.
LEMMA ApprInit == Init => ApprInv
  BY DEF Init, ApprInv, EveryLevelSigned, SignersQualified, FullyApprovedIsReleased, Signing

\* A signature stays with its voucher.
LEMMA SignedStays ==
    ASSUME OwnInv, [Next]_vars, NEW id \in Ids, NEW n, Issued(id), SignedAt(id, n)
    PROVE  SignedAt(id, n)'
  BY IssuedKeeps DEF IssuedKept, SignedAt

\* Every step keeps the approvals backed by signatures and the bills released.
LEMMA ApprStep == OwnInv /\ ApprInv /\ [Next]_vars => ApprInv'
<1> SUFFICES ASSUME OwnInv, ApprInv, [Next]_vars PROVE ApprInv'
    OBVIOUS
<1>1. TypeOK /\ TypeOK'
  BY TypeStep DEF OwnInv
<1>2. \A u \in Sessions : Signing(u) =>
         /\ target[u] \in Ids /\ Issued(target[u]) /\ level[u] \in Levels
         /\ signer[u] \in Tag[row[target[u]].type][level[u]]
         /\ \A n \in 1..(level[u] - 1) : SignedAt(target[u], n)
  BY DEF OwnInv, LockOwns, Signing, Holding, Issued, ApprInv, SignersQualified
<1>3. \A i \in Ids : status[i] = "live" =>
         Issued(i) /\ \A n \in 1..row[i].approval_state : SignedAt(i, n)
  BY DEF ApprInv, EveryLevelSigned, SignedAt, Issued
<1>4. EveryLevelSigned'
  <2> SUFFICES ASSUME NEW i \in Ids, status'[i] = "live", NEW n \in 1..row'[i].approval_state
               PROVE  SignedAt(i, n)'
    BY DEF EveryLevelSigned, SignedAt
  <2>1. CASE status[i] = "live" /\ row'[i].approval_state = row[i].approval_state
    BY <2>1, <1>3, SignedStays
  <2>2. CASE row'[i].approval_state = 0
    BY <2>2
  <2>3. ASSUME NEW u \in Sessions, op[u] = "approved", target[u] = i,
               row'[i].approval_state = level[u], <<signer[u], i, level[u]>> \in log'
        PROVE  SignedAt(i, n)'
    <3>1. Signing(u)
      BY <2>3 DEF Signing
    <3>2. CASE n = level[u]
      BY <3>1, <3>2, <1>2, <2>3, IssuedKeeps DEF IssuedKept, SignedAt
    <3>3. CASE n # level[u]
      <4>1. n \in 1..(level[u] - 1)
        BY <3>1, <3>3, <1>2, <2>3 DEF Levels
      <4> QED  BY <4>1, <3>1, <1>2, <2>3, SignedStays
    <3> QED  BY <3>2, <3>3
  <2> QED  BY <2>1, <2>2, <2>3, ApprovalSteps DEF ApprovalMoves
<1>5. SignersQualified'
  <2> SUFFICES ASSUME NEW u \in Sessions, Signing(u)'
               PROVE  /\ signer'[u] \in Tag[row'[target'[u]].type][level'[u]]
                      /\ \A n \in 1..(level'[u] - 1) : SignedAt(target[u], n)'
    BY DEF SignersQualified
  <2>1. CASE Signing(u) /\ target'[u] = target[u] /\ level'[u] = level[u] /\ signer'[u] = signer[u]
    <3>1. signer'[u] \in Tag[row'[target'[u]].type][level'[u]]
      BY <2>1, <1>2, IssuedKeeps DEF IssuedKept
    <3>2. \A n \in 1..(level[u] - 1) : SignedAt(target[u], n)'
      BY <2>1, <1>2, IssuedKeeps DEF IssuedKept, SignedAt
    <3> QED  BY <3>1, <3>2, <2>1
  <2>2. CASE /\ status[target'[u]] = "live" /\ row[target'[u]].approval_state = level'[u] - 1
             /\ signer'[u] \in Tag[row[target'[u]].type][level'[u]]
    <3>1. target'[u] \in Ids
      BY LockStep DEF LockOwns, Signing, Holding
    <3>2. Issued(target'[u]) /\ \A n \in 1..(level'[u] - 1) : SignedAt(target'[u], n)
      BY <3>1, <2>2, <1>3
    <3>3. \A n \in 1..(level'[u] - 1) : SignedAt(target[u], n)'
      BY <3>1, <3>2, IssuedKeeps DEF IssuedKept, SignedAt
    <3>4. signer'[u] \in Tag[row'[target'[u]].type][level'[u]]
      BY <3>1, <3>2, <2>2, IssuedKeeps DEF IssuedKept
    <3> QED  BY <3>3, <3>4
  <2> QED  BY <2>1, <2>2, SigningSteps DEF SigningMoves
<1>6. FullyApprovedIsReleased'
  <2> SUFFICES ASSUME NEW i \in Ids, status'[i] = "live",
                      row'[i].approval_state = row'[i].require_no_of_approval
               PROVE  "NEW" \notin unreleased'[i]
    BY DEF FullyApprovedIsReleased, FullyApproved
  <2>1. CASE /\ status[i] = "live" /\ row'[i].approval_state = row[i].approval_state
             /\ "NEW" \in unreleased'[i] => "NEW" \in unreleased[i] \/ ~FullyApproved(i)
    BY <2>1, IssuedKeeps
    DEF IssuedKept, Issued, ApprInv, FullyApprovedIsReleased, FullyApproved
  <2>2. CASE row'[i].require_no_of_approval = row'[i].approval_state => "NEW" \notin unreleased'[i]
    BY <2>2
  <2> QED  BY <2>1, <2>2, ApprovalSteps DEF ApprovalMoves
<1> QED  BY <1>4, <1>5, <1>6 DEF ApprInv

\* The approvals of every reachable state.
LEMMA ApprovalInvariant == Spec => []ApprInv
  BY OwnershipCorrect, ApprInit, ApprStep, PTL DEF Spec

(***************************************************************************)
(* Each level up to a voucher's approval_state was signed by a member of   *)
(* that level's tag, although approve_voucher checks an unlocked row.      *)
(***************************************************************************)
THEOREM EveryLevelSignedCorrect == Spec => []EveryLevelSigned
  BY ApprovalInvariant, PTL DEF ApprInv

(***************************************************************************)
(* A fully approved voucher has every allocation released that has been    *)
(* NEW all along, whatever was edited, freed, overlapped or lowered.       *)
(***************************************************************************)
THEOREM FullyApprovedCorrect == Spec => []FullyApprovedIsReleased
  BY ApprovalInvariant, PTL DEF ApprInv

\* What is deleted is unsigned: the row lock keeps signatures away.
SignedMoves ==
    \A i \in Ids : Logged(i) /\ status[i] = "live" => status'[i] = "live"

LEMMA SignedSteps == OwnInv /\ [Next]_vars => SignedMoves
<1> SUFFICES ASSUME OwnInv, [Next]_vars PROVE SignedMoves
    OBVIOUS
<1> USE VoucherAssumption DEF OwnInv, TypeOK, CreateOwns, LockOwns, Creating, Holding,
          Logged, tables, locks, args, SignedMoves
<1>1. ASSUME NEW s \in Sessions, NEW id \in Ids, NEW t \in VoucherTypes, NEW b \in Books,
             NEW m \in Ids \cup {None}, CreateVoucher(s, id, t, b, m) PROVE SignedMoves
  BY <1>1 DEF CreateVoucher, Begin
<1>2. ASSUME NEW s \in Sessions, NEW id \in Ids, NEW t \in VoucherTypes, NEW b \in Books,
             NEW m \in Ids \cup {None}, NEW seq \in ManualSeqs, CreateManual(s, id, t, b,
          m, seq) PROVE SignedMoves
  BY <1>2 DEF CreateManual, Begin
<1>3. ASSUME NEW s \in Sessions, NEW id \in Ids, NEW m \in Ids \cup {None},
             UpdateVoucher(s, id, m) PROVE SignedMoves
  BY <1>3 DEF UpdateVoucher, Begin
<1>4. ASSUME NEW s \in Sessions, ConvertMemo(s) PROVE SignedMoves
  BY <1>4 DEF ConvertMemo
<1>5. ASSUME NEW s \in Sessions, NEW id \in Ids, NEW lvl \in Levels, NEW who \in Members,
             ApproveRead(s, id, lvl, who) PROVE SignedMoves
  BY <1>5 DEF ApproveRead, Begin
<1>6. ASSUME NEW s \in Sessions, ApproveUpdate(s) PROVE SignedMoves
  BY <1>6 DEF ApproveUpdate
<1>7. ASSUME NEW s \in Sessions, NEW id \in Ids, DeleteVoucher(s, id) PROVE SignedMoves
  BY <1>7 DEF DeleteVoucher, Begin
<1>8. ASSUME NEW s \in Sessions, NEW id \in Ids, SetIrn(s, id) PROVE SignedMoves
  BY <1>8 DEF SetIrn, Begin
<1>9. ASSUME NEW s \in Sessions, CommitCreate(s) PROVE SignedMoves
  BY <1>9, SMTT(30) DEF CommitCreate
<1>10. ASSUME NEW s \in Sessions, CommitUpdate(s) PROVE SignedMoves
  BY <1>10 DEF CommitUpdate
<1>11. ASSUME NEW s \in Sessions, CommitApproval(s) PROVE SignedMoves
  BY <1>11 DEF CommitApproval
<1>12. ASSUME NEW s \in Sessions, CommitDelete(s) PROVE SignedMoves
  BY <1>12 DEF CommitDelete
<1>13. ASSUME NEW s \in Sessions, CommitIrn(s) PROVE SignedMoves
  BY <1>13 DEF CommitIrn
<1>14. ASSUME NEW s \in Sessions, Rollback(s) PROVE SignedMoves
  BY <1>14 DEF Rollback
<1>15. CASE UNCHANGED vars
  BY <1>15 DEF vars
<1> QED  BY <1>1, <1>2, <1>3, <1>4, <1>5, <1>6, <1>7, <1>8, <1>9, <1>10,
            <1>11, <1>12, <1>13, <1>14, <1>15
         DEF Next

(***************************************************************************)
(* No step of any session deletes a voucher that somebody signed.          *)
(***************************************************************************)
THEOREM SignedIsKeptCorrect == Spec => SignedIsKept
<1> DEFINE Kept == \A id \in Ids : Logged(id) /\ status[id] = "live" => status'[id] = "live"
<1>1. OwnInv /\ [Next]_vars => [Kept]_vars
  BY SignedSteps DEF SignedMoves
<1> QED  BY OwnershipCorrect, <1>1, PTL DEF Spec, SignedIsKept
=============================================================================

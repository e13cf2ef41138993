-------------------------- MODULE RpcSessionProofs --------------------------
(* Theorems about RpcSession, for any number of requests, any pool and any *)
(* number of broadcasts.                                                   *)
EXTENDS RpcSession, FiniteSetTheorems, TLAPS

\* The pool never gets fuller when no transaction is opened.
LEMMA PoolKept ==
    ASSUME Cardinality(Open) <= PoolSize, Open' \subseteq Open
    PROVE  Cardinality(Open') <= PoolSize
<1>1. IsFiniteSet(Open)
    BY NamesAssumption, FS_Subset DEF Open
<1>2. IsFiniteSet(Open') /\ Cardinality(Open') <= Cardinality(Open)
    BY <1>1, FS_Subset
<1> HIDE DEF Open
<1> QED  BY <1>1, <1>2, FS_CardinalityType, SizeAssumption

\* begin() takes one connection of the pool, when one is left.
LEMMA PoolTaken ==
    ASSUME NEW r \in Requests, Cardinality(Open) < PoolSize, Open' \subseteq Open \cup {r}
    PROVE  Cardinality(Open') <= PoolSize
<1>1. IsFiniteSet(Open)
    BY NamesAssumption, FS_Subset DEF Open
<1> DEFINE S == Open \cup {r}
<1>2. IsFiniteSet(S) /\ Cardinality(S) <= Cardinality(Open) + 1
    BY <1>1, FS_AddElement, FS_CardinalityType
<1>3. IsFiniteSet(Open') /\ Cardinality(Open') <= Cardinality(S)
    BY <1>2, FS_Subset
<1>4. Cardinality(Open) \in Nat /\ Cardinality(S) \in Nat /\ Cardinality(Open') \in Nat
    BY <1>1, <1>2, <1>3, FS_CardinalityType
<1> HIDE DEF Open, S
<1> QED  BY <1>2, <1>3, <1>4, SizeAssumption

\* What a step may do to the waiting list of the lock: leave it alone, queue
\* h, serve the first in line, who may ask again at once.
QueueMove(h) ==
    \/ queue' = queue
    \/ queue' = Append(queue, <<h, "read">>) \/ queue' = Append(queue, <<h, "write">>)
    \/ /\ queue # <<>>
       /\ queue' = Tail(queue) \/ queue' = Append(Tail(queue), <<h, "read">>)

\* Such moves stay among the sequences over a set.
LEMMA SeqMoves ==
    ASSUME NEW S, NEW q \in Seq(S), NEW e \in S
    PROVE  /\ Append(q, e) \in Seq(S)
           /\ q # <<>> => Tail(q) \in Seq(S) /\ Append(Tail(q), e) \in Seq(S)
    OBVIOUS

\* The waiting list keeps its type.
LEMMA QueueKept ==
    ASSUME queue \in Seq(Holders \X {"read", "write"}), NEW h \in Holders, QueueMove(h)
    PROVE  queue' \in Seq(Holders \X {"read", "write"})
<1> DEFINE S == Holders \X {"read", "write"}
<1> DEFINE Reads == <<h, "read">>
<1> DEFINE Writes == <<h, "write">>
<1>1. queue \in Seq(S) /\ Reads \in S /\ Writes \in S
    OBVIOUS
<1>2. \/ queue' = queue \/ queue' = Append(queue, Reads) \/ queue' = Append(queue, Writes)
      \/ queue # <<>> /\ (queue' = Tail(queue) \/ queue' = Append(Tail(queue), Reads))
    BY DEF QueueMove
<1> HIDE DEF S, Reads, Writes
<1>3. queue' \in Seq(S)
    BY <1>1, <1>2, SeqMoves
<1> QED  BY <1>3 DEF S

\* Every step keeps the types and the bound of the pool.
LEMMA TypeStep == TypeOK /\ [Next]_vars => TypeOK'
<1> SUFFICES ASSUME TypeOK, [Next]_vars PROVE TypeOK'
    OBVIOUS
<1> USE OperationsAssumption, SizeAssumption
        DEF TypeOK, Labels, AllOperations, Guards, Goto, Answer, EndTxn, Ask, lock, outside
<1>1. ASSUME NEW r \in Requests, Start(r) \/ LimitLocked(r) PROVE TypeOK'
  <2>1. Open' \subseteq Open
      BY <1>1 DEF Start, LimitLocked, Open
  <2>2. QueueMove(r)
      BY <1>1 DEF QueueMove, Start, LimitLocked, Granted
  <2>3. queue' \in Seq(Holders \X {"read", "write"})
      BY <2>2, QueueKept DEF Holders
  <2> QED  BY <1>1, <2>1, <2>3, PoolKept DEF Start, LimitLocked, Holders
<1>16. ASSUME NEW r \in Requests, NEW o \in Operations, Dispatch(r, o) PROVE TypeOK'
  <2>1. Open' \subseteq Open
      BY <1>16 DEF Dispatch, Open
  <2>2. QueueMove(r)
      BY <1>16 DEF QueueMove, Dispatch
  <2>3. queue' \in Seq(Holders \X {"read", "write"})
      BY <2>2, QueueKept DEF Holders
  <2>4. /\ pc' \in [Requests -> Labels] /\ op' \in [Requests -> AllOperations \cup {"none"}]
        /\ current' \in [Requests -> SUBSET (Requests \cup {None})] /\ readers' \subseteq Holders
      BY <1>16 DEF Dispatch
  <2>5. UNCHANGED <<writer, claims, slot, txn, target, role, result, dropped, cast, casts>>
      BY <1>16 DEF Dispatch
  <2>6. Cardinality(Open') <= PoolSize
      BY <2>1, PoolKept
  <2> QED  BY <2>3, <2>4, <2>5, <2>6
<1>2. ASSUME NEW r \in Requests, BeginLocked(r) PROVE TypeOK'
  <2>1. Open' \subseteq Open
      BY <1>2 DEF BeginLocked, Open
  <2>2. QueueMove(r)
      BY <1>2 DEF QueueMove, BeginLocked, Granted
  <2>3. queue' \in Seq(Holders \X {"read", "write"})
      BY <2>2, QueueKept DEF Holders
  <2> QED  BY <1>2, <2>1, <2>3, PoolKept DEF BeginLocked, Holders
<1>3. ASSUME NEW r \in Requests, BeginOk(r) PROVE TypeOK'
  <2>1. Open' \subseteq Open \cup {r}
      BY <1>3 DEF BeginOk, Open
  <2>2. Cardinality(Open') <= PoolSize
      BY <1>3, <2>1, PoolTaken DEF BeginOk
  <2>3. QueueMove(r)
      BY <1>3 DEF QueueMove, BeginOk
  <2>4. queue' \in Seq(Holders \X {"read", "write"})
      BY <2>3, QueueKept DEF Holders
  <2>7. txn' \in [Requests -> {"none", "open", "committed", "rolledback"}]
      BY <1>3 DEF BeginOk
  <2>8. \E l \in Labels : pc' = [pc EXCEPT ![r] = l]
      BY <1>3 DEF BeginOk
  <2>9. result' = result \/ result' = [result EXCEPT ![r] = "ok"]
      BY <1>3 DEF BeginOk
  <2>5. pc' \in [Requests -> Labels] /\ result' \in [Requests -> {"none", "ok", "error"}]
      BY <2>8, <2>9
  <2>6. /\ readers' \subseteq readers
        /\ UNCHANGED <<op, writer, claims, slot, target, role, current, dropped, cast, casts>>
      BY <1>3 DEF BeginOk
  <2> QED  BY <2>2, <2>4, <2>5, <2>6, <2>7
<1>4. ASSUME NEW r \in Requests, BeginFails(r) PROVE TypeOK'
  <2>1. Open' \subseteq Open
      BY <1>4 DEF BeginFails, Open
  <2>2. /\ pc' \in [Requests -> Labels] /\ result' \in [Requests -> {"none", "ok", "error"}]
        /\ readers' \subseteq readers
        /\ UNCHANGED <<op, writer, queue, claims, slot, txn, target, role, current, dropped,
                       cast, casts>>
      BY <1>4 DEF BeginFails
  <2>3. Cardinality(Open') <= PoolSize
      BY <2>1, PoolKept
  <2> QED  BY <2>2, <2>3
<1>5. ASSUME NEW r \in Requests, Config(r) PROVE TypeOK'
  <2>1. Open' \subseteq Open
      BY <1>5 DEF Config, Open
  <2>2. QueueMove(r)
      BY <1>5 DEF QueueMove, Config, Granted
  <2>3. queue' \in Seq(Holders \X {"read", "write"})
      BY <2>2, QueueKept DEF Holders
  <2> QED  BY <1>5, <2>1, <2>3, PoolKept DEF Config
<1>6. ASSUME NEW r \in Requests, QueryAuth(r) PROVE TypeOK'
  <2>1. Open' \subseteq Open
      BY <1>6 DEF QueryAuth, Open
  <2>2. QueueMove(r)
      BY <1>6 DEF QueueMove, QueryAuth, Granted
  <2>3. queue' \in Seq(Holders \X {"read", "write"})
      BY <2>2, QueueKept DEF Holders
  <2> QED  BY <1>6, <2>1, <2>3, PoolKept DEF QueryAuth, Holders
<1>7. ASSUME NEW r \in Requests, QuerySwitch(r) \/ QueryRun(r) PROVE TypeOK'
  <2>1. Open' \subseteq Open
      BY <1>7 DEF QuerySwitch, QueryRun, Open
  <2> QED  BY <1>7, <2>1, PoolKept DEF QuerySwitch, QueryRun
<1>8. ASSUME NEW r \in Requests, AuthSql(r) \/ LoginCommit(r) PROVE TypeOK'
  <2>1. Open' \subseteq Open
      BY <1>8 DEF AuthSql, LoginCommit, Open
  <2>2. QueueMove(r)
      BY <1>8 DEF QueueMove, AuthSql, LoginCommit
  <2>3. queue' \in Seq(Holders \X {"read", "write"})
      BY <2>2, QueueKept DEF Holders
  <2>4. Cardinality(Open') <= PoolSize
      BY <2>1, PoolKept
  <2>5. CASE AuthSql(r)
    <3>3. \E l \in Labels : pc' = [pc EXCEPT ![r] = l]
        BY <2>5 DEF AuthSql
    <3>4. result' = result \/ \E res \in {"ok", "error"} : result' = [result EXCEPT ![r] = res]
        BY <2>5 DEF AuthSql
    <3>5. txn' \in [Requests -> {"none", "open", "committed", "rolledback"}]
        BY <2>5 DEF AuthSql
    <3>6. pc' \in [Requests -> Labels]
        BY <3>3
    <3>7. result' \in [Requests -> {"none", "ok", "error"}]
        BY <3>4
    <3>1. pc' \in [Requests -> Labels] /\ result' \in [Requests -> {"none", "ok", "error"}]
        BY <3>6, <3>7
    <3>2. UNCHANGED <<op, readers, writer, claims, slot, target, role, current, dropped, cast, casts>>
        BY <2>5 DEF AuthSql
    <3> QED  BY <2>3, <2>4, <3>1, <3>2, <3>5
  <2>6. CASE LoginCommit(r)
    <3>3. \E l \in Labels : pc' = [pc EXCEPT ![r] = l]
        BY <2>6 DEF LoginCommit
    <3>4. result' = result \/ \E res \in {"ok", "error"} : result' = [result EXCEPT ![r] = res]
        BY <2>6 DEF LoginCommit
    <3>5. txn' \in [Requests -> {"none", "open", "committed", "rolledback"}]
        BY <2>6 DEF LoginCommit
    <3>6. pc' \in [Requests -> Labels]
        BY <3>3
    <3>7. result' \in [Requests -> {"none", "ok", "error"}]
        BY <3>4
    <3>1. pc' \in [Requests -> Labels] /\ result' \in [Requests -> {"none", "ok", "error"}]
        BY <3>6, <3>7
    <3>2. UNCHANGED <<op, readers, writer, claims, slot, target, role, current, dropped, cast, casts>>
        BY <2>6 DEF LoginCommit
    <3> QED  BY <2>3, <2>4, <3>1, <3>2, <3>5
  <2> QED  BY <1>8, <2>5, <2>6
<1>9. ASSUME NEW r \in Requests, AuthClaims(r) PROVE TypeOK'
  <2>1. Open' \subseteq Open
      BY <1>9 DEF AuthClaims, Open
  <2>2. QueueMove(r)
      BY <1>9 DEF QueueMove, AuthClaims, Granted
  <2>3. queue' \in Seq(Holders \X {"read", "write"})
      BY <2>2, QueueKept DEF Holders
  <2>4. current' \in [Requests -> SUBSET (Requests \cup {None})]
      BY <1>9 DEF AuthClaims
  <2>5. /\ pc' \in [Requests -> Labels] /\ result' \in [Requests -> {"none", "ok", "error"}]
        /\ txn' \in [Requests -> {"none", "open", "committed", "rolledback"}]
      BY <1>9 DEF AuthClaims
  <2>6. claims' = r /\ UNCHANGED <<op, readers, writer, slot, target, role, dropped, cast, casts>>
      BY <1>9 DEF AuthClaims
  <2>7. Cardinality(Open') <= PoolSize
      BY <2>1, PoolKept
  <2> QED  BY <2>3, <2>4, <2>5, <2>6, <2>7
<1>10. ASSUME NEW r \in Requests, Begin(r) PROVE TypeOK'
  <2>1. Open' \subseteq Open
      BY <1>10 DEF Begin, Open
  <2>2. QueueMove(r)
      BY <1>10 DEF QueueMove, Begin, Granted
  <2>3. queue' \in Seq(Holders \X {"read", "write"})
      BY <2>2, QueueKept DEF Holders
  <2> QED  BY <1>10, <2>1, <2>3, PoolKept DEF Begin
<1>11. ASSUME NEW r \in Requests, Take(r) PROVE TypeOK'
  <2>1. Open' \subseteq Open
      BY <1>11 DEF Take, Open
  <2>2. QueueMove(r)
      BY <1>11 DEF QueueMove, Take, Granted
  <2>3. queue' \in Seq(Holders \X {"read", "write"})
      BY <2>2, QueueKept DEF Holders
  <2>4. /\ pc' \in [Requests -> Labels] /\ result' \in [Requests -> {"none", "ok", "error"}]
        /\ target' \in [Requests -> Requests \cup {None}] /\ writer' \subseteq Requests
      BY <1>11 DEF Take
  <2>5. slot' = None /\ UNCHANGED <<op, readers, claims, txn, role, current, dropped, cast, casts>>
      BY <1>11 DEF Take
  <2>6. Cardinality(Open') <= PoolSize
      BY <2>1, PoolKept
  <2> QED  BY <2>3, <2>4, <2>5, <2>6
<1>12. ASSUME NEW r \in Requests, TakeEnd(r) \/ StreamEnd(r) PROVE TypeOK'
  <2>1. Open' \subseteq Open
      BY <1>12 DEF TakeEnd, StreamEnd, Open
  <2>2. Cardinality(Open') <= PoolSize
      BY <2>1, PoolKept
  <2>3. CASE TakeEnd(r)
    <3>3. \E l \in Labels : pc' = [pc EXCEPT ![r] = l]
        BY <2>3 DEF TakeEnd
    <3>4. result' = result \/ \E res \in {"ok", "error"} : result' = [result EXCEPT ![r] = res]
        BY <2>3 DEF TakeEnd
    <3>5. txn' \in [Requests -> {"none", "open", "committed", "rolledback"}]
        BY <2>3 DEF TakeEnd
    <3>6. pc' \in [Requests -> Labels]
        BY <3>3
    <3>7. result' \in [Requests -> {"none", "ok", "error"}]
        BY <3>4
    <3>1. pc' \in [Requests -> Labels] /\ result' \in [Requests -> {"none", "ok", "error"}]
        BY <3>6, <3>7
    <3>2. /\ writer' = {}
          /\ UNCHANGED <<op, readers, queue, claims, slot, target, role, current, dropped, cast,
                         casts>>
        BY <2>3 DEF TakeEnd
    <3> QED  BY <2>2, <3>1, <3>2, <3>5
  <2>4. CASE StreamEnd(r)
      BY <2>2, <2>4 DEF StreamEnd
  <2> QED  BY <1>12, <2>3, <2>4
<1>13. CASE CastAsk \/ CastOn
  <2>1. Open' \subseteq Open
      BY <1>13 DEF CastAsk, CastOn, CastFirst, CastSecond, Open
  <2>2. QueueMove("first") \/ QueueMove("second")
      BY <1>13 DEF QueueMove, CastAsk, CastOn, CastFirst, CastSecond, Granted
  <2>3. queue' \in Seq(Holders \X {"read", "write"})
      BY <2>2, QueueKept DEF Holders
  <2> QED  BY <1>13, <2>1, <2>3, PoolKept DEF CastAsk, CastOn, CastFirst, CastSecond, Holders
<1>14. CASE DropConnection
  <2>1. Open' \subseteq Open
      BY <1>14 DEF DropConnection, Open
  <2> QED  BY <1>14, <2>1, PoolKept DEF DropConnection
<1>15. CASE UNCHANGED vars
  <2>1. Open' \subseteq Open
      BY <1>15 DEF vars, Open
  <2> QED  BY <1>15, <2>1, PoolKept DEF vars
<1> QED
    BY <1>1, <1>2, <1>3, <1>4, <1>5, <1>6, <1>7, <1>8, <1>9, <1>10, <1>11, <1>12, <1>13,
       <1>14, <1>15, <1>16
    DEF Next, Process

\* The state of the session is always of its types, and no more transactions
\* are open than the pool has connections.
THEOREM SessionTypeCorrect == Spec => []TypeOK
<1>1. Init => TypeOK
  <2> SUFFICES ASSUME Init PROVE TypeOK
      OBVIOUS
  <2>1. Open = {}
      BY DEF Init, Open
  <2>2. Cardinality(Open) <= PoolSize
      BY <2>1, FS_EmptySet, SizeAssumption
  <2>3. /\ op \in [Requests -> AllOperations \cup {"none"}] /\ pc \in [Requests -> Labels]
        /\ readers \subseteq Holders /\ writer \subseteq Requests
        /\ claims \in Requests \cup {None} /\ slot \in Requests \cup {None}
        /\ txn \in [Requests -> {"none", "open", "committed", "rolledback"}]
        /\ target \in [Requests -> Requests \cup {None}]
        /\ role \in [Requests -> Requests \cup {None, "unset"}]
        /\ current \in [Requests -> SUBSET (Requests \cup {None})]
        /\ result \in [Requests -> {"none", "ok", "error"}]
        /\ cast \in {"idle", "send"} \cup Guards /\ casts \in 0..Broadcasts
      BY SizeAssumption DEF Init, Labels
  <2>4. queue \in Seq(Holders \X {"read", "write"})
      BY DEF Init
  <2>5. dropped \in BOOLEAN
      BY Zenon DEF Init
  <2> QED  BY <2>2, <2>3, <2>4, <2>5, Zenon DEF TypeOK
<1> QED  BY <1>1, TypeStep, PTL DEF Spec

-----------------------------------------------------------------------------
(* Where the transactions of a connection are. *)

\* Before process_message, and after it.
Early == {"idle", "limit", "permit"}
Ended == {"reply", "done"}
InTxn == {"config", "auth", "switch", "run", "sql", "claims", "commit", "insert"}

\* What the place of a request says of its operation and its transaction: the
\* transaction is open from begin() on, and a commit or rollback never has one
\* of its own.
PlaceInv ==
    \A r \in Requests :
        /\ pc[r] \in Early => op[r] = "none"
        /\ pc[r] \notin {"switch", "run"} \cup Ended => role[r] = "unset"
        /\ pc[r] = "auth" => op[r] = "query"
        /\ pc[r] \in Early \cup {"begin", "pool", "take", "end"} => txn[r] = "none"
        /\ pc[r] \in {"begin", "pool"} \cup InTxn => op[r] \notin {"commit", "rollback"}
        /\ pc[r] \in InTxn => txn[r] = "open"
        /\ pc[r] \in {"config", "sql", "claims", "auth", "switch", "run"} =>
               op[r] \in {"query", "login", "authenticate"}
        /\ pc[r] \in {"sql", "claims"} => op[r] \in {"login", "authenticate"}
        /\ pc[r] = "commit" => op[r] = "login"
        /\ pc[r] = "insert" => op[r] = "begin"
        /\ pc[r] \notin Ended => result[r] = "none"

\* A session transaction was put there by a begin that has been answered, and
\* so was one that a commit or rollback is about to end; no two of them are
\* the same.
SessionInv ==
    /\ slot # None => txn[slot] = "open" /\ op[slot] = "begin" /\ pc[slot] \in Ended
    /\ \A r \in Started : target[r] # None => pc[r] = "end"
    /\ \A r \in Requests : pc[r] = "end" =>
           /\ target[r] \in Requests /\ target[r] # slot
           /\ txn[target[r]] = "open" /\ op[target[r]] = "begin" /\ pc[target[r]] \in Ended
    /\ \A r, q \in Requests : pc[r] = "end" /\ pc[q] = "end" /\ target[r] = target[q] => r = q
    /\ \A r \in Requests : pc[r] \in Early => target[r] = None

\* An answered request has left its transaction to a query stream, to the
\* session or to the request that took it from there.
LeftInv ==
    \A r \in Requests : pc[r] \in Ended /\ txn[r] = "open" =>
        \/ op[r] = "stream" \/ slot = r
        \/ \E q \in Requests : pc[q] = "end" /\ target[q] = r

\* The claims in force are among those every request at work may have seen,
\* and were installed after the database had accepted them.
ClaimsInv ==
    /\ \A r \in Asking : claims \in current[r]
    /\ RoleWasCurrent
    /\ claims # None =>
           \/ op[claims] = "login" /\ pc[claims] \in {"commit"} \cup Ended
           \/ op[claims] = "authenticate" /\ pc[claims] \in Ended /\ result[claims] = "ok"

\* The inductive invariant.
SessionTxnInv == PlaceInv /\ SessionInv /\ LeftInv

\* Every step keeps what the places say.
LEMMA PlaceStep == TypeOK /\ SessionTxnInv /\ [Next]_vars => PlaceInv'
<1> SUFFICES ASSUME TypeOK, SessionTxnInv, [Next]_vars PROVE PlaceInv'
    OBVIOUS
<1> USE OperationsAssumption, NamesAssumption
        DEF SessionTxnInv, PlaceInv, SessionInv, TypeOK, Labels, InTxn, AllOperations, Holders, Goto, Answer, EndTxn,
            Started, Asking, Early, Ended, lock, outside
<1>1. ASSUME NEW r \in Requests, Start(r) \/ LimitLocked(r) PROVE PlaceInv'
    BY <1>1 DEF Start, LimitLocked
<1>19. ASSUME NEW r \in Requests, NEW o \in Operations, Dispatch(r, o) PROVE PlaceInv'
    BY <1>19 DEF Dispatch
<1>2. ASSUME NEW r \in Requests, BeginLocked(r) PROVE PlaceInv'
    BY <1>2 DEF BeginLocked
<1>3. ASSUME NEW r \in Requests, BeginOk(r) PROVE PlaceInv'
    BY <1>3 DEF BeginOk
<1>4. ASSUME NEW r \in Requests, BeginFails(r) PROVE PlaceInv'
    BY <1>4 DEF BeginFails
<1>5. ASSUME NEW r \in Requests, Config(r) PROVE PlaceInv'
    BY <1>5 DEF Config
<1>6. ASSUME NEW r \in Requests, QueryAuth(r) PROVE PlaceInv'
    BY <1>6 DEF QueryAuth
<1>7. ASSUME NEW r \in Requests, QuerySwitch(r) PROVE PlaceInv'
    BY <1>7 DEF QuerySwitch
<1>8. ASSUME NEW r \in Requests, QueryRun(r) PROVE PlaceInv'
    BY <1>8 DEF QueryRun
<1>9. ASSUME NEW r \in Requests, AuthSql(r) PROVE PlaceInv'
    BY <1>9 DEF AuthSql
<1>10. ASSUME NEW r \in Requests, AuthClaims(r) PROVE PlaceInv'
    BY <1>10 DEF AuthClaims
<1>11. ASSUME NEW r \in Requests, LoginCommit(r) PROVE PlaceInv'
    BY <1>11 DEF LoginCommit
<1>12. ASSUME NEW r \in Requests, Begin(r) PROVE PlaceInv'
    BY <1>12 DEF Begin
<1>13. ASSUME NEW r \in Requests, Take(r) PROVE PlaceInv'
    BY <1>13 DEF Take
<1>14. ASSUME NEW r \in Requests, TakeEnd(r) PROVE PlaceInv'
    BY <1>14 DEF TakeEnd
<1>15. ASSUME NEW r \in Requests, StreamEnd(r) PROVE PlaceInv'
    BY <1>15 DEF StreamEnd
<1>16. CASE CastAsk \/ CastOn
    BY <1>16 DEF CastAsk, CastOn, CastFirst, CastSecond
<1>17. CASE DropConnection
    BY <1>17 DEF DropConnection
<1>18. CASE UNCHANGED vars
    BY <1>18 DEF vars
<1> QED
    BY <1>1, <1>2, <1>3, <1>4, <1>5, <1>6, <1>7, <1>8, <1>9, <1>10, <1>11, <1>12, <1>13,
       <1>14, <1>15, <1>16, <1>17, <1>18, <1>19
    DEF Next, Process

\* Every step keeps the session transaction.
LEMMA SessionStep == TypeOK /\ SessionTxnInv /\ [Next]_vars => SessionInv'
<1> SUFFICES ASSUME TypeOK, SessionTxnInv, [Next]_vars PROVE SessionInv'
    OBVIOUS
<1> USE OperationsAssumption, NamesAssumption
        DEF SessionTxnInv, PlaceInv, SessionInv, TypeOK, Labels, InTxn, AllOperations, Holders, Goto, Answer, EndTxn,
            Started, Asking, Early, Ended, lock, outside
<1>1. ASSUME NEW r \in Requests, Start(r) \/ LimitLocked(r) PROVE SessionInv'
  <2>1. PICK l \in {"limit", "permit"} : pc' = [pc EXCEPT ![r] = l]
      BY <1>1 DEF Start, LimitLocked
  <2>2. pc[r] \in {"idle", "limit"} /\ UNCHANGED <<op, slot, txn, target>>
      BY <1>1 DEF Start, LimitLocked
  <2> QED  BY <2>1, <2>2
<1>19. ASSUME NEW r \in Requests, NEW o \in Operations, Dispatch(r, o) PROVE SessionInv'
  <2>1. PICK l \in {"begin", "take"} : pc' = [pc EXCEPT ![r] = l]
      BY <1>19 DEF Dispatch
  <2>2. /\ pc[r] = "permit" /\ op' = [op EXCEPT ![r] = o]
        /\ UNCHANGED <<slot, txn, target>>
      BY <1>19 DEF Dispatch
  <2>3. slot # r /\ \A q \in Requests : pc[q] = "end" => target[q] # r
      BY <2>2
  <2> QED  BY <2>1, <2>2, <2>3
<1>2. ASSUME NEW r \in Requests, BeginLocked(r) PROVE SessionInv'
    BY <1>2 DEF BeginLocked
<1>3. ASSUME NEW r \in Requests, BeginOk(r) PROVE SessionInv'
  <2>1. PICK l \in {"config", "sql", "insert"} \cup Ended : pc' = [pc EXCEPT ![r] = l]
      BY <1>3 DEF BeginOk
  <2>2. /\ pc[r] = "pool" /\ txn' = [txn EXCEPT ![r] = "open"]
        /\ UNCHANGED <<op, slot, target>>
      BY <1>3 DEF BeginOk
  <2> QED  BY <2>1, <2>2
<1>4. ASSUME NEW r \in Requests, BeginFails(r) PROVE SessionInv'
  <2>1. PICK l \in Ended : pc' = [pc EXCEPT ![r] = l]
      BY <1>4 DEF BeginFails
  <2>2. pc[r] = "pool" /\ UNCHANGED <<op, slot, txn, target>>
      BY <1>4 DEF BeginFails
  <2> QED  BY <2>1, <2>2
<1>5. ASSUME NEW r \in Requests, Config(r) PROVE SessionInv'
  <2>1. /\ pc[r] = "config" /\ (pc' = [pc EXCEPT ![r] = "auth"] \/ pc' = [pc EXCEPT ![r] = "sql"])
        /\ UNCHANGED <<op, slot, txn, target>>
      BY <1>5 DEF Config
  <2> QED  BY <2>1
<1>6. ASSUME NEW r \in Requests, QueryAuth(r) PROVE SessionInv'
    BY <1>6 DEF QueryAuth
<1>7. ASSUME NEW r \in Requests, QuerySwitch(r) PROVE SessionInv'
    BY <1>7, SMTT(30) DEF QuerySwitch
<1>8. ASSUME NEW r \in Requests, QueryRun(r) PROVE SessionInv'
  <2>1. PICK l \in Ended : pc' = [pc EXCEPT ![r] = l]
      BY <1>8 DEF QueryRun
  <2>2. PICK how \in {"committed", "rolledback"} : txn' = [txn EXCEPT ![r] = how]
      BY <1>8 DEF QueryRun
  <2>3. pc[r] = "run" /\ UNCHANGED <<op, slot, target>>
      BY <1>8 DEF QueryRun
  <2> QED  BY <2>1, <2>2, <2>3
<1>9. ASSUME NEW r \in Requests, AuthSql(r) PROVE SessionInv'
  <2>1. CASE pc' = [pc EXCEPT ![r] = "claims"] /\ txn' = txn
      BY <1>9, <2>1 DEF AuthSql
  <2>2. CASE /\ \E l \in Ended : pc' = [pc EXCEPT ![r] = l]
                /\ txn' = [txn EXCEPT ![r] = "rolledback"]
      BY <1>9, <2>2 DEF AuthSql
  <2> QED  BY <1>9, <2>1, <2>2 DEF AuthSql
<1>10. ASSUME NEW r \in Requests, AuthClaims(r) PROVE SessionInv'
    BY <1>10 DEF AuthClaims
<1>11. ASSUME NEW r \in Requests, LoginCommit(r) PROVE SessionInv'
  <2>1. PICK l \in Ended : pc' = [pc EXCEPT ![r] = l]
      BY <1>11 DEF LoginCommit
  <2>2. PICK how \in {"committed", "rolledback"} : txn' = [txn EXCEPT ![r] = how]
      BY <1>11 DEF LoginCommit
  <2>3. pc[r] = "commit" /\ UNCHANGED <<op, slot, target>>
      BY <1>11 DEF LoginCommit
  <2> QED  BY <2>1, <2>2, <2>3
<1>12. ASSUME NEW r \in Requests, Begin(r) PROVE SessionInv'
    BY <1>12 DEF Begin
<1>13. ASSUME NEW r \in Requests, Take(r) PROVE SessionInv'
    BY <1>13 DEF Take
<1>14. ASSUME NEW r \in Requests, TakeEnd(r) PROVE SessionInv'
  <2>1. PICK l \in Ended : pc' = [pc EXCEPT ![r] = l]
      BY <1>14 DEF TakeEnd
  <2>2. PICK how \in {"committed", "rolledback"} : txn' = [txn EXCEPT ![target[r]] = how]
      BY <1>14 DEF TakeEnd
  <2>3. pc[r] = "end" /\ UNCHANGED <<op, slot, target>>
      BY <1>14 DEF TakeEnd
  <2> QED  BY <2>1, <2>2, <2>3
<1>15. ASSUME NEW r \in Requests, StreamEnd(r) PROVE SessionInv'
    BY <1>15 DEF StreamEnd
<1>16. CASE CastAsk \/ CastOn
    BY <1>16 DEF CastAsk, CastOn, CastFirst, CastSecond
<1>17. CASE DropConnection
    BY <1>17 DEF DropConnection
<1>18. CASE UNCHANGED vars
    BY <1>18 DEF vars
<1> QED
    BY <1>1, <1>2, <1>3, <1>4, <1>5, <1>6, <1>7, <1>8, <1>9, <1>10, <1>11, <1>12, <1>13,
       <1>14, <1>15, <1>16, <1>17, <1>18, <1>19
    DEF Next, Process

\* Every step keeps what answered requests left behind.
LEMMA LeftStep == TypeOK /\ SessionTxnInv /\ [Next]_vars => LeftInv'
<1> SUFFICES ASSUME TypeOK, SessionTxnInv, [Next]_vars PROVE LeftInv'
    OBVIOUS
<1> USE OperationsAssumption, NamesAssumption
        DEF SessionTxnInv, PlaceInv, SessionInv, LeftInv, TypeOK, Labels, InTxn, AllOperations, Holders, Goto, Answer, EndTxn,
            Started, Asking, Early, Ended, lock, outside
<1>1. ASSUME NEW r \in Requests, Start(r) \/ LimitLocked(r) PROVE LeftInv'
    BY <1>1 DEF Start, LimitLocked
<1>19. ASSUME NEW r \in Requests, NEW o \in Operations, Dispatch(r, o) PROVE LeftInv'
    BY <1>19 DEF Dispatch
<1>2. ASSUME NEW r \in Requests, BeginLocked(r) PROVE LeftInv'
    BY <1>2 DEF BeginLocked
<1>3. ASSUME NEW r \in Requests, BeginOk(r) PROVE LeftInv'
    BY <1>3 DEF BeginOk
<1>4. ASSUME NEW r \in Requests, BeginFails(r) PROVE LeftInv'
    BY <1>4 DEF BeginFails
<1>5. ASSUME NEW r \in Requests, Config(r) PROVE LeftInv'
    BY <1>5 DEF Config
<1>6. ASSUME NEW r \in Requests, QueryAuth(r) PROVE LeftInv'
    BY <1>6 DEF QueryAuth
<1>7. ASSUME NEW r \in Requests, QuerySwitch(r) PROVE LeftInv'
    BY <1>7 DEF QuerySwitch
<1>8. ASSUME NEW r \in Requests, QueryRun(r) PROVE LeftInv'
    BY <1>8 DEF QueryRun
<1>9. ASSUME NEW r \in Requests, AuthSql(r) PROVE LeftInv'
    BY <1>9 DEF AuthSql
<1>10. ASSUME NEW r \in Requests, AuthClaims(r) PROVE LeftInv'
    BY <1>10 DEF AuthClaims
<1>11. ASSUME NEW r \in Requests, LoginCommit(r) PROVE LeftInv'
    BY <1>11 DEF LoginCommit
<1>12. ASSUME NEW r \in Requests, Begin(r) PROVE LeftInv'
    BY <1>12 DEF Begin
<1>13. ASSUME NEW r \in Requests, Take(r) PROVE LeftInv'
    BY <1>13 DEF Take
<1>14. ASSUME NEW r \in Requests, TakeEnd(r) PROVE LeftInv'
    BY <1>14 DEF TakeEnd
<1>15. ASSUME NEW r \in Requests, StreamEnd(r) PROVE LeftInv'
    BY <1>15 DEF StreamEnd
<1>16. CASE CastAsk \/ CastOn
    BY <1>16 DEF CastAsk, CastOn, CastFirst, CastSecond
<1>17. CASE DropConnection
    BY <1>17 DEF DropConnection
<1>18. CASE UNCHANGED vars
    BY <1>18 DEF vars
<1> QED
    BY <1>1, <1>2, <1>3, <1>4, <1>5, <1>6, <1>7, <1>8, <1>9, <1>10, <1>11, <1>12, <1>13,
       <1>14, <1>15, <1>16, <1>17, <1>18, <1>19
    DEF Next, Process

\* Every step keeps the claims.
LEMMA ClaimsStep == TypeOK /\ PlaceInv /\ ClaimsInv /\ [Next]_vars => ClaimsInv'
<1> SUFFICES ASSUME TypeOK, PlaceInv, ClaimsInv, [Next]_vars PROVE ClaimsInv'
    OBVIOUS
<1> USE OperationsAssumption, NamesAssumption
        DEF PlaceInv, ClaimsInv, RoleWasCurrent, TypeOK, Labels, InTxn, AllOperations, Holders, Goto, Answer, EndTxn,
            Started, Asking, Early, Ended, lock, outside
<1>1. ASSUME NEW r \in Requests, Start(r) \/ LimitLocked(r) PROVE ClaimsInv'
    BY <1>1 DEF Start, LimitLocked
<1>19. ASSUME NEW r \in Requests, NEW o \in Operations, Dispatch(r, o) PROVE ClaimsInv'
    BY <1>19 DEF Dispatch
<1>2. ASSUME NEW r \in Requests, BeginLocked(r) PROVE ClaimsInv'
    BY <1>2 DEF BeginLocked
<1>3. ASSUME NEW r \in Requests, BeginOk(r) PROVE ClaimsInv'
  <2>1. PICK l \in {"config", "sql", "insert"} \cup Ended : pc' = [pc EXCEPT ![r] = l]
      BY <1>3 DEF BeginOk
  <2>2. pc[r] = "pool" /\ UNCHANGED <<op, claims, role, current>>
      BY <1>3 DEF BeginOk
  <2>3. \A q \in Requests : q # r => result'[q] = result[q]
      BY <1>3 DEF BeginOk
  <2> QED  BY <2>1, <2>2, <2>3
<1>4. ASSUME NEW r \in Requests, BeginFails(r) PROVE ClaimsInv'
  <2>1. PICK l \in Ended : pc' = [pc EXCEPT ![r] = l]
      BY <1>4 DEF BeginFails
  <2>2. pc[r] = "pool" /\ UNCHANGED <<op, claims, role, current>>
      BY <1>4 DEF BeginFails
  <2>3. \A q \in Requests : q # r => result'[q] = result[q]
      BY <1>4 DEF BeginFails
  <2> QED  BY <2>1, <2>2, <2>3
<1>5. ASSUME NEW r \in Requests, Config(r) PROVE ClaimsInv'
  <2>1. PICK l \in {"auth", "sql"} : pc' = [pc EXCEPT ![r] = l]
      BY <1>5 DEF Config
  <2>2. pc[r] = "config" /\ UNCHANGED <<op, claims, role, current, result>>
      BY <1>5 DEF Config
  <2>3. Asking' = Asking
      BY <2>1, <2>2
  <2> QED  BY <2>1, <2>2, <2>3
<1>6. ASSUME NEW r \in Requests, QueryAuth(r) PROVE ClaimsInv'
    BY <1>6 DEF QueryAuth
<1>7. ASSUME NEW r \in Requests, QuerySwitch(r) PROVE ClaimsInv'
    BY <1>7 DEF QuerySwitch
<1>8. ASSUME NEW r \in Requests, QueryRun(r) PROVE ClaimsInv'
    BY <1>8 DEF QueryRun
<1>9. ASSUME NEW r \in Requests, AuthSql(r) PROVE ClaimsInv'
    BY <1>9 DEF AuthSql
<1>10. ASSUME NEW r \in Requests, AuthClaims(r) PROVE ClaimsInv'
    BY <1>10 DEF AuthClaims
<1>11. ASSUME NEW r \in Requests, LoginCommit(r) PROVE ClaimsInv'
    BY <1>11 DEF LoginCommit
<1>12. ASSUME NEW r \in Requests, Begin(r) PROVE ClaimsInv'
    BY <1>12 DEF Begin
<1>13. ASSUME NEW r \in Requests, Take(r) PROVE ClaimsInv'
    BY <1>13 DEF Take
<1>14. ASSUME NEW r \in Requests, TakeEnd(r) PROVE ClaimsInv'
    BY <1>14 DEF TakeEnd
<1>15. ASSUME NEW r \in Requests, StreamEnd(r) PROVE ClaimsInv'
    BY <1>15 DEF StreamEnd
<1>16. CASE CastAsk \/ CastOn
    BY <1>16 DEF CastAsk, CastOn, CastFirst, CastSecond
<1>17. CASE DropConnection
    BY <1>17 DEF DropConnection
<1>18. CASE UNCHANGED vars
    BY <1>18 DEF vars
<1> QED
    BY <1>1, <1>2, <1>3, <1>4, <1>5, <1>6, <1>7, <1>8, <1>9, <1>10, <1>11, <1>12, <1>13,
       <1>14, <1>15, <1>16, <1>17, <1>18, <1>19
    DEF Next, Process

\* The invariants hold from the start.
LEMMA SessionInvariant == Spec => [](SessionTxnInv /\ ClaimsInv)
<1>1. Init => SessionTxnInv /\ ClaimsInv
    BY NamesAssumption
    DEF Init, SessionTxnInv, PlaceInv, SessionInv, LeftInv, ClaimsInv, RoleWasCurrent, Started,
        InTxn, Holders, Early, Ended, Asking
<1>2. TypeOK /\ SessionTxnInv /\ ClaimsInv /\ [Next]_vars => (SessionTxnInv /\ ClaimsInv)'
    BY PlaceStep, SessionStep, LeftStep, ClaimsStep DEF SessionTxnInv
<1> QED  BY <1>1, <1>2, SessionTypeCorrect, PTL DEF Spec

\* No transaction keeps a connection of the pool without an owner, whatever
\* errors, replacements and interleavings there were.
THEOREM OpenIsOwnedCorrect == Spec => []OpenIsOwned
<1>1. TypeOK /\ SessionTxnInv => OpenIsOwned
    BY DEF TypeOK, Labels, SessionTxnInv, PlaceInv, SessionInv, LeftInv, OpenIsOwned, Open,
           Started, InTxn, Early, Ended
<1> QED  BY <1>1, SessionTypeCorrect, SessionInvariant, PTL

\* The session transaction is open, and no two requests are about to end the
\* same one.
THEOREM SessionTxnIsOpenCorrect == Spec => []SessionTxnIsOpen
<1>1. TypeOK /\ SessionTxnInv => SessionTxnIsOpen
    BY NamesAssumption DEF TypeOK, SessionTxnInv, SessionInv, SessionTxnIsOpen, Started, Holders, Ended
<1> QED  BY <1>1, SessionTypeCorrect, SessionInvariant, PTL

\* A query runs under claims that were in force while it was handled.
THEOREM RoleWasCurrentCorrect == Spec => []RoleWasCurrent
<1>1. ClaimsInv => RoleWasCurrent
    BY DEF ClaimsInv
<1> QED  BY <1>1, SessionInvariant, PTL

\* The claims of a connection were accepted by the database.
THEOREM ClaimsWereAcceptedCorrect == Spec => []ClaimsWereAccepted
<1>1. TypeOK /\ ClaimsInv => ClaimsWereAccepted
    BY DEF TypeOK, ClaimsInv, ClaimsWereAccepted
<1> QED  BY <1>1, SessionTypeCorrect, SessionInvariant, PTL

\* No step touches a transaction that has ended.
LEMMA EndedStep ==
    TypeOK /\ SessionTxnInv /\ [Next]_vars =>
        [\A r \in Requests : txn[r] \in {"committed", "rolledback"} => txn'[r] = txn[r]]_vars
<1> SUFFICES ASSUME TypeOK, SessionTxnInv, Next, NEW t \in Requests,
                    txn[t] \in {"committed", "rolledback"}
             PROVE  txn'[t] = txn[t]
    OBVIOUS
<1> USE DEF TypeOK, SessionTxnInv, PlaceInv, SessionInv, InTxn, EndTxn, Early, Ended
<1>1. ASSUME NEW r \in Requests,
             BeginOk(r) \/ QuerySwitch(r) \/ QueryRun(r) \/ AuthSql(r) \/ AuthClaims(r)
                 \/ LoginCommit(r)
      PROVE  txn'[t] = txn[t]
    BY <1>1 DEF BeginOk, QuerySwitch, QueryRun, AuthSql, AuthClaims, LoginCommit
<1>2. ASSUME NEW r \in Requests, Begin(r) \/ TakeEnd(r) \/ StreamEnd(r) PROVE txn'[t] = txn[t]
    BY <1>2 DEF Begin, TakeEnd, StreamEnd
<1>3. ASSUME NEW r \in Requests,
             Start(r) \/ LimitLocked(r) \/ BeginLocked(r) \/ BeginFails(r) \/ Config(r)
                 \/ QueryAuth(r) \/ Take(r)
      PROVE  txn'[t] = txn[t]
    BY <1>3 DEF Start, LimitLocked, BeginLocked, BeginFails, Config, QueryAuth, Take
<1>4. ASSUME NEW r \in Requests, NEW o \in Operations, Dispatch(r, o) PROVE txn'[t] = txn[t]
    BY <1>4 DEF Dispatch
<1>5. CASE CastAsk \/ CastOn
    BY <1>5 DEF CastAsk, CastOn, CastFirst, CastSecond
<1>6. CASE DropConnection
    BY <1>6 DEF DropConnection
<1> QED  BY <1>1, <1>2, <1>3, <1>4, <1>5, <1>6 DEF Next, Process

\* A transaction that was committed or rolled back is never ended again.
THEOREM EndedStaysEndedCorrect == Spec => EndedStaysEnded
<1> QED
    BY SessionTypeCorrect, SessionInvariant, EndedStep, PTL DEF Spec, EndedStaysEnded

-----------------------------------------------------------------------------
(* The waits that never end. *)

\* A handler that waits for a permit has the read guard.
PermitGuard == \A r \in Requests : pc[r] = "permit" => r \in readers

\* Every step keeps it.
LEMMA PermitGuardStep == TypeOK /\ PermitGuard /\ [Next]_vars => PermitGuard'
<1> SUFFICES ASSUME TypeOK, PermitGuard, [Next]_vars PROVE PermitGuard'
    OBVIOUS
<1> USE DEF TypeOK, PermitGuard, Goto, Answer, lock, outside
<1>1. ASSUME NEW r \in Requests, Start(r) \/ LimitLocked(r) PROVE PermitGuard'
    BY <1>1 DEF Start, LimitLocked
<1>2. ASSUME NEW r \in Requests, NEW o \in Operations, Dispatch(r, o) PROVE PermitGuard'
    BY <1>2 DEF Dispatch
<1>3. ASSUME NEW r \in Requests, BeginLocked(r) \/ BeginFails(r) \/ Config(r) PROVE PermitGuard'
    BY <1>3 DEF BeginLocked, BeginFails, Config
<1>4. ASSUME NEW r \in Requests, BeginOk(r) PROVE PermitGuard'
    BY <1>4 DEF BeginOk
<1>5. ASSUME NEW r \in Requests, QueryAuth(r) \/ QuerySwitch(r) \/ QueryRun(r) PROVE PermitGuard'
    BY <1>5 DEF QueryAuth, QuerySwitch, QueryRun
<1>6. ASSUME NEW r \in Requests, AuthSql(r) \/ AuthClaims(r) \/ LoginCommit(r)
      PROVE  PermitGuard'
    BY <1>6 DEF AuthSql, AuthClaims, LoginCommit
<1>7. ASSUME NEW r \in Requests, Begin(r) \/ Take(r) \/ TakeEnd(r) \/ StreamEnd(r)
      PROVE  PermitGuard'
    BY <1>7 DEF Begin, Take, TakeEnd, StreamEnd
<1>8. CASE CastAsk \/ CastOn
    BY <1>8, NamesAssumption DEF CastAsk, CastOn, CastFirst, CastSecond
<1>9. CASE DropConnection \/ UNCHANGED vars
    BY <1>9 DEF DropConnection, vars
<1> QED
    BY <1>1, <1>2, <1>3, <1>4, <1>5, <1>6, <1>7, <1>8, <1>9 DEF Next, Process

\* What can still happen while a writer is first in line and somebody reads:
\* nobody is granted the lock, others get in line behind.
WriterWaits == queue # <<>> /\ Head(queue)[2] = "write" /\ readers # {}
LEMMA WriterWaitsHead ==
    ASSUME TypeOK, WriterWaits, queue' = queue \/ \E e : queue' = Append(queue, e)
    PROVE  queue' # <<>> /\ Head(queue')[2] = "write"
<1> DEFINE S == Holders \X {"read", "write"}
<1>1. queue \in Seq(S) /\ queue # <<>>
    BY DEF TypeOK, WriterWaits
<1> HIDE DEF S
<1>2. queue' # <<>> /\ Head(queue') = Head(queue)
    BY <1>1
<1> QED  BY <1>2 DEF WriterWaits
LEMMA WriterWaitsGrants == WriterWaits => \A h : ~Granted(h)
    BY DEF WriterWaits, Granted

\* start_db_change_stream keeps its first guard and stays where it is.
LEMMA ReentrantStep == TypeOK /\ ReentrantWait /\ [Next]_vars => ReentrantWait'
<1> SUFFICES ASSUME TypeOK, ReentrantWait, [Next]_vars PROVE ReentrantWait'
    OBVIOUS
<1>1. WriterWaits /\ \A h : ~Granted(h)
    BY WriterWaitsGrants DEF ReentrantWait, WriterWaits
<1>3. \A r \in Requests : r # "first"
    BY NamesAssumption DEF Guards
<1>4. ASSUME cast' = "second", "first" \in readers',
             queue' = queue \/ \E e : queue' = Append(queue, e)
      PROVE  ReentrantWait'
    BY <1>1, <1>4, WriterWaitsHead DEF ReentrantWait
<1> USE DEF ReentrantWait, outside
<1>5. ASSUME NEW r \in Requests, Process(r) PROVE ReentrantWait'
    BY <1>1, <1>3, <1>4, <1>5
    DEF Ask, Process, LimitLocked, Dispatch, BeginLocked, BeginOk, BeginFails, Config, QueryAuth,
        QuerySwitch, QueryRun, AuthSql, AuthClaims, LoginCommit, Begin, Take, TakeEnd, lock
<1>6. ASSUME NEW r \in Requests, StreamEnd(r) PROVE ReentrantWait'
    BY <1>6 DEF StreamEnd, lock
<1>7. ASSUME NEW r \in Requests, Start(r) PROVE ReentrantWait'
    BY <1>4, <1>7 DEF Start, Ask
<1>8. ~CastAsk /\ ~CastOn /\ ~DropConnection
    BY <1>1 DEF CastAsk, CastOn, CastFirst, CastSecond, DropConnection
<1>9. CASE UNCHANGED vars
    BY <1>9 DEF vars
<1> QED  BY <1>5, <1>6, <1>7, <1>8, <1>9 DEF Next

\* No handler moves but those that have just arrived.
LEMMA PermitStep == TypeOK /\ PermitGuard /\ PermitWait /\ [Next]_vars => PermitWait'
<1> SUFFICES ASSUME TypeOK, PermitGuard, PermitWait, [Next]_vars PROVE PermitWait'
    OBVIOUS
<1>1. WriterWaits /\ \A h : ~Granted(h)
    BY WriterWaitsGrants DEF PermitWait, PermitGuard, WriterWaits
<1> DEFINE Stay == \A q \in Requests :
                       pc'[q] = pc[q] \/ (pc[q] = "idle" /\ pc'[q] = "limit")
<1> DEFINE Line == queue' = queue \/ \E e : queue' = Append(queue, e)
<1>2. Stay /\ Line => PermitWait'
  <2> SUFFICES ASSUME Stay, Line PROVE PermitWait'
      OBVIOUS
  <2>1. queue' # <<>> /\ Head(queue')[2] = "write"
    BY <1>1, WriterWaitsHead
  <2>2. Permits' = Permits
    BY DEF Permits, Started
  <2>3. \E q \in Requests : pc'[q] = "permit"
    BY DEF PermitWait
  <2>4. \A q \in Permits : pc'[q] \in Waiting
    BY DEF PermitWait, Permits, Started, Waiting
  <2> QED  BY <2>1, <2>2, <2>3, <2>4 DEF PermitWait
<1>3. ~(Cardinality(Permits) < Limit)
    BY SizeAssumption DEF PermitWait
<1>4. \A q \in Requests : pc[q] \in Early \cup Waiting \cup {"done"}
    BY DEF PermitWait, Permits, Started, Early
<1>5. ASSUME NEW r \in Requests, Process(r) PROVE FALSE
    BY <1>1, <1>3, <1>4, <1>5
    DEF Early, Waiting, Process, LimitLocked, Dispatch, BeginLocked, BeginOk, BeginFails, Config,
        QueryAuth, QuerySwitch, QueryRun, AuthSql, AuthClaims, LoginCommit, Begin, Take, TakeEnd
<1>6. ASSUME NEW r \in Requests, StreamEnd(r) PROVE Stay /\ Line
  <2>1. pc' = pc /\ queue' = queue
    BY <1>6 DEF StreamEnd, lock
  <2> QED  BY <2>1
<1>7. ASSUME NEW r \in Requests, Start(r) PROVE Stay /\ Line
  <2>1. /\ pc[r] = "idle" /\ pc' = [pc EXCEPT ![r] = "limit"]
        /\ queue' = Append(queue, <<r, "read">>)
    BY <1>7 DEF Start, Ask, Goto
  <2>2. Stay
    BY <2>1 DEF TypeOK
  <2> QED  BY <2>1, <2>2
<1>8. CASE CastAsk
  <2>1. pc' = pc /\ queue' = Append(queue, <<"first", "read">>)
    BY <1>8 DEF CastAsk, Ask
  <2>2. Stay /\ Line
    BY <2>1
  <2> HIDE DEF Stay, Line
  <2> QED  BY <1>2, <2>2
<1>9. ~CastOn /\ ~DropConnection
    BY <1>1 DEF CastOn, CastFirst, CastSecond, DropConnection, Answered, PermitWait
<1>10. CASE UNCHANGED vars
  <2>1. Stay /\ Line
    BY <1>10 DEF vars
  <2> HIDE DEF Stay, Line
  <2> QED  BY <1>2, <2>1
<1> HIDE DEF Stay, Line
<1> QED  BY <1>2, <1>5, <1>6, <1>7, <1>8, <1>9, <1>10 DEF Next

\* No send ends any more.
LEMMA JammedStep == TypeOK /\ Jammed /\ [Next]_vars => Jammed'
<1> SUFFICES ASSUME TypeOK, Jammed, [Next]_vars PROVE Jammed'
    OBVIOUS
<1>1. ASSUME NEW q \in Requests, pc[q] = "reply" PROVE Jammed'
  <2> USE DEF TypeOK, Goto, Answer
  <2>1. ASSUME NEW r \in Requests, Process(r) PROVE r # q
    BY <1>1, <2>1
    DEF Process, LimitLocked, Dispatch, BeginLocked, BeginOk, BeginFails, Config, QueryAuth,
        QuerySwitch, QueryRun, AuthSql, AuthClaims, LoginCommit, Begin, Take, TakeEnd
  <2>2. ASSUME NEW r \in Requests, Process(r) PROVE \E l : pc' = [pc EXCEPT ![r] = l]
    BY <2>2
    DEF Process, LimitLocked, Dispatch, BeginLocked, BeginOk, BeginFails, Config, QueryAuth,
        QuerySwitch, QueryRun, AuthSql, AuthClaims, LoginCommit, Begin, Take, TakeEnd
  <2>3. ASSUME NEW r \in Requests, Process(r) PROVE pc'[q] = "reply"
    BY <1>1, <2>1, <2>2, <2>3
  <2>4. ASSUME NEW r \in Requests, Start(r) \/ StreamEnd(r) PROVE pc'[q] = "reply"
    BY <1>1, <2>4 DEF Start, StreamEnd
  <2>5. CASE CastAsk \/ CastOn \/ DropConnection \/ UNCHANGED vars
    BY <1>1, <2>5 DEF CastAsk, CastOn, CastFirst, CastSecond, DropConnection, vars, Jammed
  <2> QED  BY <2>3, <2>4, <2>5 DEF Next, Jammed
<1>2. CASE cast = "send"
  <2> USE DEF outside
  <2>1. ASSUME NEW r \in Requests, Process(r) \/ Start(r) \/ StreamEnd(r) PROVE cast' = cast
    BY <2>1
    DEF Process, LimitLocked, Dispatch, BeginLocked, BeginOk, BeginFails, Config, QueryAuth,
        QuerySwitch, QueryRun, AuthSql, AuthClaims, LoginCommit, Begin, Take, TakeEnd, Start,
        StreamEnd
  <2>2. CASE DropConnection \/ UNCHANGED vars
    BY <1>2, <2>2 DEF DropConnection, vars, Jammed
  <2>3. ~CastAsk /\ ~CastOn
    BY <1>2 DEF CastAsk, CastOn, CastFirst, CastSecond
  <2> QED  BY <1>2, <2>1, <2>2, <2>3 DEF Next, Jammed
<1> QED  BY <1>1, <1>2 DEF Jammed

\* The three ways in which a connection stands still are for ever: a change
\* stream that waits for its second guard behind a writer, a handler that
\* waits for a permit with the guard the holders of all permits wait for, and
\* a send in a channel that stays full.
THEOREM StandstillIsForever ==
    Spec => /\ [](ReentrantWait => []ReentrantWait)
            /\ [](PermitWait => []PermitWait)
            /\ [](Jammed => []Jammed)
<1>1. Init => PermitGuard
    BY DEF Init, PermitGuard
<1>2. Spec => []PermitGuard
    BY <1>1, PermitGuardStep, SessionTypeCorrect, PTL DEF Spec
<1>3. Spec => [](ReentrantWait => []ReentrantWait)
    BY ReentrantStep, SessionTypeCorrect, PTL DEF Spec
<1>4. Spec => [](PermitWait => []PermitWait)
    BY <1>2, PermitStep, SessionTypeCorrect, PTL DEF Spec
<1>5. Spec => [](Jammed => []Jammed)
    BY JammedStep, SessionTypeCorrect, PTL DEF Spec
<1> QED  BY <1>3, <1>4, <1>5
=============================================================================

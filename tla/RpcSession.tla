----------------------------- MODULE RpcSession -----------------------------
(***************************************************************************)
(* process_message and what it shares: the requests of one connection run  *)
(* concurrently on the Session behind Arc<RwLock<Connection>> (claims and  *)
(* the session transaction) and on the pool of database connections.       *)
(*                                                                         *)
(* The RwLock of tokio is fair: an acquisition waits behind all those that *)
(* were asked for before it.  Which guards live across an await is taken   *)
(* from the temporaries of each statement: the read guard of               *)
(* `rpc.read().await.session.db.begin().await?' is held while the pool is  *)
(* waited for, the write guard of `if let Some(x) =                        *)
(* rpc.write().await.session.txn.take()' while the transaction ends, and   *)
(* `let session = &s.1.read().await.session' in start_db_change_stream     *)
(* until the end of the loop body, where the lock is read a second time    *)
(* and the message is sent, and that of `rpc.read().await.limiter.clone()  *)
(* .acquire_owned().await' in handle_message until there is a permit.      *)
(* A request has at most one transaction, named after the request.         *)
(***************************************************************************)
EXTENDS Integers, Sequences, FiniteSets

CONSTANTS
    Requests,    \* the requests of the connection
    Operations,  \* the operations they may ask for
    Limit,       \* WEBSOCKET_MAX_CONCURRENT_REQUESTS: permits of the limiter
    PoolSize,    \* connections of the database pool
    Broadcasts,  \* bound: committed transactions the change stream sends
    None         \* no claims, no session transaction

AllOperations == {"query", "login", "authenticate", "begin", "commit", "rollback", "stream"}
\* The two guards start_db_change_stream takes on a connection.
Guards == {"first", "second"}
Holders == Requests \cup Guards

ASSUME OperationsAssumption == Operations \subseteq AllOperations
ASSUME SizeAssumption == Limit \in Nat \ {0} /\ PoolSize \in Nat /\ Broadcasts \in Nat
ASSUME NamesAssumption ==
    Requests \cap Guards = {} /\ None \notin Holders /\ IsFiniteSet(Requests)

VARIABLES
    op,         \* the operation of each request
    pc,         \* where each request is
    readers,    \* holders of read guards
    writer,     \* holder of the write guard, as a set of at most one
    queue,      \* those who wait for the lock, in order: <<holder, mode>>
    claims,     \* session.claims, named after the request that installed them
    slot,       \* session.txn
    txn,        \* the database transaction of each request
    target,     \* the transaction a commit or rollback took from the session
    role,       \* the claims each query ran under
    current,    \* the claims that were in force since each request started
    result,     \* the answer of each request
    dropped,    \* the connection has been dropped
    cast,       \* where start_db_change_stream is with this connection
    casts       \* how many transactions it was to send

lock == <<readers, writer, queue>>
outside == <<dropped, cast, casts>>
vars == <<op, pc, readers, writer, queue, claims, slot, txn, target, role, current,
          result, dropped, cast, casts>>

-----------------------------------------------------------------------------
(* tokio::sync::RwLock *)

Ask(h, mode) == queue' = Append(queue, <<h, mode>>)
\* The lock is given to the first in line, when the holders allow it.
Granted(h) ==
    /\ queue # <<>> /\ Head(queue)[1] = h
    /\ writer = {} /\ (Head(queue)[2] = "write" => readers = {})

\* The pool: a transaction keeps its connection until it ends.
Open == {r \in Requests : txn[r] = "open"}

\* The requests in process_message; they have a permit, and so have those
\* whose answer waits for room in the channel.
Started == {r \in Requests : pc[r] \notin {"idle", "limit", "permit", "reply", "done"}}
\* The queries that have not taken up a role yet.
Asking == {r \in Started : op[r] = "query" /\ role[r] = "unset"}
Permits == Started \cup {r \in Requests : pc[r] = "reply"}
Answered == \A r \in Requests : pc[r] \in {"idle", "done"}

Init ==
    /\ op = [r \in Requests |-> "none"] /\ pc = [r \in Requests |-> "idle"]
    /\ readers = {} /\ writer = {} /\ queue = <<>>
    /\ claims = None /\ slot = None
    /\ txn = [r \in Requests |-> "none"]
    /\ target = [r \in Requests |-> None] /\ role = [r \in Requests |-> "unset"]
    /\ current = [r \in Requests |-> {}]
    /\ result = [r \in Requests |-> "none"]
    /\ dropped = FALSE /\ cast = "idle" /\ casts = 0

Goto(r, l) == pc' = [pc EXCEPT ![r] = l]
\* The channel of outgoing messages is full and stays so, write being over: a
\* send is waiting, and none will end any more.
Jammed == cast = "send" \/ \E r \in Requests : pc[r] = "reply"
\* A send ends at once (one that gets room later is as good as one that comes
\* later), or it is the first to find the channel full for good, or follows.
Answer(r, res) ==
    /\ result' = [result EXCEPT ![r] = res]
    /\ Goto(r, "reply") \/ (~Jammed /\ Goto(r, "done"))
EndTxn(t, how) == txn' = [txn EXCEPT ![t] = how]

-----------------------------------------------------------------------------
(* handle_message and process_message *)

\* handle_message is spawned and asks for the lock, to get at the limiter.
Start(r) ==
    /\ pc[r] = "idle" /\ ~dropped
    /\ Goto(r, "limit") /\ Ask(r, "read")
    /\ UNCHANGED <<op, readers, writer, claims, slot, txn, target, role, current, result,
                   outside>>

\* It waits for a permit with the read guard.
LimitLocked(r) ==
    /\ pc[r] = "limit" /\ Granted(r)
    /\ Goto(r, "permit") /\ readers' = readers \cup {r} /\ queue' = Tail(queue)
    /\ UNCHANGED <<op, writer, claims, slot, txn, target, role, current, result,
                   outside>>

\* A permit is there and the guard goes.  Dispatch: Commit and Rollback ask
\* for the write guard, the others begin with a read guard.
Dispatch(r, o) ==
    /\ pc[r] = "permit" /\ Cardinality(Permits) < Limit
    /\ op' = [op EXCEPT ![r] = o] /\ readers' = readers \ {r}
    /\ current' = [current EXCEPT ![r] = IF o = "query" THEN {claims} ELSE {}]
    /\ IF o \in {"commit", "rollback"}
       THEN Goto(r, "take") /\ Ask(r, "write")
       ELSE Goto(r, "begin") /\ Ask(r, "read")
    /\ UNCHANGED <<writer, claims, slot, txn, target, role, result, outside>>

\* The read guard is there: db.begin() waits for the pool with it.
BeginLocked(r) ==
    /\ pc[r] = "begin" /\ Granted(r)
    /\ Goto(r, "pool") /\ readers' = readers \cup {r} /\ queue' = Tail(queue)
    /\ UNCHANGED <<op, writer, claims, slot, txn, target, role, current, result,
                   outside>>
\* begin() succeeds; the guard ends with the statement.
BeginOk(r) ==
    /\ pc[r] = "pool" /\ Cardinality(Open) < PoolSize
    /\ EndTxn(r, "open") /\ readers' = readers \ {r}
    /\ \/ /\ op[r] \in {"query", "login"}
          /\ Goto(r, "config") /\ Ask(r, "read") /\ UNCHANGED result
       \/ /\ op[r] = "authenticate"
          /\ Goto(r, "sql") /\ UNCHANGED <<queue, result>>
       \/ /\ op[r] = "begin"
          /\ Goto(r, "insert") /\ Ask(r, "write") /\ UNCHANGED result
       \/ /\ op[r] = "stream"   \* the spawned task has the transaction
          /\ Answer(r, "ok") /\ UNCHANGED queue
    /\ UNCHANGED <<op, writer, claims, slot, target, role, current, outside>>
\* Mutant: the pool has no time limit.
BeginFailsNever(r) ==
    /\ pc[r] = "pool" /\ Cardinality(Open) < PoolSize
    /\ Answer(r, "error") /\ readers' = readers \ {r}
    /\ UNCHANGED <<op, writer, queue, claims, slot, txn, target, role, current, outside>>

\* The pool reports an error: no connection within its time limit, or no
\* database.
BeginFails(r) ==
    /\ pc[r] = "pool"
    /\ Answer(r, "error") /\ readers' = readers \ {r}
    /\ UNCHANGED <<op, writer, queue, claims, slot, txn, target, role, current, outside>>

\* app_config is copied under a guard of its own.
Config(r) ==
    /\ pc[r] = "config" /\ Granted(r)
    /\ \/ op[r] = "query" /\ Goto(r, "auth") /\ queue' = Append(Tail(queue), <<r, "read">>)
       \/ op[r] = "login" /\ Goto(r, "sql") /\ queue' = Tail(queue)
    /\ UNCHANGED <<op, readers, writer, claims, slot, txn, target, role, current,
                   result, outside>>

-----------------------------------------------------------------------------
(* Connection::query *)
\* Mutant: the role is always the anonymous one.
QueryAuthAnonymous(r) ==
    /\ pc[r] = "auth" /\ Granted(r)
    /\ Goto(r, "switch") /\ readers' = readers \cup {r} /\ queue' = Tail(queue)
    /\ role' = [role EXCEPT ![r] = None]
    /\ UNCHANGED <<op, writer, claims, slot, txn, target, current, result, outside>>

\* switch_auth_context holds the read guard while it sets the role.
QueryAuth(r) ==
    /\ pc[r] = "auth" /\ Granted(r)
    /\ Goto(r, "switch") /\ readers' = readers \cup {r} /\ queue' = Tail(queue)
    /\ role' = [role EXCEPT ![r] = claims]
    /\ UNCHANGED <<op, writer, claims, slot, txn, target, current, result, outside>>

QuerySwitch(r) ==
    /\ pc[r] = "switch"
    /\ readers' = readers \ {r}
    /\ \/ Goto(r, "run") /\ UNCHANGED <<txn, result>>
       \/ Answer(r, "error") /\ EndTxn(r, "rolledback")
    /\ UNCHANGED <<op, writer, queue, claims, slot, target, role, current, outside>>

\* query_all and commit; dropping the transaction on an error rolls it back.
QueryRun(r) ==
    /\ pc[r] = "run"
    /\ \/ Answer(r, "ok") /\ EndTxn(r, "committed")
       \/ Answer(r, "error") /\ EndTxn(r, "rolledback")
    /\ UNCHANGED <<op, lock, claims, slot, target, role, current, outside>>

-----------------------------------------------------------------------------
(* Connection::login and Connection::authenticate *)
\* Mutant: the claims are installed before the answer of the database is known.
AuthSqlEager(r) ==
    /\ pc[r] = "sql"
    /\ claims' = r
    /\ \/ Goto(r, "claims") /\ Ask(r, "write") /\ UNCHANGED <<txn, result>>
       \/ Answer(r, "error") /\ EndTxn(r, "rolledback") /\ UNCHANGED queue
    /\ UNCHANGED <<op, readers, writer, slot, target, role, current, outside>>

\* sql::login or sql::authenticate accepts or refuses.
AuthSql(r) ==
    /\ pc[r] = "sql"
    /\ \/ Goto(r, "claims") /\ Ask(r, "write") /\ UNCHANGED <<txn, result>>
       \/ Answer(r, "error") /\ EndTxn(r, "rolledback") /\ UNCHANGED queue
    /\ UNCHANGED <<op, readers, writer, claims, slot, target, role, current, outside>>

\* The claims are installed; authenticate then drops its transaction.
AuthClaims(r) ==
    /\ pc[r] = "claims" /\ Granted(r)
    /\ claims' = r /\ queue' = Tail(queue)
    /\ current' = [q \in Requests |-> IF q \in Asking THEN current[q] \cup {r} ELSE current[q]]
    /\ \/ op[r] = "login" /\ Goto(r, "commit") /\ UNCHANGED <<txn, result>>
       \/ op[r] = "authenticate" /\ Answer(r, "ok") /\ EndTxn(r, "rolledback")
    /\ UNCHANGED <<op, readers, writer, slot, target, role, outside>>

\* txn.commit() of login, after the claims have been installed.
LoginCommit(r) ==
    /\ pc[r] = "commit"
    /\ \/ Answer(r, "ok") /\ EndTxn(r, "committed")
       \/ Answer(r, "error") /\ EndTxn(r, "rolledback")
    /\ UNCHANGED <<op, lock, claims, slot, target, role, current, outside>>

-----------------------------------------------------------------------------
(* Connection::transaction *)
\* Mutant: the replaced session transaction is not ended.
BeginForgets(r) ==
    /\ pc[r] = "insert" /\ Granted(r)
    /\ slot' = r /\ queue' = Tail(queue) /\ Answer(r, "ok")
    /\ UNCHANGED <<op, readers, writer, claims, txn, target, role, current, outside>>

\* session.txn.insert(txn) drops, that is rolls back, the one it replaces.
Begin(r) ==
    /\ pc[r] = "insert" /\ Granted(r)
    /\ slot' = r /\ queue' = Tail(queue) /\ Answer(r, "ok")
    /\ IF slot = None THEN UNCHANGED txn ELSE EndTxn(slot, "rolledback")
    /\ UNCHANGED <<op, readers, writer, claims, target, role, current, outside>>
\* Mutant: the transaction is used and left in the session.
TakeKeeps(r) ==
    /\ pc[r] = "take" /\ Granted(r)
    /\ queue' = Tail(queue) /\ target' = [target EXCEPT ![r] = slot]
    /\ IF slot = None THEN Answer(r, "ok") /\ UNCHANGED writer
                      ELSE Goto(r, "end") /\ writer' = {r} /\ UNCHANGED result
    /\ UNCHANGED <<op, readers, claims, slot, txn, role, current, outside>>

\* session.txn.take(): the write guard is kept while the transaction ends.
Take(r) ==
    /\ pc[r] = "take" /\ Granted(r)
    /\ queue' = Tail(queue) /\ slot' = None /\ target' = [target EXCEPT ![r] = slot]
    /\ IF slot = None THEN Answer(r, "ok") /\ UNCHANGED writer
                      ELSE Goto(r, "end") /\ writer' = {r} /\ UNCHANGED result
    /\ UNCHANGED <<op, readers, claims, txn, role, current, outside>>

TakeEnd(r) ==
    /\ pc[r] = "end"
    /\ writer' = {}
    /\ \/ op[r] = "commit" /\ Answer(r, "ok") /\ EndTxn(target[r], "committed")
       \/ op[r] = "rollback" /\ Answer(r, "ok") /\ EndTxn(target[r], "rolledback")
       \/ Answer(r, "error") /\ EndTxn(target[r], "rolledback")
    /\ UNCHANGED <<op, readers, queue, claims, slot, target, role, current, outside>>

-----------------------------------------------------------------------------
(* The task spawned by Connection::query_stream ends (rows sent, or a      *)
(* panic of stream().unwrap()): its transaction is dropped either way.     *)
StreamEnd(r) ==
    /\ op[r] = "stream" /\ txn[r] = "open" /\ pc[r] \in {"reply", "done"}
    /\ EndTxn(r, "rolledback")
    /\ UNCHANGED <<op, pc, lock, claims, slot, target, role, current, result, outside>>

\* The last Arc goes: read has joined all handlers, nobody holds the lock.
DropConnection ==
    /\ ~dropped /\ Answered /\ cast = "idle"
    /\ dropped' = TRUE /\ slot' = None
    /\ IF slot = None THEN UNCHANGED txn ELSE EndTxn(slot, "rolledback")
    /\ UNCHANGED <<op, pc, lock, claims, target, role, current, result, cast, casts>>

-----------------------------------------------------------------------------
(* The loop body of start_db_change_stream for this connection *)

CastAsk ==
    /\ cast = "idle" /\ casts < Broadcasts /\ ~dropped
    /\ cast' = "first" /\ Ask("first", "read")
    /\ UNCHANGED <<op, pc, readers, writer, claims, slot, txn, target, role, current,
                   result, dropped, casts>>

\* The organization and the claims are looked at: a connection of another
\* organization or of a member is skipped.
CastFirst ==
    /\ cast = "first" /\ Granted("first")
    /\ \/ /\ claims # None /\ casts < Broadcasts
          /\ cast' = "second" /\ casts' = casts + 1 /\ readers' = readers \cup {"first"}
          /\ queue' = Append(Tail(queue), <<"second", "read">>)
       \/ cast' = "idle" /\ queue' = Tail(queue) /\ UNCHANGED <<readers, casts>>
    /\ UNCHANGED <<op, pc, writer, claims, slot, txn, target, role, current, result,
                   dropped>>

\* The second guard, then the message is sent and both guards go; in a channel
\* that stays full the send never ends.
CastSecond ==
    /\ cast = "second" /\ Granted("second")
    /\ queue' = Tail(queue)
    /\ \/ cast' = "send" /\ readers' = readers \cup {"second"}
       \/ ~Jammed /\ cast' = "idle" /\ readers' = readers \ Guards
    /\ UNCHANGED <<op, pc, writer, claims, slot, txn, target, role, current, result,
                   dropped, casts>>

-----------------------------------------------------------------------------
Process(r) ==
    \/ LimitLocked(r) \/ (\E o \in Operations : Dispatch(r, o))
    \/ BeginLocked(r) \/ BeginOk(r) \/ BeginFails(r) \/ Config(r)
    \/ QueryAuth(r) \/ QuerySwitch(r) \/ QueryRun(r)
    \/ AuthSql(r) \/ AuthClaims(r) \/ LoginCommit(r)
    \/ Begin(r) \/ Take(r) \/ TakeEnd(r)
CastOn == CastFirst \/ CastSecond

\* Requests differ in nothing but their name: the next one to arrive is any
\* that has not arrived yet.
Arriving(r) == pc[r] = "idle" /\ r = CHOOSE q \in Requests : pc[q] = "idle"

Next ==
    \/ \E r \in Requests : Process(r) \/ StreamEnd(r)
    \/ \E r \in Requests : Arriving(r) /\ Start(r)
    \/ CastAsk \/ CastOn \/ DropConnection

\* The runtime runs what can run, and the database answers.
Fairness ==
    /\ \A r \in Requests : WF_vars(Process(r)) /\ WF_vars(StreamEnd(r))
    /\ WF_vars(CastOn)

Spec == Init /\ [][Next]_vars
FairSpec == Spec /\ Fairness

-----------------------------------------------------------------------------
(* Properties *)

Labels == {"idle", "limit", "permit", "begin", "pool", "config", "auth", "switch", "run", "sql", "claims",
           "commit", "insert", "take", "end", "reply", "done"}

\* Types; the pool has never more transactions open than connections.
TypeOK ==
    /\ op \in [Requests -> AllOperations \cup {"none"}]
    /\ pc \in [Requests -> Labels]
    /\ readers \subseteq Holders /\ writer \subseteq Requests
    /\ queue \in Seq(Holders \X {"read", "write"})
    /\ claims \in Requests \cup {None} /\ slot \in Requests \cup {None}
    /\ txn \in [Requests -> {"none", "open", "committed", "rolledback"}]
    /\ target \in [Requests -> Requests \cup {None}]
    /\ role \in [Requests -> Requests \cup {None, "unset"}]
    /\ current \in [Requests -> SUBSET (Requests \cup {None})]
    /\ result \in [Requests -> {"none", "ok", "error"}]
    /\ dropped \in BOOLEAN /\ cast \in {"idle", "send"} \cup Guards /\ casts \in 0..Broadcasts
    /\ Cardinality(Open) <= PoolSize

\* No transaction keeps a pool connection without an owner: an open one
\* belongs to the request that is still processing it, to the session, to the
\* commit or rollback that took it, or to the task of a query stream.  Every
\* error path (`?') and every replaced session transaction gives it back.
OpenIsOwned ==
    \A t \in Open :
        \/ t \in Started /\ op[t] # "commit" /\ op[t] # "rollback"
        \/ slot = t
        \/ \E r \in Started : target[r] = t
        \/ op[t] = "stream"

\* The session transaction is open, and nobody else ends it: no request is
\* about to commit a transaction that another one put back or took.
SessionTxnIsOpen ==
    /\ slot # None => txn[slot] = "open" /\ op[slot] = "begin"
    /\ \A r \in Started : target[r] # None => txn[target[r]] = "open" /\ target[r] # slot
    /\ \A r, q \in Started : target[r] = target[q] /\ target[r] # None => r = q

\* A query runs under claims that were in force at some moment between its
\* start and its answer: never under those a login had replaced before it
\* started, never under none when some were in force all along.
RoleWasCurrent ==
    \A r \in Requests : role[r] # "unset" => role[r] \in current[r]

\* Claims come from a login or an authentication the database accepted; one
\* that was refused never leaves its claims behind.
ClaimsWereAccepted ==
    claims # None =>
        /\ op[claims] \in {"login", "authenticate"}
        /\ result[claims] = "error" => op[claims] = "login"

\* What has ended stays ended: a transaction that is committed or rolled back
\* is never the object of a second commit or rollback.
EndedStaysEnded ==
    [][\A r \in Requests : txn[r] \in {"committed", "rolledback"} => txn'[r] = txn[r]]_vars

\* The second guard of start_db_change_stream waits behind a writer, which
\* waits for the first guard.
ReentrantWait ==
    /\ cast = "second" /\ "first" \in readers
    /\ queue # <<>> /\ Head(queue)[2] = "write"

\* A handler waits for a permit with a read guard, behind it a writer is first
\* in line, and all permits are with handlers that wait for the lock.
Waiting == {"begin", "config", "auth", "claims", "insert", "take"}
PermitWait ==
    /\ queue # <<>> /\ Head(queue)[2] = "write"
    /\ \E r \in Requests : pc[r] = "permit"
    /\ Cardinality(Permits) = Limit /\ \A r \in Permits : pc[r] \in Waiting

\* Every request is answered, with three exceptions in which the connection
\* stands still, for ever as StandstillIsForever shows: start_db_change_stream
\* waits for its second guard behind a writer that waits for its first one; a
\* handler waits for a permit with the guard that the holders of all permits
\* wait for; a message waits for room in a channel that stays full.  Handlers
\* that wait for the pool with a read guard, while the connections they wait
\* for are held by handlers that wait to write, are released by the time limit
\* of the pool.
AnsweredOrStuck == ~Answered ~> (Answered \/ ReentrantWait \/ PermitWait \/ Jammed)
=============================================================================

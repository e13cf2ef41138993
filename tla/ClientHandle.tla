---------------------------- MODULE ClientHandle ----------------------------
(***************************************************************************)
(* The TenantDB handle of the client library (api/src/lib.rs,              *)
(* api/src/method): its clones share one OnceLock for the Router and, if   *)
(* it was made by new(), each holds a sender of the Param channel.  A      *)
(* handle made by init() is connected later, by any of its clones, and     *)
(* several may try at once: between the test that nobody has connected and *)
(* the set of the OnceLock lies the whole handshake.                       *)
(*                                                                         *)
(* A router task is known by the task whose connect started it; it runs as *)
(* long as someone holds the sender of its Route channel, and what it does *)
(* meanwhile is ClientRouter and WasmRouter.                               *)
(***************************************************************************)
EXTENDS Naturals, FiniteSets

CONSTANTS
    Tasks,     \* the application's tasks
    MaxCalls,  \* bound: calls that are made
    None       \* the OnceLock is empty

ASSUME HandleAssumption == Tasks # {} /\ None \notin Tasks /\ MaxCalls \in Nat

VARIABLES
    made,     \* how the handle was made: not yet, by "new" or by "init"
    cell,     \* TenantDB::router, the OnceLock all clones share
    holders,  \* the tasks that have a clone
    future,   \* each task's Connect future
    result,   \* what it returned
    router,   \* the router task that each task's connect started
    calling,  \* the operation each task awaits
    panicked, \* tasks that panicked in an operation of the handle
    calls     \* how many were made

vars == <<made, cell, holders, future, result, router, calling, panicked, calls>>
Kinds == {"query", "login", "authenticate", "stream", "listen"}

Init ==
    /\ made = "none" /\ cell = None /\ holders = {}
    /\ future = [t \in Tasks |-> "none"] /\ result = [t \in Tasks |-> "none"]
    /\ router = [t \in Tasks |-> "none"] /\ calling = [t \in Tasks |-> "none"]
    /\ panicked = {} /\ calls = 0

-----------------------------------------------------------------------------
(* Making, cloning and dropping handles *)

\* TenantDB::init: no router and no sender of Params.
MakeInit(t) ==
    /\ made = "none" /\ made' = "init" /\ holders' = {t}
    /\ UNCHANGED <<cell, future, result, router, calling, panicked, calls>>

\* TenantDB::new(address).await: the handle is there once the socket is.
MakeNew(t) ==
    /\ made = "none" /\ made' = "new" /\ holders' = {t} /\ cell' = t
    /\ router' = [router EXCEPT ![t] = "running"]
    /\ UNCHANGED <<future, result, calling, panicked, calls>>

Clone(t, u) ==
    /\ t \in holders /\ u \notin holders \cup panicked
    /\ holders' = holders \cup {u}
    /\ UNCHANGED <<made, cell, future, result, router, calling, panicked, calls>>

\* An operation borrows the handle until it is done; a Connect does not.
Drop(t) ==
    /\ t \in holders /\ calling[t] = "none"
    /\ holders' = holders \ {t}
    /\ UNCHANGED <<made, cell, future, result, router, calling, panicked, calls>>

-----------------------------------------------------------------------------
(* connect(..).await on a handle: Connect<Client, ()>::into_future *)

\* "Avoid establishing another connection if already connected".
ConnectCheck(t) ==
    /\ made = "init" /\ t \in holders /\ future[t] = "none" /\ calling[t] = "none"
    /\ IF cell # None
       THEN result' = [result EXCEPT ![t] = "already"] /\ UNCHANGED future
       ELSE future' = [future EXCEPT ![t] = "connecting"] /\ UNCHANGED result
    /\ UNCHANGED <<made, cell, holders, router, calling, panicked, calls>>

\* Connection::connect: a socket and a router task, or an error.
ConnectOpen(t) ==
    /\ future[t] = "connecting"
    /\ \/ /\ future' = [future EXCEPT ![t] = "opened"]
          /\ router' = [router EXCEPT ![t] = "running"]
          /\ UNCHANGED result
       \/ /\ future' = [future EXCEPT ![t] = "none"]
          /\ result' = [result EXCEPT ![t] = "failed"]
          /\ UNCHANGED router
    /\ UNCHANGED <<made, cell, holders, calling, panicked, calls>>

\* Mutant: the OnceLock is a cell that can be overwritten.
ConnectSetAnyway(t) ==
    /\ future[t] = "opened"
    /\ future' = [future EXCEPT ![t] = "done"]
    /\ cell' = t /\ result' = [result EXCEPT ![t] = "ok"]
    /\ UNCHANGED <<made, holders, router, calling, panicked, calls>>

\* self.router.set: who comes second gets an error and drops its Router.  The
\* Params' sender of the new connection is dropped either way.
ConnectSet(t) ==
    /\ future[t] = "opened"
    /\ future' = [future EXCEPT ![t] = "done"]
    /\ IF cell = None
       THEN cell' = t /\ result' = [result EXCEPT ![t] = "ok"]
       ELSE result' = [result EXCEPT ![t] = "already"] /\ UNCHANGED cell
    /\ UNCHANGED <<made, holders, router, calling, panicked, calls>>

-----------------------------------------------------------------------------
(* The operations of a handle *)

\* A panic unwinds its task, which drops its clone.
Panic(t) ==
    /\ panicked' = panicked \cup {t} /\ holders' = holders \ {t}
    /\ calling' = [calling EXCEPT ![t] = "none"]

\* param_tx.as_ref().unwrap().try_send(param).unwrap(): there must be a
\* sender, and the router must not have ended.
ParamSent == made = "new" /\ router[cell] = "running"

\* extract() unwraps the OnceLock; listen and stream send their Param first.
Call(t, k) ==
    /\ t \in holders /\ calling[t] = "none" /\ calls < MaxCalls
    /\ calls' = calls + 1
    /\ IF \/ k # "listen" /\ cell = None
          \/ k \in {"listen", "stream"} /\ ~ParamSent
       THEN Panic(t)
       ELSE /\ calling' = [calling EXCEPT ![t] = IF k = "listen" THEN "none" ELSE k]
            /\ UNCHANGED <<holders, panicked>>
    /\ UNCHANGED <<made, cell, future, result, router>>

\* Router::send and recv_query are done: login that succeeded and authenticate
\* pass the token on.
CallDone(t) ==
    /\ calling[t] # "none"
    /\ \E ok \in BOOLEAN :
        IF (calling[t] = "authenticate" \/ (calling[t] = "login" /\ ok)) /\ ~ParamSent
        THEN Panic(t)
        ELSE calling' = [calling EXCEPT ![t] = "none"] /\ UNCHANGED <<holders, panicked>>
    /\ UNCHANGED <<made, cell, future, result, router, calls>>

-----------------------------------------------------------------------------
\* Someone has the Router of t's connection, in the OnceLock or before it.
CellHeld == holders # {} \/ \E t \in Tasks : future[t] \in {"connecting", "opened"}
RouterHeld(t) == future[t] = "opened" \/ (cell = t /\ CellHeld)

\* Mutants: the first clone that is dropped closes the channel; only the
\* connection in the OnceLock is closed.
RouterQuitEarly(t) ==
    /\ router[t] = "running" /\ future[t] # "opened" /\ (cell # t \/ holders # Tasks)
    /\ router' = [router EXCEPT ![t] = "over"]
    /\ UNCHANGED <<made, cell, holders, future, result, calling, panicked, calls>>
RouterQuitOwn(t) ==
    /\ router[t] = "running" /\ cell = t /\ ~RouterHeld(t)
    /\ router' = [router EXCEPT ![t] = "over"]
    /\ UNCHANGED <<made, cell, holders, future, result, calling, panicked, calls>>

\* route_rx.recv() fails in run_router, which closes the socket and ends.
RouterQuit(t) ==
    /\ router[t] = "running" /\ ~RouterHeld(t)
    /\ router' = [router EXCEPT ![t] = "over"]
    /\ UNCHANGED <<made, cell, holders, future, result, calling, panicked, calls>>

Next == \E t \in Tasks :
    \/ MakeInit(t) \/ MakeNew(t) \/ Drop(t)
    \/ ConnectCheck(t) \/ ConnectOpen(t) \/ ConnectSet(t)
    \/ CallDone(t) \/ RouterQuit(t)
    \/ \E u \in Tasks : Clone(t, u)
    \/ \E k \in Kinds : Call(t, k)

\* A future goes on once it can, and so does a router task.
Fairness == \A t \in Tasks :
    WF_vars(ConnectOpen(t)) /\ WF_vars(ConnectSet(t)) /\ WF_vars(RouterQuit(t))

Spec == Init /\ [][Next]_vars
FairSpec == Spec /\ Fairness

-----------------------------------------------------------------------------
(* Properties *)

\* Types.
TypeOK ==
    /\ made \in {"none", "new", "init"} /\ cell \in Tasks \cup {None}
    /\ holders \subseteq Tasks /\ panicked \subseteq Tasks
    /\ future \in [Tasks -> {"none", "connecting", "opened", "done"}]
    /\ result \in [Tasks -> {"none", "ok", "already", "failed"}]
    /\ router \in [Tasks -> {"none", "running", "over"}]
    /\ calling \in [Tasks -> Kinds \cup {"none"}] /\ calls \in 0..MaxCalls

\* Of all the connects that ran at once at most one returned Ok, and it is
\* its connection that every clone uses.
OkIsInUse == \A t \in Tasks : result[t] = "ok" => cell = t

\* No operation of a handle made by new() panics in its unwraps, whatever
\* clones are dropped meanwhile: its router has not ended.
NewNeverPanics == made = "new" => panicked = {}

\* No connection leaks: each one that is opened comes to be the one all
\* clones use, or it is closed - also if its connect lost the race, or every
\* clone was dropped during the handshake.
OpenedIsUsedOrClosed ==
    \A t \in Tasks :
        (router[t] = "running") ~> ((cell = t /\ holders # {}) \/ router[t] = "over")
=============================================================================

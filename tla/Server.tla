------------------------------- MODULE Server -------------------------------
(***************************************************************************)
(* The server process: main lists the databases and opens a pool and a     *)
(* change stream for each; /org-init creates and fills a database and adds *)
(* its pool; /:organization/rpc upgrades a request to a WebSocket, which   *)
(* registers in WEBSOCKETS; a signal starts the graceful shutdown, a       *)
(* second one forces it.  PostgreSQL and what clients were told outlive    *)
(* the process, which may also crash at any step.                          *)
(*                                                                         *)
(* axum_server is modelled from its use: graceful_shutdown stops accepting,*)
(* and serve returns when no HTTP connection is left; an upgraded          *)
(* connection is not an HTTP connection any more.  serve returning ends    *)
(* main, and with it every task.                                           *)
(***************************************************************************)
EXTENDS Naturals, FiniteSets

CONSTANTS
    Orgs,       \* organization names, that is database names
    Inits,      \* calls of /org-init
    Sockets,    \* WebSocket clients
    MaxStarts   \* bound: starts of the process

ASSUME ServerAssumption ==
    MaxStarts \in Nat /\ IsFiniteSet(Sockets) /\ IsFiniteSet(Inits) /\ Orgs # {}

VARIABLES
    database,   \* what PostgreSQL holds of each organization
    process,    \* "starting", "serving", "stopped" (main returned), "crashed"
    starts,     \* how often main was started
    listed,     \* names main has still to connect to
    pools,      \* DbConnection.pools
    streams,    \* organizations with a change stream
    init,       \* each call of /org-init: [at, org, since]
    socket,     \* where each WebSocket client is
    websockets, \* WEBSOCKETS
    cancelled,  \* connections whose canceller was cancelled
    graceful,   \* the task that graceful_shutdown spawns
    forced      \* the second signal was taken up

storage == <<database, init>>
registry == <<pools, streams, listed>>
sockets == <<socket, websockets, cancelled>>
stopping == <<graceful, forced>>
vars == <<storage, process, starts, registry, sockets, stopping>>

Busy == {"create", "fill", "register"}
Down == process \in {"stopped", "crashed"}

\* Mutant: upgraded connections count as well.
ConnectionsUpgraded ==
    {i \in Inits : init[i].at \in Busy}
        \cup {s \in Sockets : socket[s] \in {"http", "upgraded", "open"}}

\* http_handle.connection_count(): requests that are being handled.
Connections ==
    {i \in Inits : init[i].at \in Busy} \cup {s \in Sockets : socket[s] = "http"}
Accepting == process = "serving" /\ graceful = "idle" /\ ~forced
\* A read guard of WEBSOCKETS that lives across the pass of rpc_graceful_shutdown.
ReadLocked == graceful = "passing"

Init ==
    /\ database = [o \in Orgs |-> "absent"]
    /\ init = [i \in Inits |-> [at |-> "idle", org |-> CHOOSE o \in Orgs : TRUE, since |-> 0]]
    /\ process = "stopped" /\ starts = 0
    /\ listed = {} /\ pools = {} /\ streams = {}
    /\ socket = [s \in Sockets |-> "none"] /\ websockets = {} /\ cancelled = {}
    /\ graceful = "idle" /\ forced = FALSE

-----------------------------------------------------------------------------
(* main *)

\* Every database but postgres and the templates, filled or not.
MainList ==
    /\ Down /\ starts < MaxStarts
    /\ process' = "starting" /\ starts' = starts + 1
    /\ listed' = {o \in Orgs : database[o] # "absent"}
    /\ UNCHANGED <<storage, pools, streams, sockets, stopping>>

\* Mutant: the pool is opened but not added to the map.
MainConnectForgets(o) ==
    /\ process = "starting" /\ o \in listed
    /\ listed' = listed \ {o} /\ streams' = streams \cup {o}
    /\ UNCHANGED <<storage, process, starts, pools, sockets, stopping>>

\* conn.add and stream_db for the next name.
MainConnect(o) ==
    /\ process = "starting" /\ o \in listed
    /\ listed' = listed \ {o} /\ pools' = pools \cup {o} /\ streams' = streams \cup {o}
    /\ UNCHANGED <<storage, process, starts, sockets, stopping>>

MainServe ==
    /\ process = "starting" /\ listed = {}
    /\ process' = "serving"
    /\ UNCHANGED <<storage, starts, registry, sockets, stopping>>

\* The process is gone: its tasks end where they are.
ProcessEnds(how) ==
    /\ process' = how
    /\ listed' = {} /\ pools' = {} /\ streams' = {}
    /\ init' = [i \in Inits |-> IF init[i].at \in Busy THEN [init[i] EXCEPT !.at = "error"]
                                                       ELSE init[i]]
    /\ socket' = [s \in Sockets |-> IF socket[s] = "none" THEN "none" ELSE "gone"]
    /\ websockets' = {} /\ cancelled' = {}
    /\ graceful' = "idle" /\ forced' = FALSE
    /\ UNCHANGED <<database, starts>>

\* A crash, or main's expect on a database it cannot connect to.
Crash == ~Down /\ ProcessEnds("crashed")

-----------------------------------------------------------------------------
(* organization_init and init_organization *)

To(i, l) == init' = [init EXCEPT ![i].at = l]

\* Is there such a database?  If there is, it is connected to as it is.
InitCheck(i, o) ==
    /\ Accepting /\ init[i].at = "idle"
    /\ init' = [init EXCEPT ![i].org = o,
                            ![i].at = IF database[o] = "absent" THEN "create" ELSE "register"]
    /\ UNCHANGED <<database, process, starts, registry, sockets, stopping>>

\* Mutant: creating a database that exists is not an error.
InitCreateAgain(i) ==
    /\ init[i].at = "create"
    /\ database' = [database EXCEPT ![init[i].org] = "empty"] /\ To(i, "fill")
    /\ UNCHANGED <<process, starts, registry, sockets, stopping>>

\* CREATE DATABASE, outside of any transaction; it fails when another call
\* was faster.
InitCreate(i) ==
    /\ init[i].at = "create"
    /\ LET o == init[i].org IN
       IF database[o] = "absent" THEN database' = [database EXCEPT ![o] = "empty"] /\ To(i, "fill")
                                 ELSE To(i, "error") /\ UNCHANGED database
    /\ UNCHANGED <<process, starts, registry, sockets, stopping>>

\* The scripts, in the order of their prefix, and create_organization, in
\* one transaction.
InitFill(i) ==
    /\ init[i].at = "fill"
    /\ database' = [database EXCEPT ![init[i].org] = "filled"] /\ To(i, "register")
    /\ UNCHANGED <<process, starts, registry, sockets, stopping>>

\* Mutant: the failed fill still adds the pool.
InitFailsLate(i) ==
    /\ init[i].at = "fill"
    /\ To(i, "register")
    /\ UNCHANGED <<database, process, starts, registry, sockets, stopping>>

\* Any `?': a connection, a script that cannot be read or executed; or the
\* client goes away and the handler is dropped where it waits.
InitFails(i) ==
    /\ init[i].at \in Busy
    /\ To(i, "error")
    /\ UNCHANGED <<database, process, starts, registry, sockets, stopping>>

\* state.db.add, and the answer.
InitRegister(i) ==
    /\ init[i].at = "register"
    /\ pools' = pools \cup {init[i].org}
    /\ init' = [init EXCEPT ![i].at = "ok", ![i].since = starts]
    /\ UNCHANGED <<database, process, starts, listed, streams, sockets, stopping>>

-----------------------------------------------------------------------------
(* get_handler, handle_socket, and the life of a connection seen from here *)

\* The request names an organization with a pool; any other is NOT_FOUND.
SocketRequest(s) ==
    /\ Accepting /\ socket[s] = "none" /\ pools # {}
    /\ socket' = [socket EXCEPT ![s] = "http"]
    /\ UNCHANGED <<storage, process, starts, registry, websockets, cancelled, stopping>>

\* on_upgrade: from now on a task of its own, and no HTTP connection.
SocketUpgrade(s) ==
    /\ socket[s] = "http"
    /\ socket' = [socket EXCEPT ![s] = "upgraded"]
    /\ UNCHANGED <<storage, process, starts, registry, websockets, cancelled, stopping>>

SocketRegister(s) ==
    /\ socket[s] = "upgraded" /\ ~ReadLocked
    /\ socket' = [socket EXCEPT ![s] = "open"] /\ websockets' = websockets \cup {s}
    /\ UNCHANGED <<storage, process, starts, registry, cancelled, stopping>>

\* The client leaves, or the cancelled tasks have been joined (RpcConnection).
SocketEnd(s) ==
    /\ socket[s] = "open" /\ ~ReadLocked
    /\ socket' = [socket EXCEPT ![s] = "gone"] /\ websockets' = websockets \ {s}
    /\ UNCHANGED <<storage, process, starts, registry, cancelled, stopping>>

-----------------------------------------------------------------------------
(* graceful_shutdown, rpc_graceful_shutdown, rpc_shutdown *)

\* The first signal: http_handle.graceful_shutdown(None).
Signal ==
    /\ process = "serving" /\ graceful = "idle" /\ ~forced
    /\ graceful' = "http"
    /\ UNCHANGED <<storage, process, starts, registry, sockets, forced>>

GracefulHttp ==
    /\ graceful = "http" /\ Connections = {}
    /\ graceful' = "pass"
    /\ UNCHANGED <<storage, process, starts, registry, sockets, forced>>

\* WEBSOCKETS.read() is held while each connection is cancelled.
GracefulLock ==
    /\ graceful = "pass"
    /\ graceful' = "passing"
    /\ UNCHANGED <<storage, process, starts, registry, sockets, forced>>

GracefulCancel ==
    /\ graceful = "passing"
    /\ graceful' = "wait" /\ cancelled' = cancelled \cup websockets
    /\ UNCHANGED <<storage, process, starts, registry, socket, websockets, forced>>

\* The map is empty: ct.cancel(), and the task ends.
GracefulDone ==
    /\ graceful = "wait" /\ websockets = {}
    /\ graceful' = "done"
    /\ UNCHANGED <<storage, process, starts, registry, sockets, forced>>

\* The second signal: http_handle.shutdown(), and the map is drained unless
\* somebody holds its lock.  The graceful task is not aborted.
SecondSignal ==
    /\ process = "serving" /\ graceful \notin {"idle", "done"} /\ ~forced
    /\ forced' = TRUE
    /\ \/ ~ReadLocked /\ websockets' = {}
       \/ UNCHANGED websockets
    /\ UNCHANGED <<storage, process, starts, registry, socket, cancelled, graceful>>

\* axum_server's serve returns, main with it: nobody waits for the task.
ServeReturns ==
    /\ process = "serving"
    /\ forced \/ (graceful # "idle" /\ Connections = {})
    /\ ProcessEnds("stopped")

-----------------------------------------------------------------------------
InitStep(i) == InitCreate(i) \/ InitFill(i) \/ InitFails(i) \/ InitRegister(i)
Graceful == GracefulHttp \/ GracefulLock \/ GracefulCancel \/ GracefulDone
Main == MainList \/ MainServe \/ \E o \in Orgs : MainConnect(o)

Next ==
    \/ Main \/ Crash \/ Signal \/ SecondSignal \/ Graceful \/ ServeReturns
    \/ \E i \in Inits : InitStep(i) \/ \E o \in Orgs : InitCheck(i, o)
    \/ \E s \in Sockets :
           SocketRequest(s) \/ SocketUpgrade(s) \/ SocketRegister(s) \/ SocketEnd(s)

\* Handlers come to an end and serve returns when it can; clients, signals
\* and crashes are not fair.
Fairness ==
    /\ WF_vars(ServeReturns)
    /\ \A i \in Inits : WF_vars(InitStep(i))
    /\ \A s \in Sockets : WF_vars(SocketUpgrade(s))

Spec == Init /\ [][Next]_vars
FairSpec == Spec /\ Fairness

-----------------------------------------------------------------------------
(* Properties *)

\* Types.
TypeOK ==
    /\ database \in [Orgs -> {"absent", "empty", "filled"}]
    /\ process \in {"starting", "serving", "stopped", "crashed"} /\ starts \in 0..MaxStarts
    /\ listed \subseteq Orgs /\ pools \subseteq Orgs /\ streams \subseteq pools
    /\ init \in [Inits -> [at : Busy \cup {"idle", "ok", "error"}, org : Orgs,
                           since : 0..MaxStarts]]
    /\ socket \in [Sockets -> {"none", "http", "upgraded", "open", "gone"}]
    /\ websockets \subseteq Sockets /\ cancelled \subseteq Sockets
    /\ graceful \in {"idle", "http", "pass", "passing", "wait", "done"} /\ forced \in BOOLEAN

\* An organization whose creation was answered with success can be used for
\* as long as the server serves, and again after every restart; after a
\* restart it also has a change stream.  (Until then it has none: only main
\* starts one.)
OkIsServed ==
    \A i \in Inits : init[i].at = "ok" /\ process = "serving" =>
        /\ init[i].org \in pools
        /\ init[i].since < starts => init[i].org \in streams

\* One call at most fills a database, one that it created itself and that is
\* still empty, whatever the calls for the same name do at the same time: the
\* scripts never run a second time.
OneFiller ==
    \A i \in Inits : init[i].at = "fill" =>
        /\ database[init[i].org] = "empty"
        /\ \A j \in Inits : init[j].at = "fill" /\ init[j].org = init[i].org => i = j

\* An organization is served from an unfilled database only while the call
\* that created it still fills it, or after that call failed or was cut off
\* between CREATE DATABASE and the commit.
EmptyIsUnfinished ==
    \A o \in pools : database[o] # "filled" =>
        /\ database[o] = "empty"
        /\ \E i \in Inits : init[i].org = o /\ init[i].at \in {"fill", "error"}

\* A signal ends the process: the requests being handled end, and open
\* WebSocket connections do not hold it up.
ShutdownEnds == (graceful # "idle") ~> Down
=============================================================================

----------------------------- MODULE WasmRouter -----------------------------
(***************************************************************************)
(* The client's router as it is built for the browser                      *)
(* (api/src/engine/ws/wasm.rs), next to the native one.  It is ClientRouter*)
(* with three differences: the socket reports its failure as events too,   *)
(* which the select takes in any order with everything else; an Error      *)
(* event starts the router over WITHOUT a new socket; and the token of the *)
(* ConnectOptions stays in the URL, so that a reconnection that has no     *)
(* token in its state uses that one.                                       *)
(***************************************************************************)
EXTENDS ClientRouter

VARIABLES
    build,   \* which of the two modules was compiled in
    events   \* the events of the socket that were not taken yet

both == <<vars, build, events>>

BothInit == Init /\ build \in {"native", "wasm"} /\ events = <<>>

Native(A) == build = "native" /\ A /\ UNCHANGED <<build, events>>
Wasm(A) == build = "wasm" /\ A /\ UNCHANGED <<build, events>>

-----------------------------------------------------------------------------
\* run_router sets the URL, connects and reports to Connect::into_future.
WasmConnect(t) == Wasm(Connect(t))

WasmParam == Wasm(RouterParam)

\* router_handle_request; the native build's router_handle_route.
WasmRequest == Wasm(RouterRoute)

\* router_handle_response.
WasmResponse == Wasm(Incoming)

\* stream.next() is None, or a ping cannot be sent.
WasmDisconnected == Wasm(RouterDisconnected)

\* The browser reports the failure: an error and the end, or just the end.
WasmBreak ==
    /\ build = "wasm" /\ LinkBreak
    /\ events' \in {<<"error", "closed">>, <<"closed">>}
    /\ UNCHANGED build

\* WsEvent::Error breaks the inner loop: everything is started over, the
\* token is lost, and the socket is still the failed one.
WasmEventError ==
    /\ build = "wasm" /\ router = "select" /\ events # <<>> /\ Head(events) = "error"
    /\ events' = Tail(events)
    /\ StartOver
    /\ UNCHANGED <<kind, queues, router, channel, link, breaks, server, wire, got, history, build>>

WasmEventClosed ==
    /\ build = "wasm" /\ router = "select" /\ events # <<>> /\ Head(events) = "closed"
    /\ router' = "reconnecting" /\ events' = Tail(events)
    /\ UNCHANGED <<callers, queues, state, link, breaks, server, wire, streams, history, build>>

\* Mutant: the token of the options is not in the URL.
WasmReconnectBare ==
    /\ build = "wasm" /\ NewSocket(token) /\ StartOver
    /\ events' = <<>> /\ UNCHANGED <<routeQ, build>>

\* router_reconnect: the events are those of the new socket.
WasmReconnect ==
    /\ build = "wasm"
    /\ NewSocket(IF token # Nobody THEN token ELSE given) /\ StartOver
    /\ events' = <<>> /\ UNCHANGED <<routeQ, build>>

WasmQuit == Wasm(RouterQuit)

-----------------------------------------------------------------------------
WasmNext ==
    \/ \E t \in {Nobody} \cup Given : WasmConnect(t)
    \/ WasmParam \/ WasmRequest \/ WasmResponse \/ WasmDisconnected
    \/ WasmEventError \/ WasmEventClosed \/ WasmReconnect \/ WasmQuit \/ WasmBreak
    \/ Wasm(Around)

BothNext == Native(Next) \/ WasmNext

\* The select is fair to each of its branches (both select macros pick among
\* the ready ones at random), the server answers and sends, a caller goes on
\* with its answer, and some attempt to reconnect succeeds.
Either(A) == A /\ UNCHANGED <<build, events>>
Fairness ==
    /\ SF_both(Either(RouterParam)) /\ SF_both(Either(RouterRoute)) /\ SF_both(Either(Incoming))
    /\ WF_both(Either(RouterDisconnected))
    /\ WF_both(Native(RouterReconnect) \/ WasmReconnect)
    /\ \A c \in Calls : WF_both(Either(Server(c))) /\ WF_both(Either(CallReturn(c)))

BothSpec == BothInit /\ [][BothNext]_both
FairSpec == BothSpec /\ Fairness

-----------------------------------------------------------------------------
(* Properties, besides those of ClientRouter for both builds *)

\* In the native build the first reconnection after a good token was taken
\* up gives the session back to it.
NativeKeepsIdentity == build = "native" => FirstReconnectKeepsIdentity

\* A browser client that was built with a good token is anonymous only after
\* authenticate took up a token the server refuses: however often the socket
\* fails, with or without an Error event, the URL's token brings it back.
WasmKeepsGiven ==
    (build = "wasm" /\ given \in Good /\ session = Nobody) =>
        \E c \in Calls \ Good : kind[c] = "authenticate" /\ call[c] = "returned"
=============================================================================

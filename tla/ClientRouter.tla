---------------------------- MODULE ClientRouter ----------------------------
(***************************************************************************)
(* The client library's router (api/src/engine/ws/native.rs): one task     *)
(* between the callers of TenantDB and the WebSocket.  Callers send it     *)
(* Routes (a request and the channel for its answer) and Params (the       *)
(* sender of a query stream or of a listener, or a token) over two         *)
(* channels; its select takes them, and the messages of the server, in any *)
(* order.  When the socket fails it reconnects, with the token it has, and *)
(* starts over.  A bounded Route channel (opts.capacity) only delays a     *)
(* caller before its Call step and is left out.                            *)
(*                                                                         *)
(* A call is named by its request id (Router::next_id never repeats one).  *)
(* The server is what RpcConnection and RpcSession make of it: it answers  *)
(* a request at most once, and a query stream's rows are sent by a task of *)
(* their own, before or after the answer.                                  *)
(***************************************************************************)
EXTENDS Integers, Sequences, FiniteSets

CONSTANTS
    Calls,      \* the calls made on the TenantDB
    Kinds,      \* the operations the callers use
    Given,      \* the tokens the client may be built with
    Good,       \* what the server accepts: the tokens of Given and of calls that are good
    Rows,       \* bound: rows of a query stream
    MaxChanges, \* bound: committed changes the server pushes
    MaxWire,    \* bound: messages under way to the client, then the server waits
    MaxBreaks,  \* bound: how often the socket fails
    Nobody      \* no token, an anonymous session

ASSUME RouterAssumption ==
    /\ Kinds \subseteq {"query", "login", "authenticate", "stream", "listen"}
    /\ Good \subseteq Calls \cup Given /\ Nobody \notin Calls \cup Given /\ Given \cap Calls = {}
    /\ Rows \in Nat /\ MaxBreaks \in Nat /\ MaxChanges \in Nat /\ MaxWire \in Nat \ {0}

VARIABLES
    kind,      \* what each call is
    call,      \* where the caller is
    routeQ,    \* the channel of Routes
    paramQ,    \* the channel of Params: <<"stream", "listen" or "token", who>>
    router,    \* the router task is unborn, in its select, reconnecting, or over
    routes,    \* state.routes
    live,      \* state.live_queries
    channel,   \* state.channels: the listener of "db_changes"
    token,     \* state.token
    given,     \* the token of ConnectOptions
    link,      \* the socket
    breaks,    \* how often it failed
    atServer,  \* requests the server has still to answer
    sending,   \* query streams the server still sends, with rows sent so far
    wire,      \* messages on their way to the client
    session,   \* who the server's session belongs to
    performed, \* how often the server performed each call
    changes,   \* how many committed changes it pushed
    got,       \* the rows or changes each QueryStream or Listen received
    over,      \* streams whose receiver has seen the end
    taken,     \* the token that was last taken up ...
    since      \* ... and the reconnections since; -1 before the first

callers == <<kind, call>>
queues == <<routeQ, paramQ>>
state == <<routes, live, channel, token>>
server == <<atServer, sending, session, performed, changes>>
streams == <<got, over>>
history == <<given, taken, since>>
vars == <<callers, queues, router, state, link, breaks, server, wire, streams, history>>

InSeq(x, s) == \E i \in 1..Len(s) : s[i] = x

Init ==
    /\ kind = [c \in Calls |-> "none"] /\ call = [c \in Calls |-> "idle"]
    /\ routeQ = <<>> /\ paramQ = <<>>
    /\ router = "unborn" /\ routes = {} /\ live = {} /\ channel = Nobody /\ token = Nobody
    /\ link = "open" /\ breaks = 0
    /\ atServer = {} /\ sending = [c \in Calls |-> -1] /\ wire = <<>> /\ session = Nobody
    /\ performed = [c \in Calls |-> 0] /\ changes = 0
    /\ got = [c \in Calls |-> <<>>] /\ over = {}
    /\ given = Nobody /\ taken = Nobody /\ since = -1

\* Session::from_request_parts: a token that is refused leaves no claims.
Claims(t) == IF t \in Good THEN t ELSE Nobody

\* The Params: each carries one thing.
TokenParam(t) == <<"token", t>>
StreamParam(c) == <<"stream", c>>
ListenParam(c) == <<"listen", c>>

\* Connect::into_future: the handshake carries the token of the options, and
\* the router is sent it again as a Param.
Connect(t) ==
    /\ router = "unborn"
    /\ router' = "select" /\ given' = t /\ session' = Claims(t)
    /\ paramQ' = IF t = Nobody THEN <<>> ELSE <<TokenParam(t)>>
    /\ UNCHANGED <<callers, routeQ, state, link, breaks, atServer, sending, performed,
                   changes, wire, streams, taken, since>>

-----------------------------------------------------------------------------
(* The callers: method/query.rs, login.rs, authenticate.rs *)

\* A new id and a Route for it.
Send(c) == routeQ' = Append(routeQ, c)

\* Query::into_future, Query::stream, Login and Authenticate up to their
\* await; stream() sends its Param first.
Call(c, k) ==
    /\ call[c] = "idle" /\ k # "listen" /\ router \in {"select", "reconnecting"}
    /\ kind' = [kind EXCEPT ![c] = k] /\ call' = [call EXCEPT ![c] = "waiting"]
    /\ Send(c)
    /\ paramQ' = IF k = "stream" THEN Append(paramQ, StreamParam(c)) ELSE paramQ
    /\ UNCHANGED <<router, state, link, breaks, server, wire, streams, history>>

\* TenantDB::listen is a Param only.
Listen(c) ==
    /\ call[c] = "idle" /\ "listen" \in Kinds /\ router \in {"select", "reconnecting"}
    /\ kind' = [kind EXCEPT ![c] = "listen"] /\ call' = [call EXCEPT ![c] = "returned"]
    /\ paramQ' = Append(paramQ, ListenParam(c))
    /\ UNCHANGED <<routeQ, router, state, link, breaks, server, wire, streams, history>>

\* login passes its token on when it succeeded, authenticate whatever the
\* answer was.
PassesToken(c) == kind[c] = "authenticate" \/ (kind[c] = "login" /\ call[c] = "ok")

\* execute_query: recv_query has returned.  authenticate is Ok either way.
CallReturn(c) ==
    /\ call[c] \in {"ok", "error"}
    /\ call' = [call EXCEPT ![c] =
                    IF @ = "ok" \/ kind[c] = "authenticate" THEN "returned" ELSE "failed"]
    /\ paramQ' = IF PassesToken(c) THEN Append(paramQ, TokenParam(c)) ELSE paramQ
    /\ UNCHANGED <<kind, routeQ, router, state, link, breaks, server, wire, streams, history>>

-----------------------------------------------------------------------------
(* run_router *)

\* A new listener replaces the old one, whose stream ends.
RouterParam ==
    /\ router = "select" /\ paramQ # <<>>
    /\ paramQ' = Tail(paramQ)
    /\ LET p == Head(paramQ) IN
       \/ /\ p[1] = "stream" /\ live' = live \cup {p[2]}
          /\ UNCHANGED <<token, channel, over, taken, since>>
       \/ /\ p[1] = "listen" /\ channel' = p[2] /\ over' = over \cup ({channel} \ {Nobody})
          /\ UNCHANGED <<token, live, taken, since>>
       \/ /\ p[1] = "token" /\ token' = p[2] /\ taken' = p[2] /\ since' = 0
          /\ UNCHANGED <<live, channel, over>>
    /\ UNCHANGED <<callers, routeQ, router, routes, link, breaks, server, wire, got, given>>
\* Mutant: the sender of a Route that could not be sent is kept alive.
RouterRouteSilent ==
    /\ router = "select" /\ routeQ # <<>>
    /\ routeQ' = Tail(routeQ)
    /\ \/ /\ routes' = routes \cup {Head(routeQ)}
          /\ atServer' = IF link = "open" THEN atServer \cup {Head(routeQ)} ELSE atServer
          /\ UNCHANGED router
       \/ /\ link = "broken" /\ router' = "reconnecting"
          /\ UNCHANGED <<routes, atServer>>
    /\ UNCHANGED <<callers, paramQ, live, channel, token, link, breaks, sending, session,
                   performed, changes, wire, streams, history>>

\* router_handle_route.  A send on a failed socket may still succeed, into
\* its buffer; when it fails the Route is dropped, and its caller told so.
RouterRoute ==
    /\ router = "select" /\ routeQ # <<>>
    /\ routeQ' = Tail(routeQ)
    /\ LET c == Head(routeQ) IN
       \/ /\ routes' = routes \cup {c}
          /\ atServer' = IF link = "open" THEN atServer \cup {c} ELSE atServer
          /\ UNCHANGED <<call, router>>
       \/ /\ link = "broken" /\ router' = "reconnecting"
          /\ call' = [call EXCEPT ![c] = "error"]
          /\ UNCHANGED <<routes, atServer>>
    /\ UNCHANGED <<kind, paramQ, live, channel, token, link, breaks, sending, session,
                   performed, changes, wire, streams, history>>

\* stream.next() and try_from_message.
Received(what) == router = "select" /\ wire # <<>> /\ Head(wire)[1] = what /\ wire' = Tail(wire)

\* router_handle_response for the things the server sends.
RouterResponse ==
    /\ Received("response")
    /\ LET c == Head(wire)[2] IN
       /\ routes' = routes \ {c}
       /\ call' = IF c \in routes THEN [call EXCEPT ![c] = Head(wire)[3]] ELSE call
    /\ UNCHANGED <<kind, queues, router, live, channel, token, link, breaks, server, streams,
                   history>>
\* Mutant: the row is looked at and stays in the stream.
RouterRowPeek ==
    /\ router = "select" /\ wire # <<>> /\ Head(wire)[1] = "row"
    /\ LET c == Head(wire)[2] IN
       got' = IF c \in live THEN [got EXCEPT ![c] = Append(@, Head(wire)[3])] ELSE got
    /\ UNCHANGED <<callers, queues, router, state, link, breaks, server, wire, over, history>>

\* A notification without a registered sender is dropped.
RouterRow ==
    /\ Received("row")
    /\ LET c == Head(wire)[2] IN
       got' = IF c \in live THEN [got EXCEPT ![c] = Append(@, Head(wire)[3])] ELSE got
    /\ UNCHANGED <<callers, queues, router, state, link, breaks, server, over, history>>

\* data: None ends the QueryStream; the entry stays in live_queries.
RouterEnd ==
    /\ Received("end")
    /\ over' = IF Head(wire)[2] \in live THEN over \cup {Head(wire)[2]} ELSE over
    /\ UNCHANGED <<callers, queues, router, state, link, breaks, server, got, history>>

RouterChange ==
    /\ Received("change")
    /\ got' = IF channel = Nobody THEN got
              ELSE [got EXCEPT ![channel] = Append(@, Head(wire)[2])]
    /\ UNCHANGED <<callers, queues, router, state, link, breaks, server, over, history>>

\* stream.next() is an error or None, or a ping cannot be sent.
RouterDisconnected ==
    /\ router = "select" /\ link = "broken"
    /\ router' = "reconnecting"
    /\ UNCHANGED <<callers, queues, state, link, breaks, server, wire, streams, history>>

\* 'router starts over: the senders of all pending answers and query streams
\* are dropped and the token is taken out of the state; the listener stays.
StartOver ==
    /\ call' = [c \in Calls |-> IF c \in routes THEN "error" ELSE call[c]]
    /\ over' = over \cup live
    /\ routes' = {} /\ live' = {} /\ token' = Nobody

\* A new socket, for the session that the handshake's token stands for.  What
\* the server had received it may still perform, without anyone to answer.
NewSocket(t) ==
    /\ router = "reconnecting"
    /\ router' = "select" /\ link' = "open" /\ session' = Claims(t)
    /\ atServer' = {} /\ sending' = [c \in Calls |-> -1] /\ wire' = <<>>
    /\ \E late \in SUBSET atServer :
           performed' = [c \in Calls |-> IF c \in late THEN performed[c] + 1 ELSE performed[c]]
    /\ since' = IF since = -1 THEN -1 ELSE since + 1
    /\ UNCHANGED <<kind, paramQ, channel, breaks, changes, got, given, taken>>

\* Mutants: what was not answered is sent again; its callers get no answer;
\* the token is taken before it is used.
RouterReconnectAgain ==
    /\ NewSocket(token)
    /\ over' = over \cup live /\ live' = {} /\ token' = Nobody /\ routes' = {}
    /\ \E again \in {<<>>} \cup {<<c>> : c \in routes} : routeQ' = again \o routeQ
    /\ UNCHANGED call
RouterReconnectForgets ==
    /\ NewSocket(token)
    /\ routes' = {} /\ live' = {} /\ token' = Nobody
    /\ UNCHANGED <<routeQ, call, over>>
RouterReconnectAnonymous == NewSocket(Nobody) /\ StartOver /\ UNCHANGED routeQ

\* router_reconnect succeeded, with the token if there is one.
RouterReconnect == NewSocket(token) /\ StartOver /\ UNCHANGED routeQ

\* The TenantDB was dropped: route_rx.recv() fails, the router says Close.
RouterQuit ==
    /\ router = "select" /\ routeQ = <<>>
    /\ \A c \in Calls : call[c] \in {"idle", "returned", "failed"}
    /\ router' = "over" /\ over' = over \cup live \cup ({channel} \ {Nobody})
    /\ live' = {} /\ channel' = Nobody /\ wire' = <<>>
    /\ UNCHANGED <<callers, queues, routes, token, link, breaks, server, got, history>>

-----------------------------------------------------------------------------
(* The server, and the network *)

CanSend == link = "open" /\ Len(wire) < MaxWire

\* query_stream spawns the task that sends the rows, then answers.
ServerStream(c) ==
    /\ link = "open" /\ c \in atServer /\ kind[c] = "stream" /\ sending[c] = -1
    /\ sending' = [sending EXCEPT ![c] = 0]
    /\ UNCHANGED <<callers, queues, router, state, link, breaks, atServer, session, performed,
                   changes, wire, streams, history>>

ServerAnswer(c) ==
    /\ CanSend /\ c \in atServer
    /\ atServer' = atServer \ {c} /\ performed' = [performed EXCEPT ![c] = @ + 1]
    /\ \E res \in {"ok", "error"} :
       /\ kind[c] \in {"login", "authenticate"} => (res = "ok" <=> c \in Good)
       /\ kind[c] = "stream" => (res = "ok" <=> sending[c] # -1)
       /\ wire' = Append(wire, <<"response", c, res>>)
       /\ session' = IF kind[c] \in {"login", "authenticate"} /\ res = "ok" THEN c ELSE session
    /\ UNCHANGED <<callers, queues, router, state, link, breaks, sending, changes, streams,
                   history>>

\* The spawned task sends its rows before or after the answer.
ServerRow(c) ==
    /\ CanSend /\ sending[c] \in 0..(Rows - 1)
    /\ sending' = [sending EXCEPT ![c] = @ + 1]
    /\ wire' = Append(wire, <<"row", c, sending[c] + 1>>)
    /\ UNCHANGED <<callers, queues, router, state, link, breaks, atServer, session, performed,
                   changes, streams, history>>

\* The end, or no end at all when the statement made the task panic.
ServerEnd(c) ==
    /\ CanSend /\ sending[c] \in 0..Rows
    /\ \/ wire' = Append(wire, <<"end", c>>) /\ sending' = [sending EXCEPT ![c] = Rows + 1]
       \/ sending[c] = 0 /\ sending' = [sending EXCEPT ![c] = Rows + 2] /\ UNCHANGED wire
    /\ UNCHANGED <<callers, queues, router, state, link, breaks, atServer, session, performed,
                   changes, streams, history>>

\* The server pushes a committed change to a session with claims.
ServerChange ==
    /\ changes < MaxChanges /\ CanSend /\ session # Nobody
    /\ changes' = changes + 1 /\ wire' = Append(wire, <<"change", changes + 1>>)
    /\ UNCHANGED <<callers, queues, router, state, link, breaks, atServer, sending, session,
                   performed, streams, history>>

\* What was under way may still be read; the router may as well notice the
\* failure first (RouterDisconnected), which loses it.
LinkBreak ==
    /\ link = "open" /\ router = "select" /\ breaks < MaxBreaks
    /\ link' = "broken" /\ breaks' = breaks + 1
    /\ UNCHANGED <<callers, queues, router, state, server, wire, streams, history>>

-----------------------------------------------------------------------------
Incoming == RouterResponse \/ RouterRow \/ RouterEnd \/ RouterChange
Server(c) == ServerStream(c) \/ ServerAnswer(c) \/ ServerRow(c) \/ ServerEnd(c)
\* The callers and the server, which do not know the client's build.
Around ==
    \/ \E c \in Calls : CallReturn(c) \/ Server(c) \/ Listen(c) \/ \E k \in Kinds : Call(c, k)
    \/ ServerChange

Next ==
    \/ \E t \in {Nobody} \cup Given : Connect(t)
    \/ RouterParam \/ RouterRoute \/ Incoming \/ RouterDisconnected \/ RouterReconnect
    \/ RouterQuit \/ LinkBreak \/ Around

Spec == Init /\ [][Next]_vars

-----------------------------------------------------------------------------
(* Properties *)

Wire == {<<"response", c, r>> : c \in Calls, r \in {"ok", "error"}}
            \cup {<<"row", c, n>> : c \in Calls, n \in 1..Rows}
            \cup {<<"end", c>> : c \in Calls} \cup {<<"change", n>> : n \in 1..MaxChanges}
Tokens == Calls \cup Given \cup {Nobody}

\* Types.
TypeOK ==
    /\ kind \in [Calls -> Kinds \cup {"none"}]
    /\ call \in [Calls -> {"idle", "waiting", "ok", "error", "returned", "failed"}]
    /\ routeQ \in Seq(Calls) /\ paramQ \in Seq({"stream", "listen", "token"} \X Tokens)
    /\ router \in {"unborn", "select", "reconnecting", "over"}
    /\ routes \subseteq Calls /\ live \subseteq Calls /\ channel \in Calls \cup {Nobody}
    /\ {token, session, given, taken} \subseteq Tokens
    /\ link \in {"open", "broken"} /\ breaks \in 0..MaxBreaks
    /\ atServer \subseteq Calls /\ sending \in [Calls -> -1..(Rows + 2)]
    /\ performed \in [Calls -> 0..1] /\ changes \in 0..MaxChanges
    /\ wire \in Seq(Wire)
    /\ got \in [Calls -> Seq(Nat)] /\ over \subseteq Calls
    /\ since \in -1..MaxBreaks

\* No caller is forgotten and none is answered twice: a call waits exactly as
\* long as its Route is in the channel or its sender in state.routes, in one
\* of the two and once.
WaitingIsRouted ==
    /\ \A c \in Calls : call[c] = "waiting" <=> (InSeq(c, routeQ) \/ c \in routes)
    /\ \A i \in 1..Len(routeQ) : routeQ[i] \notin routes
    /\ \A i, j \in 1..Len(routeQ) : routeQ[i] = routeQ[j] => i = j

\* What a QueryStream yields is a run of the rows, in order, without a hole:
\* rows can only be missing at its beginning (they came before the Param of
\* the stream was taken up) or at its end.  What a Listen yields is in commit
\* order, without a repetition, across reconnections too.
RowsAreARun ==
    \A c \in Calls : \A i \in 2..Len(got[c]) :
        IF kind[c] = "listen" THEN got[c][i] > got[c][i - 1] ELSE got[c][i] = got[c][i - 1] + 1

\* The first reconnection after a good token was taken up gives the session
\* back to it; only from the second one on, since the token is taken out of
\* the state each time, the session becomes anonymous.
FirstReconnectKeepsIdentity == (since = 1 /\ session = Nobody) => taken \notin Good

\* Every call ends, with the answer of the server or with an error.
CallEnds == \A c \in Calls : (call[c] = "waiting") ~> (call[c] \in {"returned", "failed"})

\* A query stream that was registered before the server took it up ends: with
\* the server's last message, or because the connection was lost.  Only a
\* task that panicked (stream().unwrap()) leaves its receiver waiting.
StreamEnds ==
    \A c \in Calls :
        (c \in live /\ c \in atServer /\ sending[c] = -1)
            ~> (c \in over \/ sending[c] = Rows + 2 \/ call[c] = "failed")

\* A call is performed once at most, and succeeds only if it was performed
\* (the specification RemoteCall), though connections are lost with calls
\* in flight.  authenticate, which drops its result, tells its caller nothing.
Status(c) ==
    CASE call[c] \in {"ok", "returned"} /\ kind[c] \notin {"listen", "authenticate"} -> "ok"
      [] call[c] \in {"error", "failed"} -> "unknown"
      [] kind[c] = "authenticate" /\ call[c] \in {"ok", "returned"} -> "unknown"
      [] call[c] = "waiting" -> "waiting"
      [] OTHER -> "idle"
Promise == INSTANCE RemoteCall WITH status <- [c \in Calls |-> Status(c)]
ImplementsRemoteCall == Promise!Spec
=============================================================================

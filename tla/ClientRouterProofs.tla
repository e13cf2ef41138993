------------------------- MODULE ClientRouterProofs -------------------------
(* Theorems about ClientRouter and WasmRouter, for any set of calls, any   *)
(* tokens and any number of rows, changes and failures of the socket.      *)
EXTENDS WasmRouter, SequenceTheorems, TLAPS

-----------------------------------------------------------------------------
(* What is in a channel, and in which order. *)

Before(x, y, s) == \E i, j \in 1..Len(s) : i < j /\ s[i] = x /\ s[j] = y

\* An empty channel.
LEMMA NothingIn == \A x, y : ~InSeq(x, <<>>) /\ ~Before(x, y, <<>>)
    BY DEF InSeq, Before

\* Sending e.
LEMMA InAppend ==
    ASSUME NEW S, NEW s \in Seq(S), NEW e \in S
    PROVE  /\ Append(s, e) \in Seq(S)
           /\ \A x : InSeq(x, Append(s, e)) <=> InSeq(x, s) \/ x = e
           /\ \A x, y : Before(x, y, Append(s, e)) <=> Before(x, y, s) \/ (InSeq(x, s) /\ y = e)
<1> DEFINE u == Append(s, e)
<1>1. /\ u \in Seq(S) /\ Len(s) \in Nat /\ Len(u) = Len(s) + 1 /\ u[Len(s) + 1] = e
      /\ \A i \in 1..Len(s) : u[i] = s[i]
    BY AppendProperties, LenProperties
<1> HIDE DEF u
<1>2. ASSUME NEW x PROVE InSeq(x, u) <=> InSeq(x, s) \/ x = e
    BY <1>1 DEF InSeq
<1>3. ASSUME NEW x, NEW y PROVE Before(x, y, u) <=> Before(x, y, s) \/ (InSeq(x, s) /\ y = e)
  <2>1. ASSUME NEW i \in 1..Len(u), NEW j \in 1..Len(u), i < j, u[i] = x, u[j] = y
        PROVE  Before(x, y, s) \/ (InSeq(x, s) /\ y = e)
    <3>1. i \in 1..Len(s) /\ s[i] = x
        BY <1>1, <2>1
    <3>2. CASE j = Len(s) + 1
        BY <1>1, <2>1, <3>1, <3>2 DEF InSeq
    <3>3. CASE j \in 1..Len(s)
        BY <1>1, <2>1, <3>1, <3>3 DEF Before
    <3> QED  BY <1>1, <3>2, <3>3
  <2>2. ASSUME NEW i \in 1..Len(s), NEW j \in 1..Len(s), i < j, s[i] = x, s[j] = y
        PROVE  Before(x, y, u)
    <3>1. i \in 1..Len(u) /\ j \in 1..Len(u) /\ u[i] = x /\ u[j] = y
        BY <1>1, <2>2
    <3> QED  BY <2>2, <3>1 DEF Before
  <2>3. ASSUME NEW i \in 1..Len(s), s[i] = x, y = e PROVE Before(x, y, u)
    <3>1. i \in 1..Len(u) /\ Len(s) + 1 \in 1..Len(u) /\ i < Len(s) + 1
          /\ u[i] = x /\ u[Len(s) + 1] = y
        BY <1>1, <2>3
    <3> QED  BY <3>1 DEF Before
  <2> QED  BY <2>1, <2>2, <2>3 DEF Before, InSeq
<1> QED  BY <1>1, <1>2, <1>3 DEF u

\* Receiving the first.
LEMMA InTail ==
    ASSUME NEW S, NEW s \in Seq(S), s # <<>>
    PROVE  /\ Head(s) \in S /\ Tail(s) \in Seq(S)
           /\ \A x : InSeq(x, s) <=> x = Head(s) \/ InSeq(x, Tail(s))
           /\ \A x, y : Before(x, y, s)
                            <=> Before(x, y, Tail(s)) \/ (x = Head(s) /\ InSeq(y, Tail(s)))
<1> DEFINE u == Tail(s)
<1>1. /\ u \in Seq(S) /\ Len(s) \in Nat \ {0} /\ Len(u) = Len(s) - 1 /\ Head(s) = s[1]
      /\ Head(s) \in S /\ \A i \in 1..Len(u) : u[i] = s[i + 1]
    BY HeadTailProperties, LenProperties, EmptySeq
<1>2. \A i \in 2..Len(s) : i - 1 \in 1..Len(u) /\ s[i] = u[i - 1]
    BY <1>1
<1>3. \A i \in 1..Len(u) : i + 1 \in 1..Len(s) /\ s[i + 1] = u[i]
    BY <1>1
<1> HIDE DEF u
<1>4. ASSUME NEW x PROVE InSeq(x, s) <=> x = Head(s) \/ InSeq(x, u)
  <2>1. ASSUME NEW i \in 1..Len(s), s[i] = x PROVE x = Head(s) \/ InSeq(x, u)
      BY <1>1, <1>2, <2>1 DEF InSeq
  <2>2. ASSUME NEW i \in 1..Len(u), u[i] = x PROVE InSeq(x, s)
      BY <1>3, <2>2 DEF InSeq
  <2>3. 1 \in 1..Len(s)
      BY <1>1
  <2> QED  BY <1>1, <2>1, <2>2, <2>3 DEF InSeq
<1>5. ASSUME NEW x, NEW y
      PROVE Before(x, y, s) <=> Before(x, y, u) \/ (x = Head(s) /\ InSeq(y, u))
  <2>1. ASSUME NEW i \in 1..Len(s), NEW j \in 1..Len(s), i < j, s[i] = x, s[j] = y
        PROVE  Before(x, y, u) \/ (x = Head(s) /\ InSeq(y, u))
    <3>1. j - 1 \in 1..Len(u) /\ u[j - 1] = y
        BY <1>1, <1>2, <2>1
    <3>2. CASE i = 1
        BY <1>1, <2>1, <3>1, <3>2 DEF InSeq
    <3>3. CASE i # 1
      <4>1. i - 1 \in 1..Len(u) /\ u[i - 1] = x /\ i - 1 < j - 1
          BY <1>1, <1>2, <2>1, <3>3
      <4> QED  BY <3>1, <4>1 DEF Before
    <3> QED  BY <3>2, <3>3
  <2>2. ASSUME NEW i \in 1..Len(u), NEW j \in 1..Len(u), i < j, u[i] = x, u[j] = y
        PROVE  Before(x, y, s)
    <3>1. i + 1 \in 1..Len(s) /\ j + 1 \in 1..Len(s) /\ i + 1 < j + 1 /\ s[i + 1] = x /\ s[j + 1] = y
        BY <1>1, <1>3, <2>2
    <3> QED  BY <3>1 DEF Before
  <2>3. ASSUME NEW j \in 1..Len(u), u[j] = y, x = Head(s) PROVE Before(x, y, s)
    <3>1. 1 \in 1..Len(s) /\ j + 1 \in 1..Len(s) /\ 1 < j + 1 /\ s[1] = x /\ s[j + 1] = y
        BY <1>1, <1>3, <2>3
    <3> QED  BY <3>1 DEF Before
  <2> QED  BY <2>1, <2>2, <2>3 DEF Before, InSeq
<1> QED  BY <1>1, <1>4, <1>5 DEF u

-----------------------------------------------------------------------------
(* The steps of both builds as steps of one router. *)

\* A reconnection, with the token of the URL when the browser's router has no
\* other, and an Error event.
HandshakeToken == IF build = "native" \/ token # Nobody THEN token ELSE given
Reconnected == NewSocket(HandshakeToken) /\ StartOver /\ UNCHANGED routeQ
ErrorTaken ==
    /\ build = "wasm" /\ router = "select" /\ StartOver
    /\ UNCHANGED <<kind, queues, router, channel, link, breaks, server, wire, got, history>>

RouterStep ==
    \/ \E t \in {Nobody} \cup Given : Connect(t)
    \/ \E c \in Calls : CallReturn(c) \/ Server(c) \/ Listen(c) \/ \E k \in Kinds : Call(c, k)
    \/ RouterParam \/ RouterRoute \/ RouterResponse \/ RouterRow \/ RouterEnd \/ RouterChange
    \/ RouterDisconnected \/ Reconnected \/ ErrorTaken \/ RouterQuit \/ LinkBreak \/ ServerChange
    \/ UNCHANGED vars

\* The browser reports nothing but failures: an event that was not taken yet
\* is one of a socket that failed.
EventsInv == events # <<>> => build = "wasm" /\ link = "broken"

\* Every step of either build is such a step.
LEMMA StepCases == EventsInv /\ [BothNext]_both => RouterStep
<1> SUFFICES ASSUME EventsInv, [BothNext]_both PROVE RouterStep
    OBVIOUS
<1>1. CASE Native(Next)
  <2>1. CASE RouterReconnect
      BY <1>1, <2>1 DEF Native, RouterReconnect, Reconnected, HandshakeToken, RouterStep
  <2> QED  BY <1>1, <2>1 DEF Native, Next, Incoming, Around, RouterStep
<1>2. CASE WasmReconnect
  <2>1. (IF token # Nobody THEN token ELSE given) = HandshakeToken
      BY <1>2 DEF WasmReconnect, HandshakeToken
  <2> QED  BY <1>2, <2>1 DEF WasmReconnect, Reconnected, RouterStep
<1>3. CASE WasmEventError
    BY <1>3 DEF WasmEventError, ErrorTaken, RouterStep
<1>4. CASE WasmEventClosed
    BY <1>4 DEF WasmEventClosed, EventsInv, RouterDisconnected, RouterStep
<1>5. CASE WasmBreak
    BY <1>5 DEF WasmBreak, RouterStep
<1>6. ASSUME NEW t \in {Nobody} \cup Given, WasmConnect(t) PROVE RouterStep
    BY <1>6 DEF WasmConnect, Wasm, RouterStep
<1>7. CASE WasmParam \/ WasmRequest \/ WasmResponse \/ WasmDisconnected \/ WasmQuit
    BY <1>7 DEF WasmParam, WasmRequest, WasmResponse, WasmDisconnected, WasmQuit, Wasm, Incoming,
                RouterStep
<1>8. CASE Wasm(Around)
    BY <1>8 DEF Wasm, Around, RouterStep
<1>9. CASE UNCHANGED both
    BY <1>9 DEF both, RouterStep
<1> QED
    BY <1>1, <1>2, <1>3, <1>4, <1>5, <1>6, <1>7, <1>8, <1>9 DEF BothNext, WasmNext

\* Every step keeps what the events are.
LEMMA EventsStep == TypeOK /\ EventsInv /\ [BothNext]_both => EventsInv'
<1> SUFFICES ASSUME TypeOK, EventsInv, [BothNext]_both PROVE EventsInv'
    OBVIOUS
<1> USE DEF EventsInv
<1>1. CASE Native(Next)
    BY <1>1 DEF Native
<1>2. CASE WasmReconnect
    BY <1>2 DEF WasmReconnect
<1>3. CASE WasmEventError
    BY <1>3 DEF WasmEventError
<1>4. CASE WasmEventClosed
    BY <1>4 DEF WasmEventClosed
<1>5. CASE WasmBreak
    BY <1>5 DEF WasmBreak, LinkBreak
<1>6. ASSUME NEW t \in {Nobody} \cup Given, WasmConnect(t) PROVE EventsInv'
    BY <1>6 DEF WasmConnect, Wasm, Connect
<1>7. CASE WasmParam \/ WasmRequest \/ WasmDisconnected \/ WasmQuit
    BY <1>7 DEF WasmParam, WasmRequest, WasmDisconnected, WasmQuit, Wasm, RouterParam, RouterRoute,
                RouterDisconnected, RouterQuit
<1>8. CASE WasmResponse
    BY <1>8 DEF WasmResponse, Wasm, Incoming, RouterResponse, RouterRow, RouterEnd, RouterChange
<1>9. CASE Wasm(Around)
    BY <1>9 DEF Wasm, Around, CallReturn, Server, ServerStream, ServerAnswer, ServerRow, ServerEnd,
                Listen, Call, ServerChange
<1>10. CASE UNCHANGED both
    BY <1>10 DEF both, vars
<1> QED
    BY <1>1, <1>2, <1>3, <1>4, <1>5, <1>6, <1>7, <1>8, <1>9, <1>10 DEF BothNext, WasmNext

-----------------------------------------------------------------------------
(* The life of a call, and of the socket. *)

Param == {"stream", "listen", "token"} \X Tokens
Response(c, res) == <<"response", c, res>>
Row(c, n) == <<"row", c, n>>
Change(n) == <<"change", n>>

\* The socket fails before it is replaced, and `since' counts some of the
\* replacements.
LinkInv ==
    /\ router = "reconnecting" => link = "broken"
    /\ since <= breaks
    /\ link = "broken" => since < breaks /\ 0 < breaks

\* A call is known to the server from the moment its Route was sent, and is
\* performed when it is answered: until then it was not performed.
CallInv ==
    \A c \in Calls :
        /\ call[c] = "idle" <=> kind[c] = "none"
        /\ kind[c] = "listen" => call[c] = "returned"
        /\ InSeq(c, routeQ) => c \notin atServer /\ performed[c] = 0
        /\ c \in atServer => performed[c] = 0 /\ kind[c] \notin {"none", "listen"}
        /\ performed[c] # 0 => kind[c] \notin {"none", "listen"}
        /\ \A res \in {"ok", "error"} : InSeq(Response(c, res), wire) => performed[c] = 1
        /\ call[c] = "ok" => performed[c] = 1
        /\ call[c] = "returned" /\ kind[c] \notin {"listen", "authenticate"} => performed[c] = 1

\* WaitingIsRouted, without positions.
RoutedInv ==
    \A c \in Calls :
        /\ call[c] = "waiting" <=> (InSeq(c, routeQ) \/ c \in routes)
        /\ ~(InSeq(c, routeQ) /\ c \in routes)
        /\ ~Before(c, c, routeQ)

\* The Params under way name calls of their kind.
ParamInv ==
    \A t \in Tokens :
        /\ InSeq(StreamParam(t), paramQ) => t \in Calls /\ kind[t] = "stream"
        /\ InSeq(ListenParam(t), paramQ) => t \in Calls /\ kind[t] = "listen"

FlightInv == LinkInv /\ CallInv /\ RoutedInv /\ ParamInv

\* The two forms of WaitingIsRouted are the same.
LEMMA RoutedIsWaitingIsRouted == TypeOK => (RoutedInv <=> WaitingIsRouted)
<1> SUFFICES ASSUME TypeOK PROVE RoutedInv <=> WaitingIsRouted
    OBVIOUS
<1>1. Len(routeQ) \in Nat /\ \A i \in 1..Len(routeQ) : routeQ[i] \in Calls
    BY LenProperties, ElementOfSeq DEF TypeOK
<1>2. ASSUME RoutedInv PROVE WaitingIsRouted
  <2>1. ASSUME NEW i \in 1..Len(routeQ) PROVE routeQ[i] \notin routes
      BY <1>1, <1>2 DEF RoutedInv, InSeq
  <2>2. ASSUME NEW i \in 1..Len(routeQ), NEW j \in 1..Len(routeQ), routeQ[i] = routeQ[j]
        PROVE  i = j
      BY <1>1, <1>2, <2>2 DEF RoutedInv, Before
  <2> QED  BY <1>2, <2>1, <2>2 DEF RoutedInv, WaitingIsRouted
<1>3. ASSUME WaitingIsRouted PROVE RoutedInv
  <2>1. ASSUME NEW c \in Calls PROVE ~Before(c, c, routeQ)
      BY <1>1, <1>3 DEF WaitingIsRouted, Before
  <2>2. ASSUME NEW c \in Calls PROVE ~(InSeq(c, routeQ) /\ c \in routes)
      BY <1>3 DEF WaitingIsRouted, InSeq
  <2> QED  BY <1>3, <2>1, <2>2 DEF RoutedInv, WaitingIsRouted
<1> QED  BY <1>2, <1>3

\* What goes over the channels is of their types ...
LEMMA MessageTypes ==
    /\ \A c \in Calls : <<"end", c>> \in Wire
    /\ \A c \in Calls : Response(c, "ok") \in Wire /\ Response(c, "error") \in Wire
    /\ \A c \in Calls, n \in 1..Rows : Row(c, n) \in Wire
    /\ \A n \in 1..MaxChanges : Change(n) \in Wire
    /\ \A t \in Tokens : StreamParam(t) \in Param /\ ListenParam(t) \in Param /\ TokenParam(t) \in Param
    BY DEF Wire, Response, Row, Change, Param, StreamParam, ListenParam, TokenParam

\* ... and says what it is.
LEMMA MessageCases ==
    /\ \A m \in Wire :
        /\ m[1] = "response" => m[2] \in Calls /\ m[3] \in {"ok", "error"} /\ m = Response(m[2], m[3])
        /\ m[1] = "row" => m[2] \in Calls /\ m[3] \in 1..Rows /\ m = Row(m[2], m[3])
        /\ m[1] = "end" => m[2] \in Calls /\ m = <<"end", m[2]>>
        /\ m[1] = "change" => m[2] \in 1..MaxChanges /\ m = Change(m[2])
    /\ \A q \in Param :
        /\ q[2] \in Tokens
        /\ q[1] = "stream" => q = StreamParam(q[2])
        /\ q[1] = "listen" => q = ListenParam(q[2])
        /\ q[1] = "token" => q = TokenParam(q[2])
    BY DEF Wire, Response, Row, Change, Param, StreamParam, ListenParam, TokenParam

\* No two of them are the same.
LEMMA MessagesDiffer ==
    /\ \A c, d, r, n, m :
        /\ Response(c, r) # Row(d, n) /\ Response(c, r) # Change(n) /\ Response(c, r) # <<"end", d>>
        /\ Row(c, n) # Change(m) /\ Row(c, n) # <<"end", d>> /\ Change(n) # <<"end", d>>
    /\ \A c, d, r, q : Response(c, r) = Response(d, q) => c = d /\ r = q
    /\ \A c, d, n, m : Row(c, n) = Row(d, m) => c = d /\ n = m
    /\ \A n, m : Change(n) = Change(m) => n = m
    /\ \A s, t :
        /\ StreamParam(s) # ListenParam(t) /\ StreamParam(s) # TokenParam(t)
        /\ ListenParam(s) # TokenParam(t)
        /\ StreamParam(s) = StreamParam(t) => s = t
        /\ ListenParam(s) = ListenParam(t) => s = t
        /\ TokenParam(s) = TokenParam(t) => s = t
<1>1. \A c, d, r, q : Response(c, r) = Response(d, q) => c = d /\ r = q
    BY DEF Response
<1>2. \A c, d, n, m : Row(c, n) = Row(d, m) => c = d /\ n = m
    BY DEF Row
<1>3. \A n, m : Change(n) = Change(m) => n = m
    BY DEF Change
<1>4. \A c, d, r, n : Response(c, r) # Row(d, n)
    BY DEF Response, Row
<1>5. \A c, d, r, n : Response(c, r) # Change(n) /\ Response(c, r) # <<"end", d>>
    BY DEF Response, Change
<1>6. \A c, d, n, m : Row(c, n) # Change(m) /\ Row(c, n) # <<"end", d>>
    BY DEF Row, Change
<1>7. \A d, n : Change(n) # <<"end", d>>
    BY DEF Change
<1>8. \A s, t :
        /\ StreamParam(s) # ListenParam(t) /\ StreamParam(s) # TokenParam(t)
        /\ ListenParam(s) # TokenParam(t)
        /\ StreamParam(s) = StreamParam(t) => s = t
        /\ ListenParam(s) = ListenParam(t) => s = t
        /\ TokenParam(s) = TokenParam(t) => s = t
    BY DEF StreamParam, ListenParam, TokenParam
<1> QED  BY <1>1, <1>2, <1>3, <1>4, <1>5, <1>6, <1>7, <1>8

-----------------------------------------------------------------------------
\* Every step keeps the types; that nothing is performed twice is among them.
LEMMA TypeStep == TypeOK /\ FlightInv /\ RouterStep => TypeOK'
<1> SUFFICES ASSUME TypeOK, FlightInv, RouterStep PROVE TypeOK'
    OBVIOUS
<1>1. paramQ \in Seq(Param) /\ wire \in Seq(Wire) /\ routeQ \in Seq(Calls)
    BY DEF TypeOK, Param
<1>2. <<>> \in Seq(Wire) /\ <<>> \in Seq(Param)
    OBVIOUS
<1>3. ASSUME paramQ' \in Seq(Param), wire' \in Seq(Wire),
             kind' \in [Calls -> Kinds \cup {"none"}],
             call' \in [Calls -> {"idle", "waiting", "ok", "error", "returned", "failed"}],
             routeQ' \in Seq(Calls), router' \in {"unborn", "select", "reconnecting", "over"},
             routes' \subseteq Calls, live' \subseteq Calls, channel' \in Calls \cup {Nobody},
             token' \in Tokens, session' \in Tokens, given' \in Tokens, taken' \in Tokens,
             link' \in {"open", "broken"}, breaks' \in 0..MaxBreaks,
             atServer' \subseteq Calls, sending' \in [Calls -> -1..(Rows + 2)],
             performed' \in [Calls -> 0..1], changes' \in 0..MaxChanges,
             got' \in [Calls -> Seq(Nat)], over' \subseteq Calls, since' \in -1..MaxBreaks
      PROVE  TypeOK'
    BY <1>3 DEF TypeOK, Param
<1>0. /\ Rows \in Nat /\ MaxBreaks \in Nat /\ MaxChanges \in Nat
      /\ Nobody \in Tokens /\ Calls \subseteq Tokens /\ Given \subseteq Tokens
      /\ Good \subseteq Tokens
    BY RouterAssumption DEF Tokens
<1> USE DEF callers, queues, state, server, streams, history
<1>4. ASSUME NEW t \in {Nobody} \cup Given, Connect(t) PROVE TypeOK'
  <2>1. paramQ' \in Seq(Param)
      BY <1>0, <1>2, <1>4, MessageTypes DEF Connect
  <2> QED  BY <1>0, <1>3, <1>4, <2>1 DEF TypeOK, Connect, Claims
<1>5. ASSUME NEW c \in Calls, CallReturn(c) PROVE TypeOK'
  <2>1. paramQ' \in Seq(Param)
      BY <1>0, <1>5, MessageTypes, <1>1, InAppend DEF CallReturn
  <2> QED  BY <1>0, <1>3, <1>5, <2>1 DEF TypeOK, CallReturn
<1>6. ASSUME NEW c \in Calls, Listen(c) PROVE TypeOK'
  <2>1. paramQ' \in Seq(Param)
      BY <1>0, <1>6, MessageTypes, <1>1, InAppend DEF Listen
  <2> QED  BY <1>0, <1>3, <1>6, <2>1 DEF TypeOK, Listen
<1>7. ASSUME NEW c \in Calls, NEW k \in Kinds, Call(c, k) PROVE TypeOK'
  <2>1. paramQ' \in Seq(Param)
      BY <1>0, <1>7, MessageTypes, <1>1, InAppend DEF Call
  <2>2. routeQ' \in Seq(Calls)
      BY <1>7, <1>1, InAppend DEF Call, Send
  <2> QED  BY <1>0, <1>3, <1>7, <2>1, <2>2 DEF TypeOK, Call
<1>8. ASSUME NEW c \in Calls, ServerStream(c) PROVE TypeOK'
  <2>1. sending' \in [Calls -> -1..(Rows + 2)]
      BY <1>0, <1>8 DEF TypeOK, ServerStream
  <2> QED  BY <1>0, <1>3, <1>8, <2>1 DEF TypeOK, ServerStream
<1>9. ASSUME NEW c \in Calls, ServerAnswer(c) PROVE TypeOK'
  <2>1. wire' \in Seq(Wire)
    <3>1. PICK res \in {"ok", "error"} : wire' = Append(wire, Response(c, res))
        BY <1>9 DEF ServerAnswer, Response
    <3>2. Response(c, res) \in Wire
        BY <1>0, MessageTypes
    <3> QED  BY <3>1, <3>2, <1>1, InAppend
  <2>2. performed[c] = 0
      BY <1>9 DEF ServerAnswer, FlightInv, CallInv
  <2>3. performed' \in [Calls -> 0..1] /\ session' \in Tokens
      BY <1>0, <1>9, <2>2 DEF TypeOK, ServerAnswer
  <2> QED  BY <1>0, <1>3, <1>9, <2>1, <2>3 DEF TypeOK, ServerAnswer
<1>10. ASSUME NEW c \in Calls, ServerRow(c) PROVE TypeOK'
  <2>1. sending[c] + 1 \in 1..Rows
      BY <1>0, <1>10 DEF ServerRow, TypeOK
  <2>2. wire' \in Seq(Wire)
      BY <1>0, <1>10, <2>1, MessageTypes, <1>1, InAppend DEF ServerRow, Row
  <2>3. sending' \in [Calls -> -1..(Rows + 2)]
      BY <1>0, <1>10, <2>1 DEF TypeOK, ServerRow
  <2> QED  BY <1>0, <1>3, <1>10, <2>2, <2>3 DEF TypeOK, ServerRow
<1>11. ASSUME NEW c \in Calls, ServerEnd(c) PROVE TypeOK'
  <2>1. wire' \in Seq(Wire)
    <3>1. <<"end", c>> \in Wire
        BY <1>0, MessageTypes
    <3>2. Append(wire, <<"end", c>>) \in Seq(Wire)
        BY <3>1, <1>1, InAppend
    <3> QED  BY <1>1, <1>11, <3>2 DEF ServerEnd
  <2>2. sending' \in [Calls -> -1..(Rows + 2)]
    <3>1. \/ sending' = [sending EXCEPT ![c] = Rows + 1]
          \/ sending' = [sending EXCEPT ![c] = Rows + 2]
        BY <1>11 DEF ServerEnd
    <3>2. sending \in [Calls -> -1..(Rows + 2)]
        BY DEF TypeOK
    <3>3. Rows + 1 \in -1..(Rows + 2) /\ Rows + 2 \in -1..(Rows + 2)
        BY <1>0
    <3> QED  BY <3>1, <3>2, <3>3
  <2> QED  BY <1>0, <1>3, <1>11, <2>1, <2>2 DEF TypeOK, ServerEnd
<1>12. CASE ServerChange
  <2>1. changes + 1 \in 1..MaxChanges
      BY <1>0, <1>12 DEF ServerChange, TypeOK
  <2>2. wire' \in Seq(Wire)
      BY <1>0, <1>12, <2>1, MessageTypes, <1>1, InAppend DEF ServerChange, Change
  <2>3. changes' \in 0..MaxChanges
      BY <1>0, <1>12, <2>1 DEF TypeOK, ServerChange
  <2> QED  BY <1>0, <1>3, <1>12, <2>2, <2>3 DEF TypeOK, ServerChange
<1>13. CASE RouterParam
  <2> DEFINE q == Head(paramQ)
  <2>1. q \in Param /\ InSeq(q, paramQ) /\ paramQ' \in Seq(Param)
      BY <1>13, <1>1, InTail DEF RouterParam
  <2>2. q[2] \in Tokens /\ (q[1] \in {"stream", "listen"} => q[2] \in Calls)
      BY <2>1, MessageCases DEF FlightInv, ParamInv
  <2>3. /\ live' \subseteq Calls /\ channel' \in Calls \cup {Nobody} /\ over' \subseteq Calls
        /\ token' \in Tokens /\ taken' \in Tokens /\ since' \in -1..MaxBreaks
    <3> HIDE DEF q
    <3>1. \/ /\ q[1] = "stream" /\ live' = live \cup {q[2]}
             /\ UNCHANGED <<token, channel, over, taken, since>>
          \/ /\ q[1] = "listen" /\ channel' = q[2] /\ over' = over \cup ({channel} \ {Nobody})
             /\ UNCHANGED <<token, live, taken, since>>
          \/ /\ q[1] = "token" /\ token' = q[2] /\ taken' = q[2] /\ since' = 0
             /\ UNCHANGED <<live, channel, over>>
        BY <1>13 DEF RouterParam, q
    <3> QED  BY <1>0, <2>2, <3>1 DEF TypeOK
  <2> QED  BY <1>0, <1>3, <1>13, <2>1, <2>3 DEF TypeOK, RouterParam
<1>14. CASE RouterRoute
  <2>1. Head(routeQ) \in Calls /\ routeQ' \in Seq(Calls)
      BY <1>14, <1>1, InTail DEF RouterRoute
  <2> QED  BY <1>0, <1>3, <1>14, <2>1 DEF TypeOK, RouterRoute
<1>15. CASE RouterResponse
  <2>1. wire' \in Seq(Wire) /\ Head(wire)[2] \in Calls /\ Head(wire)[3] \in {"ok", "error"}
      BY <1>15, <1>1, InTail, MessageCases DEF RouterResponse, Received
  <2> QED  BY <1>0, <1>3, <1>15, <2>1 DEF TypeOK, RouterResponse
<1>16. CASE RouterRow
  <2>1. wire' \in Seq(Wire) /\ Head(wire)[2] \in Calls /\ Head(wire)[3] \in 1..Rows
      BY <1>16, <1>1, InTail, MessageCases DEF RouterRow, Received
  <2>2. Append(got[Head(wire)[2]], Head(wire)[3]) \in Seq(Nat)
    <3>1. got[Head(wire)[2]] \in Seq(Nat) /\ Head(wire)[3] \in Nat
        BY <2>1 DEF TypeOK
    <3> QED  BY <3>1, <1>1, InAppend
  <2> QED  BY <1>0, <1>3, <1>16, <2>1, <2>2 DEF TypeOK, RouterRow
<1>17. CASE RouterEnd
  <2>1. wire' \in Seq(Wire) /\ Head(wire)[2] \in Calls
      BY <1>17, <1>1, InTail, MessageCases DEF RouterEnd, Received
  <2> QED  BY <1>0, <1>3, <1>17, <2>1 DEF TypeOK, RouterEnd
<1>18. CASE RouterChange
  <2>1. wire' \in Seq(Wire) /\ Head(wire)[2] \in 1..MaxChanges
      BY <1>18, <1>1, InTail, MessageCases DEF RouterChange, Received
  <2>2. channel # Nobody => Append(got[channel], Head(wire)[2]) \in Seq(Nat)
      BY <2>1, <1>1, InAppend DEF TypeOK
  <2> QED  BY <1>0, <1>3, <1>18, <2>1, <2>2 DEF TypeOK, RouterChange
<1>19. CASE RouterDisconnected \/ LinkBreak
  <2>1. breaks' \in 0..MaxBreaks
      BY <1>0, <1>19 DEF TypeOK, RouterDisconnected, LinkBreak
  <2> QED  BY <1>0, <1>3, <1>19, <2>1 DEF TypeOK, RouterDisconnected, LinkBreak
<1>20. CASE Reconnected
  <2>1. PICK t \in Tokens : NewSocket(t) /\ StartOver /\ UNCHANGED routeQ
    <3>1. HandshakeToken \in Tokens
        BY DEF HandshakeToken, TypeOK
    <3> QED  BY <1>20, <3>1 DEF Reconnected
  <2>2. performed' \in [Calls -> 0..1]
      BY <1>0, <2>1 DEF NewSocket, TypeOK, FlightInv, CallInv
  <2>3. since' \in -1..MaxBreaks
      BY <1>0, <2>1 DEF NewSocket, TypeOK, FlightInv, LinkInv
  <2> QED  BY <1>0, <1>3, <2>1, <2>2, <2>3 DEF TypeOK, NewSocket, StartOver, Claims
<1>21. CASE ErrorTaken
    BY <1>0, <1>3, <1>21 DEF TypeOK, ErrorTaken, StartOver
<1>22. CASE RouterQuit
    BY <1>0, <1>3, <1>22 DEF TypeOK, RouterQuit
<1>23. CASE UNCHANGED vars
    BY <1>0, <1>3, <1>23 DEF TypeOK, vars
<1> QED
    BY <1>4, <1>5, <1>6, <1>7, <1>8, <1>9, <1>10, <1>11, <1>12, <1>13, <1>14, <1>15, <1>16, <1>17,
       <1>18, <1>19, <1>20, <1>21, <1>22, <1>23
    DEF RouterStep, Server

\* Every step keeps what is known of the socket.
LEMMA LinkStep == TypeOK /\ LinkInv /\ RouterStep => LinkInv'
<1> SUFFICES ASSUME TypeOK, LinkInv, RouterStep PROVE LinkInv'
    OBVIOUS
<1>1. since \in Int /\ -1 <= since /\ breaks \in Nat
    BY RouterAssumption DEF TypeOK
<1> USE DEF LinkInv, callers, queues, state, server, streams, history
<1>2. CASE RouterParam
    BY <1>1, <1>2 DEF RouterParam
<1>3. CASE Reconnected
    BY <1>1, <1>3 DEF Reconnected, NewSocket
<1>4. CASE LinkBreak
    BY <1>1, <1>4 DEF LinkBreak
<1>5. CASE RouterRoute \/ RouterDisconnected \/ RouterQuit \/ ErrorTaken
    BY <1>1, <1>5 DEF RouterRoute, RouterDisconnected, RouterQuit, ErrorTaken
<1>6. ASSUME NEW t \in {Nobody} \cup Given, Connect(t) PROVE LinkInv'
    BY <1>1, <1>6 DEF Connect
<1>7. CASE RouterResponse \/ RouterRow \/ RouterEnd \/ RouterChange \/ ServerChange \/ UNCHANGED vars
    BY <1>1, <1>7 DEF RouterResponse, RouterRow, RouterEnd, RouterChange, ServerChange, vars
<1>8. ASSUME NEW c \in Calls, CallReturn(c) \/ Server(c) \/ Listen(c) \/ \E k \in Kinds : Call(c, k)
      PROVE  LinkInv'
    BY <1>1, <1>8 DEF CallReturn, Server, ServerStream, ServerAnswer, ServerRow, ServerEnd, Listen,
                      Call
<1> QED  BY <1>2, <1>3, <1>4, <1>5, <1>6, <1>7, <1>8 DEF RouterStep

\* What a call becomes never changes: its kind is chosen once.
LEMMA KindStep ==
    ASSUME TypeOK, CallInv, RouterStep
    PROVE  \A c \in Calls : kind[c] # "none" => kind'[c] = kind[c]
<1> USE DEF TypeOK, CallInv, callers, queues, state, server, streams, history
<1>1. ASSUME NEW c \in Calls, Listen(c) \/ \E k \in Kinds : Call(c, k)
      PROVE  \A d \in Calls : kind[d] # "none" => kind'[d] = kind[d]
    BY <1>1 DEF Listen, Call
<1>2. CASE UNCHANGED kind
    BY <1>2
<1>3. ASSUME NEW c \in Calls, CallReturn(c) \/ Server(c) PROVE UNCHANGED kind
    BY <1>3 DEF CallReturn, Server, ServerStream, ServerAnswer, ServerRow, ServerEnd
<1>4. ASSUME NEW t \in {Nobody} \cup Given, Connect(t) PROVE UNCHANGED kind
    BY <1>4 DEF Connect
<1>5. CASE RouterParam \/ RouterRoute \/ RouterResponse \/ RouterRow \/ RouterEnd \/ RouterChange
    BY <1>2, <1>5 DEF RouterParam, RouterRoute, RouterResponse, RouterRow, RouterEnd, RouterChange
<1>6. CASE RouterDisconnected \/ Reconnected \/ ErrorTaken \/ RouterQuit \/ LinkBreak \/ ServerChange
           \/ UNCHANGED vars
    BY <1>2, <1>6 DEF RouterDisconnected, Reconnected, NewSocket, ErrorTaken, RouterQuit, LinkBreak,
                      ServerChange, vars
<1> QED  BY <1>1, <1>2, <1>3, <1>4, <1>5, <1>6 DEF RouterStep

\* What a step does to the Params under way.
LEMMA ParamEffect ==
    ASSUME TypeOK, RouterStep
    PROVE  \/ paramQ' = paramQ
           \/ paramQ # <<>> /\ paramQ' = Tail(paramQ) /\ RouterParam
           \/ \E t \in {Nobody} \cup Given :
                  Connect(t) /\ paramQ' = IF t = Nobody THEN <<>> ELSE <<TokenParam(t)>>
           \/ \E c \in Calls : Call(c, "stream") /\ paramQ' = Append(paramQ, StreamParam(c))
           \/ \E c \in Calls : Listen(c) /\ paramQ' = Append(paramQ, ListenParam(c))
           \/ \E c \in Calls :
                  CallReturn(c) /\ PassesToken(c) /\ paramQ' = Append(paramQ, TokenParam(c))
<1> USE DEF callers, queues, state, server, streams, history
<1>1. ASSUME NEW c \in Calls, NEW k \in Kinds, Call(c, k)
      PROVE  paramQ' = paramQ \/ (Call(c, "stream") /\ paramQ' = Append(paramQ, StreamParam(c)))
    BY <1>1 DEF Call
<1>2. ASSUME NEW c \in Calls, Listen(c) PROVE paramQ' = Append(paramQ, ListenParam(c))
    BY <1>2 DEF Listen
<1>3. ASSUME NEW c \in Calls, CallReturn(c)
      PROVE  paramQ' = paramQ \/ (PassesToken(c) /\ paramQ' = Append(paramQ, TokenParam(c)))
    BY <1>3 DEF CallReturn
<1>4. ASSUME NEW t \in {Nobody} \cup Given, Connect(t)
      PROVE  paramQ' = IF t = Nobody THEN <<>> ELSE <<TokenParam(t)>>
    BY <1>4 DEF Connect
<1>5. ASSUME NEW c \in Calls, Server(c) PROVE UNCHANGED paramQ
    BY <1>5 DEF Server, ServerStream, ServerAnswer, ServerRow, ServerEnd
<1>6. CASE RouterParam
    BY <1>6 DEF RouterParam
<1>7. CASE RouterRoute \/ RouterResponse \/ RouterRow \/ RouterEnd \/ RouterChange
    BY <1>7 DEF RouterRoute, RouterResponse, RouterRow, RouterEnd, RouterChange
<1>8. CASE RouterDisconnected \/ Reconnected \/ ErrorTaken \/ RouterQuit \/ LinkBreak \/ ServerChange
           \/ UNCHANGED vars
    BY <1>8 DEF RouterDisconnected, Reconnected, NewSocket, ErrorTaken, RouterQuit, LinkBreak,
                ServerChange, vars
<1> QED  BY <1>1, <1>2, <1>3, <1>4, <1>5, <1>6, <1>7, <1>8 DEF RouterStep

\* Every step keeps what the Params name.
LEMMA ParamStep == TypeOK /\ CallInv /\ ParamInv /\ RouterStep => ParamInv'
<1> SUFFICES ASSUME TypeOK, CallInv, ParamInv, RouterStep PROVE ParamInv'
    OBVIOUS
<1>1. paramQ \in Seq(Param)
    BY DEF TypeOK, Param
<1>2. \A c \in Calls : kind[c] # "none" => kind'[c] = kind[c]
    BY KindStep
<1>3. ASSUME \A t \in Tokens :
                 /\ InSeq(StreamParam(t), paramQ') =>
                        InSeq(StreamParam(t), paramQ) \/ (t \in Calls /\ kind'[t] = "stream")
                 /\ InSeq(ListenParam(t), paramQ') =>
                        InSeq(ListenParam(t), paramQ) \/ (t \in Calls /\ kind'[t] = "listen")
      PROVE  ParamInv'
    BY <1>2, <1>3 DEF ParamInv
<1>4. CASE paramQ' = paramQ
    BY <1>3, <1>4
<1>5. CASE paramQ # <<>> /\ paramQ' = Tail(paramQ)
    BY <1>1, <1>3, <1>5, InTail
<1>6. ASSUME NEW t \in {Nobody} \cup Given, Connect(t),
             paramQ' = IF t = Nobody THEN <<>> ELSE <<TokenParam(t)>>
      PROVE  ParamInv'
  <2>1. \A x : InSeq(x, paramQ') => x = TokenParam(t)
      BY <1>6 DEF InSeq
  <2> QED  BY <1>3, <2>1, MessagesDiffer
<1>7. ASSUME NEW c \in Calls, NEW e \in Param, paramQ' = Append(paramQ, e),
             \/ Call(c, "stream") /\ e = StreamParam(c)
             \/ Listen(c) /\ e = ListenParam(c)
             \/ e = TokenParam(c)
      PROVE  ParamInv'
  <2>1. \A x : InSeq(x, paramQ') <=> InSeq(x, paramQ) \/ x = e
      BY <1>1, <1>7, InAppend
  <2>2. /\ Call(c, "stream") => kind'[c] = "stream"
        /\ Listen(c) => kind'[c] = "listen"
      BY DEF Call, Listen, TypeOK
  <2> QED  BY <1>3, <1>7, <2>1, <2>2, MessagesDiffer
<1>8. \A c \in Calls : StreamParam(c) \in Param /\ ListenParam(c) \in Param /\ TokenParam(c) \in Param
    BY MessageTypes DEF Tokens
<1> QED  BY <1>4, <1>5, <1>6, <1>7, <1>8, ParamEffect

\* Every step keeps where the Routes are and what was performed.
LEMMA CallStep == TypeOK /\ CallInv /\ RoutedInv /\ RouterStep => CallInv' /\ RoutedInv'
<1> SUFFICES ASSUME TypeOK, CallInv, RoutedInv, RouterStep PROVE CallInv' /\ RoutedInv'
    OBVIOUS
<1>1. routeQ \in Seq(Calls) /\ wire \in Seq(Wire)
    BY DEF TypeOK
<1>2. /\ kind \in [Calls -> Kinds \cup {"none"}] /\ routes \subseteq Calls /\ atServer \subseteq Calls
      /\ call \in [Calls -> {"idle", "waiting", "ok", "error", "returned", "failed"}]
      /\ performed \in [Calls -> 0..1]
    BY DEF TypeOK
<1>3. Kinds \subseteq {"query", "login", "authenticate", "stream", "listen"}
    BY RouterAssumption
<1> USE <1>2 DEF CallInv, RoutedInv, callers, queues, state, server, streams, history
\* Nothing but messages that are no responses comes or goes.
<1>4. ASSUME \A c \in Calls, r \in {"ok", "error"} :
                 InSeq(Response(c, r), wire') => InSeq(Response(c, r), wire),
             UNCHANGED <<callers, routeQ, routes, atServer, performed>>
      PROVE  CallInv' /\ RoutedInv'
    BY <1>4
<1>5. ASSUME NEW e \in Wire, wire' = Append(wire, e), \A c, r : e # Response(c, r),
             UNCHANGED <<callers, routeQ, routes, atServer, performed>>
      PROVE  CallInv' /\ RoutedInv'
    BY <1>1, <1>4, <1>5, InAppend
<1>6. ASSUME wire # <<>>, wire' = Tail(wire), UNCHANGED <<callers, routeQ, routes, atServer, performed>>
      PROVE  CallInv' /\ RoutedInv'
    BY <1>1, <1>4, <1>6, InTail
<1>7. ASSUME NEW t \in {Nobody} \cup Given, Connect(t) PROVE CallInv' /\ RoutedInv'
    BY <1>4, <1>7 DEF Connect
<1>8. ASSUME NEW c \in Calls, CallReturn(c) PROVE CallInv' /\ RoutedInv'
    BY <1>8 DEF CallReturn
<1>9. ASSUME NEW c \in Calls, Listen(c) PROVE CallInv' /\ RoutedInv'
    BY <1>9 DEF Listen
<1>10. ASSUME NEW c \in Calls, NEW k \in Kinds, Call(c, k) PROVE CallInv' /\ RoutedInv'
  <2>1. /\ \A x : InSeq(x, routeQ') <=> InSeq(x, routeQ) \/ x = c
        /\ \A x : Before(x, x, routeQ') <=> Before(x, x, routeQ) \/ (InSeq(x, routeQ) /\ x = c)
      BY <1>1, <1>10, InAppend DEF Call, Send
  <2>2. /\ call[c] = "idle" /\ k # "listen" /\ k # "none"
        /\ kind' = [kind EXCEPT ![c] = k] /\ call' = [call EXCEPT ![c] = "waiting"]
        /\ UNCHANGED <<wire, routes, atServer, performed>>
      BY <1>3, <1>10 DEF Call
  <2> QED  BY <2>1, <2>2
<1>11. ASSUME NEW c \in Calls, ServerStream(c) PROVE CallInv' /\ RoutedInv'
    BY <1>4, <1>11 DEF ServerStream
<1>12. ASSUME NEW c \in Calls, ServerAnswer(c) PROVE CallInv' /\ RoutedInv'
  <2>1. PICK res \in {"ok", "error"} : wire' = Append(wire, Response(c, res))
      BY <1>12 DEF ServerAnswer, Response
  <2>2. \A x : InSeq(x, wire') <=> InSeq(x, wire) \/ x = Response(c, res)
      BY <1>1, <2>1, MessageTypes, InAppend
  <2>3. /\ c \in atServer /\ atServer' = atServer \ {c}
        /\ performed' = [performed EXCEPT ![c] = @ + 1]
        /\ UNCHANGED <<callers, routeQ, routes>>
      BY <1>12 DEF ServerAnswer
  <2> QED  BY <2>2, <2>3, MessagesDiffer
<1>13. ASSUME NEW c \in Calls, ServerRow(c) PROVE CallInv' /\ RoutedInv'
  <2>1. sending[c] + 1 \in 1..Rows
      BY <1>13, RouterAssumption DEF ServerRow, TypeOK
  <2>2. Row(c, sending[c] + 1) \in Wire /\ wire' = Append(wire, Row(c, sending[c] + 1))
      BY <1>13, <2>1, MessageTypes DEF ServerRow, Row
  <2>3. \A d, r : Row(c, sending[c] + 1) # Response(d, r)
      BY MessagesDiffer
  <2>4. UNCHANGED <<callers, routeQ, routes, atServer, performed>>
      BY <1>13 DEF ServerRow
  <2> QED  BY <1>5, <2>2, <2>3, <2>4
<1>14. ASSUME NEW c \in Calls, ServerEnd(c) PROVE CallInv' /\ RoutedInv'
  <2>1. wire' = Append(wire, <<"end", c>>) \/ wire' = wire
      BY <1>14 DEF ServerEnd
  <2>2. UNCHANGED <<callers, routeQ, routes, atServer, performed>>
      BY <1>14 DEF ServerEnd
  <2>3. <<"end", c>> \in Wire /\ \A d, r : <<"end", c>> # Response(d, r)
      BY MessageTypes, MessagesDiffer
  <2>4. CASE wire' = Append(wire, <<"end", c>>)
    <3> DEFINE e == <<"end", c>>
    <3>1. e \in Wire /\ (\A d, r : e # Response(d, r)) /\ wire' = Append(wire, e)
        BY <2>3, <2>4
    <3> HIDE DEF e
    <3> QED  BY <1>5, <2>2, <3>1
  <2>5. CASE wire' = wire
      BY <1>4, <2>2, <2>5
  <2> QED  BY <2>1, <2>4, <2>5
<1>15. CASE ServerChange
  <2>1. changes + 1 \in 1..MaxChanges
      BY <1>15, RouterAssumption DEF ServerChange, TypeOK
  <2>2. Change(changes + 1) \in Wire /\ wire' = Append(wire, Change(changes + 1))
      BY <1>15, <2>1, MessageTypes DEF ServerChange, Change
  <2>3. \A c, r : Change(changes + 1) # Response(c, r)
      BY MessagesDiffer
  <2>4. UNCHANGED <<callers, routeQ, routes, atServer, performed>>
      BY <1>15 DEF ServerChange
  <2> QED  BY <1>5, <2>2, <2>3, <2>4
<1>16. CASE RouterParam \/ RouterDisconnected \/ LinkBreak
    BY <1>4, <1>16 DEF RouterParam, RouterDisconnected, LinkBreak
<1>17. CASE RouterRoute
  <2> DEFINE c == Head(routeQ)
  <2>1. /\ c \in Calls
        /\ \A x : InSeq(x, routeQ) <=> x = c \/ InSeq(x, routeQ')
        /\ \A x, y : Before(x, y, routeQ) <=> Before(x, y, routeQ') \/ (x = c /\ InSeq(y, routeQ'))
      BY <1>1, <1>17, InTail DEF RouterRoute
  <2>2. /\ \/ /\ routes' = routes \cup {c} /\ call' = call
              /\ atServer' = IF link = "open" THEN atServer \cup {c} ELSE atServer
           \/ call' = [call EXCEPT ![c] = "error"] /\ UNCHANGED <<routes, atServer>>
        /\ UNCHANGED <<kind, wire, performed>>
      BY <1>17 DEF RouterRoute
  <2> HIDE DEF c
  <2> QED  BY <2>1, <2>2
<1>18. CASE RouterResponse
  <2> DEFINE c == Head(wire)[2]
             res == Head(wire)[3]
  <2>1. /\ c \in Calls /\ res \in {"ok", "error"} /\ InSeq(Response(c, res), wire)
        /\ \A x : InSeq(x, wire') => InSeq(x, wire)
      BY <1>1, <1>18, InTail, MessageCases DEF RouterResponse, Received
  <2>2. /\ routes' = routes \ {c} /\ call' = IF c \in routes THEN [call EXCEPT ![c] = res] ELSE call
        /\ UNCHANGED <<kind, routeQ, atServer, performed>>
      BY <1>18 DEF RouterResponse
  <2> HIDE DEF c, res
  <2> QED  BY <2>1, <2>2
<1>19. CASE RouterRow \/ RouterEnd \/ RouterChange
    BY <1>6, <1>19 DEF RouterRow, RouterEnd, RouterChange, Received
<1>20. CASE Reconnected
  <2>1. PICK late \in SUBSET atServer :
            performed' = [c \in Calls |-> IF c \in late THEN performed[c] + 1 ELSE performed[c]]
      BY <1>20 DEF Reconnected, NewSocket
  <2>2. /\ call' = [c \in Calls |-> IF c \in routes THEN "error" ELSE call[c]]
        /\ routes' = {} /\ atServer' = {} /\ wire' = <<>> /\ UNCHANGED <<kind, routeQ>>
      BY <1>20 DEF Reconnected, NewSocket, StartOver
  <2>3. \A x : ~InSeq(x, wire')
      BY <2>2, NothingIn
  <2> QED  BY <2>1, <2>2, <2>3
<1>21. CASE ErrorTaken
    BY <1>21 DEF ErrorTaken, StartOver
<1>22. CASE RouterQuit
  <2>1. \A x : ~InSeq(x, wire')
      BY <1>22, NothingIn DEF RouterQuit
  <2> QED  BY <1>4, <1>22, <2>1 DEF RouterQuit
<1>23. CASE UNCHANGED vars
    BY <1>4, <1>23 DEF vars
<1> QED
    BY <1>7, <1>8, <1>9, <1>10, <1>11, <1>12, <1>13, <1>14, <1>15, <1>16, <1>17, <1>18, <1>19,
       <1>20, <1>21, <1>22, <1>23
    DEF RouterStep, Server

\* The types and the life of a call, from the start.
LEMMA FlightInvariant == BothSpec => [](TypeOK /\ FlightInv /\ EventsInv)
<1>1. BothInit => TypeOK /\ FlightInv /\ EventsInv
  <2> SUFFICES ASSUME BothInit PROVE TypeOK /\ FlightInv /\ EventsInv
      OBVIOUS
  <2>1. TypeOK
    <3>1. paramQ \in Seq({"stream", "listen", "token"} \X Tokens) /\ wire \in Seq(Wire)
          /\ routeQ \in Seq(Calls) /\ got \in [Calls -> Seq(Nat)]
        BY DEF BothInit, Init
    <3>2. /\ Nobody \in Tokens /\ Rows \in Nat /\ MaxBreaks \in Nat /\ MaxChanges \in Nat
        BY RouterAssumption DEF Tokens
    <3>3. sending \in [Calls -> -1..(Rows + 2)] /\ performed \in [Calls -> 0..1]
        BY <3>2 DEF BothInit, Init
    <3> QED  BY <3>1, <3>2, <3>3 DEF BothInit, Init, TypeOK
  <2>2. /\ routeQ = <<>> /\ paramQ = <<>> /\ wire = <<>> /\ events = <<>> /\ routes = {} /\ atServer = {}
        /\ router = "unborn" /\ since = -1 /\ breaks = 0 /\ link = "open"
        /\ kind = [c \in Calls |-> "none"] /\ call = [c \in Calls |-> "idle"]
        /\ performed = [c \in Calls |-> 0]
      BY DEF BothInit, Init
  <2>3. \A x, y : /\ ~InSeq(x, routeQ) /\ ~Before(x, y, routeQ)
                  /\ ~InSeq(x, paramQ) /\ ~InSeq(x, wire)
      BY <2>2, NothingIn
  <2>4. LinkInv
      BY <2>2 DEF LinkInv
  <2>5. CallInv
      BY <2>2, <2>3 DEF CallInv
  <2>6. RoutedInv
      BY <2>2, <2>3 DEF RoutedInv
  <2>7. ParamInv /\ EventsInv
      BY <2>2, <2>3 DEF ParamInv, EventsInv
  <2> QED  BY <2>1, <2>4, <2>5, <2>6, <2>7 DEF FlightInv
<1>2. TypeOK /\ FlightInv /\ EventsInv /\ [BothNext]_both => (TypeOK /\ FlightInv /\ EventsInv)'
    BY StepCases, EventsStep, TypeStep, LinkStep, ParamStep, CallStep DEF FlightInv
<1> QED  BY <1>1, <1>2, PTL DEF BothSpec

\* The state of the client and of its server is always of its types; in
\* particular no call is performed twice, whatever connections are lost.
THEOREM RouterTypeCorrect == BothSpec => []TypeOK
<1> QED  BY FlightInvariant, PTL

\* No caller is forgotten and none is answered twice, in either build.
THEOREM WaitingIsRoutedCorrect == BothSpec => []WaitingIsRouted
<1>1. TypeOK /\ FlightInv => WaitingIsRouted
    BY RoutedIsWaitingIsRouted DEF FlightInv
<1> QED  BY <1>1, FlightInvariant, PTL

-----------------------------------------------------------------------------
(* Who the session belongs to after a reconnection. *)

\* Neither build turns into the other.
LEMMA BuildStep == [BothNext]_both => build' = build
    BY DEF BothNext, both, Native, WasmNext, WasmConnect, WasmParam, WasmRequest, WasmResponse,
           WasmDisconnected, WasmEventError, WasmEventClosed, WasmReconnect, WasmQuit, WasmBreak, Wasm

\* The native router has the token it took up last until its next reconnection.
TakenInv ==
    /\ router = "unborn" => since = -1 /\ token = Nobody
    /\ build = "native" /\ since = 0 => token = taken
    /\ NativeKeepsIdentity

\* Every step keeps it.
LEMMA TakenStep ==
    ASSUME TypeOK, TakenInv, RouterStep, build' = build
    PROVE  TakenInv'
<1>1. since \in Int /\ -1 <= since /\ Nobody \notin Calls
    BY RouterAssumption DEF TypeOK
<1> USE DEF TakenInv, NativeKeepsIdentity, FirstReconnectKeepsIdentity,
            callers, queues, state, server, streams, history
<1>2. CASE UNCHANGED <<router, token, taken, since, session>>
    BY <1>2
<1>3. ASSUME NEW t \in {Nobody} \cup Given, Connect(t) PROVE TakenInv'
    BY <1>3 DEF Connect
<1>4. ASSUME NEW c \in Calls, CallReturn(c) \/ Listen(c) \/ \E k \in Kinds : Call(c, k) PROVE TakenInv'
    BY <1>2, <1>4 DEF CallReturn, Listen, Call
<1>5. ASSUME NEW c \in Calls, ServerAnswer(c) PROVE TakenInv'
  <2>1. /\ session' = session \/ session' = c
        /\ UNCHANGED <<router, token, taken, since>>
      BY <1>5 DEF ServerAnswer
  <2> QED  BY <1>1, <2>1
<1>6. ASSUME NEW c \in Calls, ServerStream(c) \/ ServerRow(c) \/ ServerEnd(c) PROVE TakenInv'
    BY <1>2, <1>6 DEF ServerStream, ServerRow, ServerEnd
<1>7. CASE RouterParam
  <2>1. /\ \/ UNCHANGED <<token, taken, since>>
           \/ token' = taken' /\ since' = 0
        /\ router = "select" /\ UNCHANGED <<router, session>>
      BY <1>7 DEF RouterParam
  <2> QED  BY <1>1, <2>1
<1>8. CASE RouterRoute \/ RouterDisconnected \/ RouterQuit
    BY <1>8 DEF RouterRoute, RouterDisconnected, RouterQuit
<1>9. CASE RouterResponse \/ RouterRow \/ RouterEnd \/ RouterChange \/ LinkBreak \/ ServerChange
           \/ UNCHANGED vars
    BY <1>2, <1>9 DEF RouterResponse, RouterRow, RouterEnd, RouterChange, LinkBreak, ServerChange, vars
<1>10. CASE Reconnected
  <2>1. /\ router' = "select" /\ session' = Claims(HandshakeToken)
        /\ since' = (IF since = -1 THEN -1 ELSE since + 1) /\ taken' = taken
      BY <1>10 DEF Reconnected, NewSocket
  <2>2. ASSUME build = "native", since' = 1, session' = Nobody PROVE taken \notin Good
    <3>1. since = 0 /\ HandshakeToken = taken
        BY <1>1, <2>1, <2>2 DEF HandshakeToken
    <3> QED  BY <2>1, <2>2, <3>1, RouterAssumption DEF Claims
  <2>3. since' # 0
      BY <1>1, <2>1
  <2> QED  BY <2>1, <2>2, <2>3
<1>11. CASE ErrorTaken
    BY <1>11 DEF ErrorTaken, StartOver
<1> QED
    BY <1>3, <1>4, <1>5, <1>6, <1>7, <1>8, <1>9, <1>10, <1>11 DEF RouterStep, Server

\* In the native build the first reconnection after a good token was taken up
\* gives the session back to it.
THEOREM NativeKeepsIdentityCorrect == BothSpec => []NativeKeepsIdentity
<1>1. BothInit => TakenInv
    BY DEF BothInit, Init, TakenInv, NativeKeepsIdentity, FirstReconnectKeepsIdentity
<1>2. TypeOK /\ EventsInv /\ TakenInv /\ [BothNext]_both => TakenInv'
    BY StepCases, BuildStep, TakenStep
<1>3. TakenInv => NativeKeepsIdentity
    BY DEF TakenInv
<1> QED  BY <1>1, <1>2, <1>3, FlightInvariant, PTL DEF BothSpec

\* A token that the router may have: none, the one of the options, one that
\* the server accepts, or one that authenticate passed on.
Refused(t) == t \in Calls /\ kind[t] = "authenticate" /\ call[t] = "returned"
Known(t) == t = Nobody \/ t = given \/ t \in Good \/ Refused(t)

\* The tokens under way and in the state are such, and a login that succeeded
\* has a good one.
KnownInv ==
    /\ router = "unborn" => token = Nobody
    /\ \A t \in Tokens : InSeq(TokenParam(t), paramQ) => Known(t)
    /\ Known(token)
    /\ \A c \in Calls : kind[c] = "login" =>
           (call[c] = "ok" \/ InSeq(Response(c, "ok"), wire) => c \in Good)
    /\ WasmKeepsGiven

\* A call that has returned has returned.
LEMMA ReturnedStep ==
    ASSUME TypeOK, CallInv, RoutedInv, RouterStep
    PROVE  \A c \in Calls : call[c] = "returned" => call'[c] = "returned"
<1>1. /\ call \in [Calls -> {"idle", "waiting", "ok", "error", "returned", "failed"}]
      /\ routeQ \in Seq(Calls) /\ wire \in Seq(Wire) /\ routes \subseteq Calls
    BY DEF TypeOK
<1> USE DEF RoutedInv, callers, queues, state, server, streams, history
<1>2. CASE UNCHANGED call
    BY <1>2
<1>3. ASSUME NEW c \in Calls, CallReturn(c) \/ Listen(c) \/ \E k \in Kinds : Call(c, k)
      PROVE  \A d \in Calls : call[d] = "returned" => call'[d] = "returned"
    BY <1>1, <1>3 DEF CallReturn, Listen, Call
<1>4. ASSUME NEW c \in Calls, Server(c) PROVE UNCHANGED call
    BY <1>4 DEF Server, ServerStream, ServerAnswer, ServerRow, ServerEnd
<1>5. ASSUME NEW t \in {Nobody} \cup Given, Connect(t) PROVE UNCHANGED call
    BY <1>5 DEF Connect
<1>6. CASE RouterRoute
  <2>1. Head(routeQ) \in Calls /\ InSeq(Head(routeQ), routeQ)
      BY <1>1, <1>6, InTail DEF RouterRoute
  <2> QED  BY <1>1, <1>6, <2>1 DEF RouterRoute
<1>7. CASE RouterResponse
  <2>1. call' = call \/ \E c \in routes : call' = [call EXCEPT ![c] = Head(wire)[3]]
      BY <1>7 DEF RouterResponse
  <2> QED  BY <1>1, <2>1
<1>8. CASE Reconnected \/ ErrorTaken
    BY <1>1, <1>8 DEF Reconnected, ErrorTaken, StartOver
<1>9. CASE RouterParam \/ RouterRow \/ RouterEnd \/ RouterChange \/ RouterDisconnected \/ RouterQuit
           \/ LinkBreak \/ ServerChange \/ UNCHANGED vars
    BY <1>2, <1>9 DEF RouterParam, RouterRow, RouterEnd, RouterChange, RouterDisconnected, RouterQuit,
                      LinkBreak, ServerChange, vars
<1> QED  BY <1>2, <1>3, <1>4, <1>5, <1>6, <1>7, <1>8, <1>9 DEF RouterStep

\* What a step does to the messages under way to the client.
LEMMA WireEffect ==
    ASSUME TypeOK, RouterStep
    PROVE  \/ wire' = wire
           \/ wire' = <<>> /\ (Reconnected \/ RouterQuit)
           \/ wire # <<>> /\ wire' = Tail(wire)
                  /\ (RouterResponse \/ RouterRow \/ RouterEnd \/ RouterChange)
           \/ \E c \in Calls, res \in {"ok", "error"} :
                  /\ ServerAnswer(c) /\ wire' = Append(wire, Response(c, res))
                  /\ kind[c] \in {"login", "authenticate"} => (res = "ok" <=> c \in Good)
           \/ \E c \in Calls :
                  /\ ServerRow(c) /\ sending[c] + 1 \in 1..Rows
                  /\ wire' = Append(wire, Row(c, sending[c] + 1))
           \/ \E c \in Calls : ServerEnd(c) /\ wire' = Append(wire, <<"end", c>>)
           \/ /\ ServerChange /\ changes + 1 \in 1..MaxChanges
              /\ wire' = Append(wire, Change(changes + 1))
<1> USE DEF callers, queues, state, server, streams, history
<1>1. ASSUME NEW c \in Calls, CallReturn(c) \/ Listen(c) \/ ServerStream(c) \/ \E k \in Kinds : Call(c, k)
      PROVE  wire' = wire
    BY <1>1 DEF CallReturn, Listen, ServerStream, Call
<1>2. ASSUME NEW c \in Calls, ServerAnswer(c)
      PROVE  \E res \in {"ok", "error"} :
                 /\ wire' = Append(wire, Response(c, res))
                 /\ kind[c] \in {"login", "authenticate"} => (res = "ok" <=> c \in Good)
    BY <1>2 DEF ServerAnswer, Response
<1>3. ASSUME NEW c \in Calls, ServerRow(c)
      PROVE  sending[c] + 1 \in 1..Rows /\ wire' = Append(wire, Row(c, sending[c] + 1))
  <2>1. Rows \in Nat /\ sending[c] \in 0..(Rows - 1)
      BY <1>3, RouterAssumption DEF ServerRow
  <2> QED  BY <1>3, <2>1 DEF ServerRow, Row
<1>4. ASSUME NEW c \in Calls, ServerEnd(c) PROVE wire' = wire \/ wire' = Append(wire, <<"end", c>>)
    BY <1>4 DEF ServerEnd
<1>5. CASE ServerChange
  <2>1. changes \in Nat /\ MaxChanges \in Nat /\ changes < MaxChanges
      BY <1>5, RouterAssumption DEF TypeOK, ServerChange
  <2> QED  BY <1>5, <2>1 DEF ServerChange, Change
<1>6. ASSUME NEW t \in {Nobody} \cup Given, Connect(t) PROVE wire' = wire
    BY <1>6 DEF Connect
<1>7. CASE RouterResponse \/ RouterRow \/ RouterEnd \/ RouterChange
    BY <1>7 DEF RouterResponse, RouterRow, RouterEnd, RouterChange, Received
<1>8. CASE RouterParam \/ RouterRoute \/ RouterDisconnected \/ ErrorTaken \/ LinkBreak
           \/ UNCHANGED vars
    BY <1>8 DEF RouterParam, RouterRoute, RouterDisconnected, ErrorTaken, LinkBreak, vars
<1>9. CASE Reconnected \/ RouterQuit
    BY <1>9 DEF Reconnected, NewSocket, RouterQuit
<1> QED  BY <1>1, <1>2, <1>3, <1>4, <1>5, <1>6, <1>7, <1>8, <1>9 DEF RouterStep, Server

\* A response comes from the server's answer.
LEMMA ResponseStep ==
    ASSUME TypeOK, RouterStep, NEW c \in Calls, NEW r \in {"ok", "error"},
           InSeq(Response(c, r), wire')
    PROVE  InSeq(Response(c, r), wire) \/
               (c \in atServer /\ (kind[c] \in {"login", "authenticate"} => (r = "ok" <=> c \in Good)))
<1>1. wire \in Seq(Wire)
    BY DEF TypeOK
<1>2. CASE wire' = <<>>
    BY <1>2, NothingIn
<1>3. CASE wire # <<>> /\ wire' = Tail(wire)
    BY <1>1, <1>3, InTail
<1>4. ASSUME NEW d \in Calls, NEW res \in {"ok", "error"}, ServerAnswer(d),
             wire' = Append(wire, Response(d, res)),
             kind[d] \in {"login", "authenticate"} => (res = "ok" <=> d \in Good)
      PROVE  InSeq(Response(c, r), wire) \/
               (c \in atServer /\ (kind[c] \in {"login", "authenticate"} => (r = "ok" <=> c \in Good)))
  <2>1. InSeq(Response(c, r), wire) \/ Response(c, r) = Response(d, res)
      BY <1>1, <1>4, MessageTypes, InAppend
  <2>2. d \in atServer
      BY <1>4 DEF ServerAnswer
  <2> QED  BY <1>4, <2>1, <2>2, MessagesDiffer
<1>5. ASSUME NEW e \in Wire, wire' = Append(wire, e), Response(c, r) # e
      PROVE  InSeq(Response(c, r), wire)
    BY <1>1, <1>5, InAppend
<1>6. \A d \in Calls : <<"end", d>> \in Wire /\ Response(c, r) # <<"end", d>>
    BY MessageTypes, MessagesDiffer
<1>7. \A d \in Calls, n \in 1..Rows : Row(d, n) \in Wire /\ Response(c, r) # Row(d, n)
    BY MessageTypes, MessagesDiffer
<1>8. \A n \in 1..MaxChanges : Change(n) \in Wire /\ Response(c, r) # Change(n)
    BY MessageTypes, MessagesDiffer
<1>9. \A d \in Calls : wire' = Append(wire, <<"end", d>>) => InSeq(Response(c, r), wire)
  <2> SUFFICES ASSUME NEW d \in Calls, wire' = Append(wire, <<"end", d>>)
               PROVE  InSeq(Response(c, r), wire)
      OBVIOUS
  <2> DEFINE e == <<"end", d>>
  <2>1. e \in Wire /\ wire' = Append(wire, e) /\ Response(c, r) # e
      BY <1>6
  <2> HIDE DEF e
  <2> QED  BY <1>5, <2>1
<1> QED  BY <1>2, <1>3, <1>4, <1>5, <1>7, <1>8, <1>9, WireEffect

\* A call that succeeds does so by a response under way.
LEMMA OkStep ==
    ASSUME TypeOK, RouterStep, NEW c \in Calls, call'[c] = "ok"
    PROVE  (call[c] = "ok" \/ InSeq(Response(c, "ok"), wire)) /\ kind'[c] = kind[c]
<1>1. /\ call \in [Calls -> {"idle", "waiting", "ok", "error", "returned", "failed"}]
      /\ kind \in [Calls -> Kinds \cup {"none"}]
      /\ routeQ \in Seq(Calls) /\ wire \in Seq(Wire) /\ routes \subseteq Calls
    BY DEF TypeOK
<1> USE DEF callers, queues, state, server, streams, history
<1>2. CASE UNCHANGED <<call, kind>>
    BY <1>2
<1>3. ASSUME NEW d \in Calls, CallReturn(d) \/ Listen(d) \/ \E k \in Kinds : Call(d, k)
      PROVE  call[c] = "ok" /\ kind'[c] = kind[c]
    BY <1>1, <1>3 DEF CallReturn, Listen, Call
<1>4. ASSUME NEW d \in Calls, Server(d) PROVE UNCHANGED <<call, kind>>
    BY <1>4 DEF Server, ServerStream, ServerAnswer, ServerRow, ServerEnd
<1>5. ASSUME NEW t \in {Nobody} \cup Given, Connect(t) PROVE UNCHANGED <<call, kind>>
    BY <1>5 DEF Connect
<1>6. CASE RouterRoute
  <2>1. Head(routeQ) \in Calls
      BY <1>1, <1>6, InTail DEF RouterRoute
  <2> QED  BY <1>1, <1>6, <2>1 DEF RouterRoute
<1>7. CASE RouterResponse
  <2> DEFINE d == Head(wire)[2]
             r == Head(wire)[3]
  <2>1. d \in Calls /\ InSeq(Response(d, r), wire)
      BY <1>1, <1>7, InTail, MessageCases DEF RouterResponse, Received
  <2>2. call' = IF d \in routes THEN [call EXCEPT ![d] = r] ELSE call
      BY <1>7 DEF RouterResponse
  <2>3. kind' = kind
      BY <1>7 DEF RouterResponse
  <2> HIDE DEF d, r
  <2> QED  BY <1>1, <2>1, <2>2, <2>3
<1>8. CASE Reconnected \/ ErrorTaken
    BY <1>1, <1>8 DEF Reconnected, NewSocket, ErrorTaken, StartOver
<1>9. CASE RouterParam \/ RouterRow \/ RouterEnd \/ RouterChange \/ RouterDisconnected \/ RouterQuit
           \/ LinkBreak \/ ServerChange \/ UNCHANGED vars
    BY <1>2, <1>9 DEF RouterParam, RouterRow, RouterEnd, RouterChange, RouterDisconnected, RouterQuit,
                      LinkBreak, ServerChange, vars
<1> QED  BY <1>2, <1>3, <1>4, <1>5, <1>6, <1>7, <1>8, <1>9 DEF RouterStep

\* Where the token of the state and the owner of the session come from.
LEMMA TokenEffect ==
    ASSUME TypeOK, RouterStep
    PROVE  \/ \E t \in {Nobody} \cup Given : Connect(t)
           \/ /\ given' = given /\ (router' = "unborn" => router = "unborn")
              /\ \/ token' = token
                 \/ token' = Nobody
                 \/ router' = "select" /\ token' \in Tokens /\ InSeq(TokenParam(token'), paramQ)
              /\ session' = session \/ session' \in Calls \/ session' = Claims(HandshakeToken)
<1> DEFINE Rest ==
        /\ given' = given /\ (router' = "unborn" => router = "unborn")
        /\ \/ token' = token
           \/ token' = Nobody
           \/ router' = "select" /\ token' \in Tokens /\ InSeq(TokenParam(token'), paramQ)
        /\ session' = session \/ session' \in Calls \/ session' = Claims(HandshakeToken)
<1> USE DEF callers, queues, state, server, streams, history
<1>1. ASSUME NEW c \in Calls, CallReturn(c) \/ Listen(c) \/ \E k \in Kinds : Call(c, k) PROVE Rest
    BY <1>1 DEF CallReturn, Listen, Call
<1>2. ASSUME NEW c \in Calls, Server(c) PROVE Rest
    BY <1>2 DEF Server, ServerStream, ServerAnswer, ServerRow, ServerEnd
<1>3. CASE RouterParam
  <2> DEFINE q == Head(paramQ)
  <2>1. q \in Param /\ InSeq(q, paramQ)
    <3>1. paramQ \in Seq(Param) /\ paramQ # <<>>
        BY <1>3 DEF TypeOK, Param, RouterParam
    <3> QED  BY <3>1, InTail
  <2>2. /\ token' = token \/ (q[1] = "token" /\ token' = q[2])
        /\ router = "select" /\ UNCHANGED <<given, router, session>>
      BY <1>3 DEF RouterParam
  <2>3. q[2] \in Tokens /\ (q[1] = "token" => q = TokenParam(q[2]))
      BY <2>1, MessageCases
  <2> HIDE DEF q
  <2> QED  BY <2>1, <2>2, <2>3
<1>4. CASE RouterRoute \/ RouterResponse \/ RouterRow \/ RouterEnd \/ RouterChange
    BY <1>4 DEF RouterRoute, RouterResponse, RouterRow, RouterEnd, RouterChange
<1>5. CASE RouterDisconnected \/ RouterQuit \/ LinkBreak \/ ServerChange \/ UNCHANGED vars
    BY <1>5 DEF RouterDisconnected, RouterQuit, LinkBreak, ServerChange, vars
<1>6. CASE Reconnected
    BY <1>6 DEF Reconnected, NewSocket, StartOver
<1>7. CASE ErrorTaken
    BY <1>7 DEF ErrorTaken, StartOver
<1> QED  BY <1>1, <1>2, <1>3, <1>4, <1>5, <1>6, <1>7 DEF RouterStep

\* Every step keeps it.
LEMMA KnownStep ==
    ASSUME TypeOK, CallInv, RoutedInv, KnownInv, RouterStep, build' = build
    PROVE  KnownInv'
<1>1. \A t : Refused(t) => Refused(t)'
  <2> SUFFICES ASSUME NEW t, Refused(t) PROVE Refused(t)'
      OBVIOUS
  <2> QED  BY KindStep, ReturnedStep DEF Refused
<1>2. /\ call \in [Calls -> {"idle", "waiting", "ok", "error", "returned", "failed"}]
      /\ kind \in [Calls -> Kinds \cup {"none"}] /\ token \in Tokens /\ given \in Tokens
    BY DEF TypeOK
<1>3. Nobody \notin Calls \cup Given /\ Calls \subseteq Tokens
    BY RouterAssumption DEF Tokens
\* A login succeeds with a good token only.
<1>4. ASSUME NEW c \in Calls, kind'[c] = "login", call'[c] = "ok" \/ InSeq(Response(c, "ok"), wire')
      PROVE  c \in Good
  <2>1. CASE call'[c] = "ok"
      BY <1>4, <2>1, OkStep DEF KnownInv
  <2>2. CASE InSeq(Response(c, "ok"), wire')
    <3>1. InSeq(Response(c, "ok"), wire) \/
              (c \in atServer /\ (kind[c] \in {"login", "authenticate"} => c \in Good))
        BY <2>2, ResponseStep
    <3>2. kind[c] # "none"
      <4>1. InSeq(Response(c, "ok"), wire) => performed[c] # 0
          BY DEF CallInv
      <4>2. c \in atServer \/ performed[c] # 0 => kind[c] # "none"
          BY DEF CallInv
      <4> QED  BY <3>1, <4>1, <4>2
    <3>3. kind[c] = "login"
        BY <1>4, <3>2, KindStep
    <3> QED  BY <3>1, <3>3 DEF KnownInv
  <2> QED  BY <1>4, <2>1, <2>2
<1>5. ASSUME NEW u \in {Nobody} \cup Given, Connect(u) PROVE KnownInv'
  <2>1. /\ router = "unborn" /\ router' = "select" /\ given' = u /\ session' = Claims(u)
        /\ token' = token
        /\ paramQ' = IF u = Nobody THEN <<>> ELSE <<TokenParam(u)>>
      BY <1>5 DEF Connect, state
  <2>2. \A x : InSeq(x, paramQ') => x = TokenParam(u)
      BY <2>1 DEF InSeq
  <2>3. \A t \in Tokens : InSeq(TokenParam(t), paramQ') => Known(t)'
      BY <2>1, <2>2, MessagesDiffer DEF Known
  <2>4. Known(token)'
      BY <2>1 DEF KnownInv, Known
  <2>5. WasmKeepsGiven'
      BY <1>3, <2>1, RouterAssumption DEF WasmKeepsGiven, Claims
  <2> QED  BY <1>4, <2>1, <2>3, <2>4, <2>5 DEF KnownInv
<1>6. ASSUME given' = given, router' = "unborn" => router = "unborn",
             \/ token' = token
             \/ token' = Nobody
             \/ router' = "select" /\ token' \in Tokens /\ InSeq(TokenParam(token'), paramQ),
             session' = session \/ session' \in Calls \/ session' = Claims(HandshakeToken),
             ~(\E t \in {Nobody} \cup Given : Connect(t))
      PROVE  KnownInv'
  <2>1. \A t : Known(t) => Known(t)'
    <3> SUFFICES ASSUME NEW t, Known(t) PROVE Known(t)'
        OBVIOUS
    <3> QED  BY <1>1, <1>6 DEF Known
  <2>2. Known(token)'
    <3>1. Known(Nobody)'
        BY DEF Known
    <3>2. token' = Nobody => Known(token)'
        BY DEF Known
    <3>3. token' # Nobody => Known(token')
        BY <1>6 DEF KnownInv
    <3>4. Known(token') => Known(token)'
        BY <1>1, <1>6 DEF Known
    <3> QED  BY <3>2, <3>3, <3>4
  <2>3. router' = "unborn" => token' = Nobody
      BY <1>6 DEF KnownInv
  <2>4. \A t \in Tokens : InSeq(TokenParam(t), paramQ') => Known(t)'
    <3> SUFFICES ASSUME NEW t \in Tokens, InSeq(TokenParam(t), paramQ') PROVE Known(t)'
        OBVIOUS
    <3>1. CASE InSeq(TokenParam(t), paramQ)
        BY <2>1, <3>1 DEF KnownInv
    <3>2. ASSUME NEW c \in Calls, CallReturn(c), PassesToken(c), t = c PROVE Known(t)'
      <4>1. CASE kind[c] = "authenticate"
          BY <1>2, <3>2, <4>1 DEF CallReturn, Known, Refused
      <4>2. CASE kind[c] = "login" /\ call[c] = "ok"
          BY <3>2, <4>2 DEF KnownInv, Known
      <4> QED  BY <3>2, <4>1, <4>2 DEF PassesToken
    <3>3. ASSUME NEW e \in Param, paramQ' = Append(paramQ, e)
          PROVE  InSeq(TokenParam(t), paramQ) \/ e = TokenParam(t)
      <4>1. paramQ \in Seq(Param)
          BY DEF TypeOK, Param
      <4> QED  BY <3>3, <4>1, InAppend
    <3>4. \A c \in Calls :
              StreamParam(c) \in Param /\ ListenParam(c) \in Param /\ TokenParam(c) \in Param
        BY <1>3, MessageTypes
    <3>5. CASE paramQ' = paramQ
        BY <3>1, <3>5
    <3>6. CASE paramQ # <<>> /\ paramQ' = Tail(paramQ)
      <4>1. paramQ \in Seq(Param)
          BY DEF TypeOK, Param
      <4> QED  BY <3>1, <3>6, <4>1, InTail
    <3>7. ASSUME NEW c \in Calls, paramQ' = Append(paramQ, StreamParam(c))
                                      \/ paramQ' = Append(paramQ, ListenParam(c))
          PROVE  Known(t)'
        BY <3>1, <3>3, <3>4, <3>7, MessagesDiffer
    <3>8. ASSUME NEW c \in Calls, CallReturn(c), PassesToken(c), paramQ' = Append(paramQ, TokenParam(c))
          PROVE  Known(t)'
        BY <3>1, <3>2, <3>3, <3>4, <3>8, MessagesDiffer
    <3> QED  BY <1>6, <3>5, <3>6, <3>7, <3>8, ParamEffect
  <2>5. WasmKeepsGiven'
    <3> SUFFICES ASSUME build' = "wasm", given' \in Good, session' = Nobody
                 PROVE  \E c \in Calls \ Good : Refused(c)'
        BY DEF WasmKeepsGiven, Refused
    <3>1. \A c \in Calls \ Good : Refused(c) => \E d \in Calls \ Good : Refused(d)'
        BY <1>1
    <3>2. CASE session = Nobody
        BY <1>6, <3>1, <3>2 DEF KnownInv, WasmKeepsGiven, Refused
    <3>3. CASE session' = Claims(HandshakeToken)
      <4>1. HandshakeToken \notin Good
          BY <1>3, <3>3, RouterAssumption DEF Claims
      <4>2. HandshakeToken = token /\ token # Nobody
          BY <1>6, <4>1 DEF HandshakeToken
      <4>3. Refused(token)
          BY <1>6, <4>1, <4>2 DEF KnownInv, Known
      <4> QED  BY <3>1, <4>1, <4>2, <4>3 DEF Refused
    <3> QED  BY <1>3, <1>6, <3>2, <3>3
  <2> QED  BY <1>4, <2>2, <2>3, <2>4, <2>5 DEF KnownInv
<1> QED  BY <1>5, <1>6, TokenEffect

\* A browser client that was built with a good token is anonymous only after
\* authenticate took up a token that the server refuses.
THEOREM WasmKeepsGivenCorrect == BothSpec => []WasmKeepsGiven
<1>1. BothInit => KnownInv
  <2> SUFFICES ASSUME BothInit PROVE KnownInv
      OBVIOUS
  <2>1. \A x : ~InSeq(x, paramQ)
      BY NothingIn DEF BothInit, Init
  <2>2. \A c \in Calls : kind[c] = "none"
      BY DEF BothInit, Init
  <2>3. given = Nobody /\ token = Nobody
      BY DEF BothInit, Init
  <2>4. Nobody \notin Good
      BY RouterAssumption
  <2> QED  BY <2>1, <2>2, <2>3, <2>4 DEF KnownInv, Known, WasmKeepsGiven
<1>2. TypeOK /\ FlightInv /\ EventsInv /\ KnownInv /\ [BothNext]_both => KnownInv'
    BY StepCases, BuildStep, KnownStep DEF FlightInv
<1>3. KnownInv => WasmKeepsGiven
    BY DEF KnownInv
<1> QED  BY <1>1, <1>2, <1>3, FlightInvariant, PTL DEF BothSpec

-----------------------------------------------------------------------------
(* The router implements RemoteCall. *)

\* What the caller of a call of kind k that is at a knows.
View(k, a) ==
    IF k = "listen" \/ a = "idle" THEN "idle"
    ELSE IF a = "waiting" THEN "waiting"
    ELSE IF a \in {"ok", "returned"} /\ k # "authenticate" THEN "ok" ELSE "unknown"

\* This is what ClientRouter maps to the status of RemoteCall.
LEMMA StatusIsView ==
    ASSUME TypeOK, CallInv, NEW c \in Calls
    PROVE  Status(c) = View(kind[c], call[c])
<1>1. /\ call[c] \in {"idle", "waiting", "ok", "error", "returned", "failed"}
      /\ kind[c] = "listen" => call[c] = "returned"
    BY DEF TypeOK, CallInv
<1> QED  BY <1>1 DEF Status, View

\* Every step of the router is a step of RemoteCall, or none.
LEMMA PromiseStep ==
    ASSUME TypeOK, FlightInv, TypeOK', CallInv', RouterStep
    PROVE  Promise!Next \/ UNCHANGED Promise!vars
<1> DEFINE st == [c \in Calls |-> Status(c)]
           V(c) == View(kind[c], call[c])
<1>1. \A c \in Calls : Status(c) = V(c) /\ Status(c)' = V(c)'
  <2>1. \A c \in Calls : Status(c) = V(c)
      BY StatusIsView DEF FlightInv
  <2>2. ASSUME NEW c \in Calls PROVE Status(c)' = V(c)'
    <3>1. /\ call'[c] \in {"idle", "waiting", "ok", "error", "returned", "failed"}
          /\ kind'[c] = "listen" => call'[c] = "returned"
        BY DEF TypeOK, CallInv
    <3> QED  BY <3>1 DEF Status, View
  <2> QED  BY <2>1, <2>2
<1>2. st = [c \in Calls |-> V(c)] /\ st' = [c \in Calls |-> V(c)']
    BY <1>1
<1>3. /\ call \in [Calls -> {"idle", "waiting", "ok", "error", "returned", "failed"}]
      /\ kind \in [Calls -> Kinds \cup {"none"}] /\ performed \in [Calls -> 0..1]
      /\ routes \subseteq Calls /\ atServer \subseteq Calls /\ routeQ \in Seq(Calls) /\ wire \in Seq(Wire)
    BY DEF TypeOK
<1>4. CallInv /\ RoutedInv
    BY DEF FlightInv
<1> USE DEF callers, queues, state, server, streams, history
<1> HIDE DEF st, V
\* The steps of RemoteCall.
<1>5. ASSUME st' = st, performed' = performed PROVE UNCHANGED Promise!vars
    BY <1>5 DEF Promise!vars, st
<1>6. ASSUME NEW c \in Calls, st[c] = "idle", st' = [st EXCEPT ![c] = "waiting"], performed' = performed
      PROVE  Promise!Next
    BY <1>6 DEF Promise!Next, Promise!Issue, st
<1>7. ASSUME NEW c \in Calls, st[c] # "idle", performed[c] = 0, st' = st,
             performed' = [performed EXCEPT ![c] = 1]
      PROVE  Promise!Next
    BY <1>7 DEF Promise!Next, Promise!Perform, st
<1>8. ASSUME NEW c \in Calls, st[c] = "waiting", performed[c] = 1, st' = [st EXCEPT ![c] = "ok"],
             performed' = performed
      PROVE  Promise!Next
    BY <1>8 DEF Promise!Next, Promise!Succeed, st
<1>9. ASSUME NEW lost \in SUBSET Calls, NEW late \in SUBSET Calls,
             \A c \in lost : st[c] = "waiting",
             \A c \in late : st[c] # "idle" /\ performed[c] = 0,
             st' = [c \in Calls |-> IF c \in lost THEN "unknown" ELSE st[c]],
             performed' = [c \in Calls |-> IF c \in late THEN 1 ELSE performed[c]]
      PROVE  Promise!Next
    BY <1>9 DEF Promise!Next, Promise!Fail, st
\* The steps of the router.
<1>10. ASSUME UNCHANGED <<kind, call, performed>> PROVE UNCHANGED Promise!vars
  <2>1. \A c \in Calls : V(c)' = V(c)
      BY <1>10 DEF V
  <2> QED  BY <1>2, <1>5, <1>10, <2>1
<1>11. ASSUME NEW c \in Calls, NEW k \in Kinds, Call(c, k) PROVE Promise!Next
  <2>1. /\ call[c] = "idle" /\ k # "listen" /\ performed' = performed
        /\ kind' = [kind EXCEPT ![c] = k] /\ call' = [call EXCEPT ![c] = "waiting"]
      BY <1>11 DEF Call
  <2>2. V(c) = "idle" /\ \A d \in Calls : V(d)' = IF d = c THEN "waiting" ELSE V(d)
      BY <1>3, <2>1 DEF V, View
  <2>3. st[c] = "idle" /\ st' = [st EXCEPT ![c] = "waiting"]
      BY <1>2, <2>2
  <2> QED  BY <1>6, <2>1, <2>3
<1>12. ASSUME NEW c \in Calls, Listen(c) PROVE UNCHANGED Promise!vars
  <2>1. /\ call[c] = "idle" /\ performed' = performed
        /\ kind' = [kind EXCEPT ![c] = "listen"] /\ call' = [call EXCEPT ![c] = "returned"]
      BY <1>12 DEF Listen
  <2>2. \A d \in Calls : V(d)' = V(d)
      BY <1>3, <2>1 DEF V, View
  <2> QED  BY <1>2, <1>5, <2>1, <2>2
<1>13. ASSUME NEW c \in Calls, CallReturn(c) PROVE UNCHANGED Promise!vars
  <2>1. /\ call[c] \in {"ok", "error"} /\ performed' = performed /\ kind' = kind
        /\ call' = [call EXCEPT ![c] =
                        IF @ = "ok" \/ kind[c] = "authenticate" THEN "returned" ELSE "failed"]
      BY <1>13 DEF CallReturn
  <2>2. \A d \in Calls : V(d)' = V(d)
      BY <1>3, <2>1 DEF V, View
  <2> QED  BY <1>2, <1>5, <2>1, <2>2
<1>14. ASSUME NEW c \in Calls, ServerAnswer(c) PROVE Promise!Next
  <2>1. c \in atServer /\ UNCHANGED <<kind, call>> /\ performed' = [performed EXCEPT ![c] = @ + 1]
      BY <1>14 DEF ServerAnswer
  <2>2. performed[c] = 0 /\ V(c) # "idle"
      BY <1>4, <2>1 DEF CallInv, V, View
  <2>3. performed' = [performed EXCEPT ![c] = 1]
      BY <1>3, <2>1, <2>2
  <2>4. \A d \in Calls : V(d)' = V(d)
      BY <2>1 DEF V
  <2>5. st' = st /\ st[c] # "idle"
      BY <1>2, <2>2, <2>4
  <2> QED  BY <1>7, <2>2, <2>3, <2>5
\* The calls of lost end with an error.
<1>15. ASSUME NEW lost \in SUBSET Calls, NEW late \in SUBSET atServer,
              lost \subseteq routes \cup {c \in Calls : InSeq(c, routeQ)},
              kind' = kind, call' = [c \in Calls |-> IF c \in lost THEN "error" ELSE call[c]],
              performed' = [c \in Calls |-> IF c \in late THEN performed[c] + 1 ELSE performed[c]]
       PROVE  Promise!Next
  <2>1. \A c \in lost : call[c] = "waiting" /\ kind[c] # "listen"
      BY <1>4, <1>15 DEF RoutedInv, CallInv
  <2>2. \A c \in late : V(c) # "idle" /\ performed[c] = 0
      BY <1>3, <1>4 DEF CallInv, V, View
  <2>3. \A c \in Calls : V(c)' = IF c \in lost THEN "unknown" ELSE V(c)
      BY <1>3, <1>15, <2>1 DEF V, View
  <2>4. \A c \in lost : V(c) = "waiting"
      BY <2>1 DEF V, View
  <2>5. performed' = [c \in Calls |-> IF c \in late THEN 1 ELSE performed[c]]
      BY <1>3, <1>15, <2>2
  <2>6. /\ st' = [c \in Calls |-> IF c \in lost THEN "unknown" ELSE st[c]]
        /\ \A c \in lost : st[c] = "waiting"
        /\ \A c \in late : st[c] # "idle" /\ performed[c] = 0
      BY <1>2, <1>3, <2>2, <2>3, <2>4
  <2> QED  BY <1>3, <1>9, <2>5, <2>6
<1>16. ASSUME NEW c \in Calls, InSeq(c, routeQ) \/ c \in routes, kind' = kind, performed' = performed,
              call' = [call EXCEPT ![c] = "error"]
       PROVE  Promise!Next
  <2>1. call' = [d \in Calls |-> IF d \in {c} THEN "error" ELSE call[d]]
      BY <1>3, <1>16
  <2>2. performed' = [d \in Calls |-> IF d \in {} THEN performed[d] + 1 ELSE performed[d]]
      BY <1>3, <1>16
  <2>3. {c} \subseteq routes \cup {d \in Calls : InSeq(d, routeQ)}
      BY <1>16
  <2>4. {c} \in SUBSET Calls /\ {} \in SUBSET atServer
      OBVIOUS
  <2> QED  BY <1>15, <1>16, <2>1, <2>2, <2>3, <2>4
<1>17. CASE RouterRoute
  <2>1. Head(routeQ) \in Calls /\ InSeq(Head(routeQ), routeQ)
      BY <1>3, <1>17, InTail DEF RouterRoute
  <2>2. /\ UNCHANGED <<kind, performed>>
        /\ call' = call \/ call' = [call EXCEPT ![Head(routeQ)] = "error"]
      BY <1>17 DEF RouterRoute
  <2> QED  BY <1>10, <1>16, <2>1, <2>2
<1>18. CASE RouterResponse
  <2> DEFINE c == Head(wire)[2]
             res == Head(wire)[3]
  <2>1. c \in Calls /\ res \in {"ok", "error"} /\ InSeq(Response(c, res), wire)
      BY <1>3, <1>18, InTail, MessageCases DEF RouterResponse, Received
  <2>2. /\ call' = IF c \in routes THEN [call EXCEPT ![c] = res] ELSE call
        /\ UNCHANGED <<kind, performed>>
      BY <1>18 DEF RouterResponse
  <2> HIDE DEF c, res
  <2>3. CASE c \notin routes
      BY <1>10, <2>2, <2>3
  <2>4. CASE c \in routes /\ res = "error"
      BY <1>16, <2>1, <2>2, <2>4
  <2>5. CASE c \in routes /\ res = "ok"
    <3>1. call[c] = "waiting" /\ kind[c] # "listen" /\ performed[c] = 1
        BY <1>4, <2>1, <2>5 DEF RoutedInv, CallInv
    <3>2. \A d \in Calls :
              V(d)' = IF d # c THEN V(d) ELSE IF kind[c] = "authenticate" THEN "unknown" ELSE "ok"
        BY <1>3, <2>2, <2>5, <3>1 DEF V, View
    <3>3. V(c) = "waiting"
        BY <3>1 DEF V, View
    <3>4. CASE kind[c] # "authenticate"
      <4>1. st[c] = "waiting" /\ st' = [st EXCEPT ![c] = "ok"]
          BY <1>2, <2>1, <3>2, <3>3, <3>4
      <4> QED  BY <1>8, <2>1, <2>2, <3>1, <4>1
    <3>5. CASE kind[c] = "authenticate"
      <4>1. /\ {c} \in SUBSET Calls /\ {} \in SUBSET Calls
            /\ \A d \in {c} : st[d] = "waiting"
            /\ \A d \in {} : st[d] # "idle" /\ performed[d] = 0
            /\ st' = [d \in Calls |-> IF d \in {c} THEN "unknown" ELSE st[d]]
          BY <1>2, <2>1, <3>2, <3>3, <3>5
      <4>2. performed' = [d \in Calls |-> IF d \in {} THEN 1 ELSE performed[d]]
          BY <1>3, <2>2
      <4> QED  BY <1>9, <4>1, <4>2
    <3> QED  BY <3>4, <3>5
  <2> QED  BY <2>1, <2>3, <2>4, <2>5
<1>19. CASE Reconnected
  <2>1. PICK late \in SUBSET atServer :
            performed' = [c \in Calls |-> IF c \in late THEN performed[c] + 1 ELSE performed[c]]
      BY <1>19 DEF Reconnected, NewSocket
  <2>2. call' = [c \in Calls |-> IF c \in routes THEN "error" ELSE call[c]] /\ kind' = kind
      BY <1>19 DEF Reconnected, NewSocket, StartOver
  <2>3. routes \in SUBSET Calls
      BY <1>3
  <2>4. routes \subseteq routes \cup {c \in Calls : InSeq(c, routeQ)}
      OBVIOUS
  <2> QED  BY <1>15, <2>1, <2>2, <2>3, <2>4
<1>20. CASE ErrorTaken
  <2>1. /\ call' = [c \in Calls |-> IF c \in routes THEN "error" ELSE call[c]]
        /\ UNCHANGED <<kind, performed>>
      BY <1>20 DEF ErrorTaken, StartOver
  <2>2. performed' = [c \in Calls |-> IF c \in {} THEN performed[c] + 1 ELSE performed[c]]
      BY <1>3, <2>1
  <2>3. routes \in SUBSET Calls /\ {} \in SUBSET atServer
      BY <1>3
  <2>4. routes \subseteq routes \cup {c \in Calls : InSeq(c, routeQ)}
      OBVIOUS
  <2> QED  BY <1>15, <2>1, <2>2, <2>3, <2>4
<1>21. ASSUME NEW c \in Calls, ServerStream(c) \/ ServerRow(c) \/ ServerEnd(c)
       PROVE  UNCHANGED <<kind, call, performed>>
    BY <1>21 DEF ServerStream, ServerRow, ServerEnd
<1>22. ASSUME NEW t \in {Nobody} \cup Given, Connect(t) PROVE UNCHANGED <<kind, call, performed>>
    BY <1>22 DEF Connect
<1>23. CASE RouterParam \/ RouterRow \/ RouterEnd \/ RouterChange \/ RouterDisconnected \/ RouterQuit
            \/ LinkBreak \/ ServerChange \/ UNCHANGED vars
    BY <1>10, <1>23 DEF RouterParam, RouterRow, RouterEnd, RouterChange, RouterDisconnected,
                        RouterQuit, LinkBreak, ServerChange, vars
<1> QED
    BY <1>10, <1>11, <1>12, <1>13, <1>14, <1>17, <1>18, <1>19, <1>20, <1>21, <1>22, <1>23
    DEF RouterStep, Server

\* Both builds of the router implement RemoteCall: a call is performed once at
\* most, and succeeds only if it was performed, though connections are lost
\* with calls in flight.
THEOREM ImplementsRemoteCallCorrect == BothSpec => ImplementsRemoteCall
<1>1. BothInit => Promise!Init
  <2> SUFFICES ASSUME BothInit PROVE Promise!Init
      OBVIOUS
  <2>1. \A c \in Calls : Status(c) = "idle"
      BY DEF BothInit, Init, Status
  <2> QED  BY <2>1 DEF BothInit, Init, Promise!Init
<1>2. /\ TypeOK /\ FlightInv /\ EventsInv /\ (TypeOK /\ FlightInv /\ EventsInv)' /\ [BothNext]_both
      => [Promise!Next]_(Promise!vars)
    BY StepCases, PromiseStep DEF FlightInv
<1> QED  BY <1>1, <1>2, FlightInvariant, PTL DEF BothSpec, ImplementsRemoteCall, Promise!Spec

-----------------------------------------------------------------------------
(* What a QueryStream and a Listen yield. *)

\* The rows of a stream that are under way are consecutive, in order, and end
\* with the one that was sent last, as long as more may be sent; the changes
\* under way are in commit order.
RowsUnderWay(c) ==
    \A n \in 1..Rows : InSeq(Row(c, n), wire) =>
        /\ sending[c] <= Rows => n <= sending[c] /\ InSeq(Row(c, sending[c]), wire)
        /\ \A m \in 1..Rows : InSeq(Row(c, m), wire) /\ n < m => InSeq(Row(c, n + 1), wire)
        /\ \A m \in 1..Rows : Before(Row(c, n), Row(c, m), wire) => n < m
ChangesUnderWay ==
    \A n \in 1..MaxChanges : InSeq(Change(n), wire) =>
        /\ n <= changes
        /\ \A m \in 1..MaxChanges : Before(Change(n), Change(m), wire) => n < m
WireInv == (\A c \in Calls : RowsUnderWay(c)) /\ ChangesUnderWay

\* What a step does to the tasks that send rows.
LEMMA SendingEffect ==
    ASSUME TypeOK, RouterStep
    PROVE  \/ Reconnected
           \/ sending' = sending
           \/ \E c \in Calls : /\ ServerStream(c) /\ sending[c] = -1
                               /\ sending' = [sending EXCEPT ![c] = 0]
           \/ \E c \in Calls : /\ ServerRow(c) /\ sending[c] \in 0..(Rows - 1)
                               /\ sending' = [sending EXCEPT ![c] = @ + 1]
           \/ \E c \in Calls : /\ ServerEnd(c)
                               /\ \E n \in {Rows + 1, Rows + 2} : sending' = [sending EXCEPT ![c] = n]
<1> USE DEF callers, queues, state, server, streams, history
<1>1. ASSUME NEW c \in Calls, CallReturn(c) \/ Listen(c) \/ ServerAnswer(c) \/ \E k \in Kinds : Call(c, k)
      PROVE  sending' = sending
    BY <1>1 DEF CallReturn, Listen, ServerAnswer, Call
<1>2. ASSUME NEW c \in Calls, ServerStream(c)
      PROVE  sending[c] = -1 /\ sending' = [sending EXCEPT ![c] = 0]
    BY <1>2 DEF ServerStream
<1>3. ASSUME NEW c \in Calls, ServerRow(c)
      PROVE  sending[c] \in 0..(Rows - 1) /\ sending' = [sending EXCEPT ![c] = @ + 1]
    BY <1>3 DEF ServerRow
<1>4. ASSUME NEW c \in Calls, ServerEnd(c)
      PROVE  \E n \in {Rows + 1, Rows + 2} : sending' = [sending EXCEPT ![c] = n]
    BY <1>4 DEF ServerEnd
<1>5. ASSUME NEW t \in {Nobody} \cup Given, Connect(t) PROVE sending' = sending
    BY <1>5 DEF Connect
<1>6. CASE RouterParam \/ RouterRoute \/ RouterResponse \/ RouterRow \/ RouterEnd \/ RouterChange
    BY <1>6 DEF RouterParam, RouterRoute, RouterResponse, RouterRow, RouterEnd, RouterChange
<1>7. CASE RouterDisconnected \/ ErrorTaken \/ RouterQuit \/ LinkBreak \/ ServerChange \/ UNCHANGED vars
    BY <1>7 DEF RouterDisconnected, ErrorTaken, RouterQuit, LinkBreak, ServerChange, vars
<1> QED  BY <1>1, <1>2, <1>3, <1>4, <1>5, <1>6, <1>7 DEF RouterStep, Server

\* What a step does to the rows of one stream that are under way.
LEMMA RowsEffect ==
    ASSUME TypeOK, RouterStep, NEW c \in Calls
    PROVE  \/ (\A n : ~InSeq(Row(c, n), wire')) /\ live' = {}
           \/ /\ \A n : InSeq(Row(c, n), wire') <=> InSeq(Row(c, n), wire)
              /\ \A n, m : Before(Row(c, n), Row(c, m), wire') <=> Before(Row(c, n), Row(c, m), wire)
              /\ \/ sending'[c] = sending[c]
                 \/ sending'[c] \in {Rows + 1, Rows + 2}
                 \/ sending[c] = -1 /\ sending'[c] = 0
           \/ /\ wire # <<>> /\ wire' = Tail(wire) /\ sending'[c] = sending[c]
              /\ \E h \in 1..Rows : RouterRow /\ Head(wire) = Row(c, h)
           \/ /\ ServerRow(c) /\ sending[c] \in 0..(Rows - 1) /\ sending'[c] = sending[c] + 1
              /\ wire' = Append(wire, Row(c, sending[c] + 1))
<1> DEFINE Same == /\ \A n : InSeq(Row(c, n), wire') <=> InSeq(Row(c, n), wire)
                   /\ \A n, m : Before(Row(c, n), Row(c, m), wire')
                                    <=> Before(Row(c, n), Row(c, m), wire)
           More == \/ sending'[c] = sending[c] \/ sending'[c] \in {Rows + 1, Rows + 2}
                   \/ sending[c] = -1 /\ sending'[c] = 0
<1>1. wire \in Seq(Wire) /\ sending \in [Calls -> -1..(Rows + 2)] /\ Rows \in Nat
    BY RouterAssumption DEF TypeOK
<1>2. ASSUME NEW e \in Wire, wire' = Append(wire, e), \A n : Row(c, n) # e PROVE Same
  <2>1. /\ \A x : InSeq(x, wire') <=> InSeq(x, wire) \/ x = e
        /\ \A x, y : Before(x, y, wire') <=> Before(x, y, wire) \/ (InSeq(x, wire) /\ y = e)
      BY <1>1, <1>2, InAppend
  <2> QED  BY <1>2, <2>1
<1>3. ASSUME wire # <<>>, wire' = Tail(wire), \A n : Row(c, n) # Head(wire) PROVE Same
  <2>1. /\ \A x : InSeq(x, wire) <=> x = Head(wire) \/ InSeq(x, wire')
        /\ \A x, y : Before(x, y, wire) <=> Before(x, y, wire') \/ (x = Head(wire) /\ InSeq(y, wire'))
      BY <1>1, <1>3, InTail
  <2> QED  BY <1>3, <2>1
<1>4. CASE wire' = <<>> /\ (Reconnected \/ RouterQuit)
    BY <1>4, NothingIn DEF Reconnected, StartOver, RouterQuit
<1>5. ASSUME NEW d \in Calls, ServerRow(d), wire' = Append(wire, Row(d, sending[d] + 1)),
             sending[d] + 1 \in 1..Rows
      PROVE  \/ Same /\ More
             \/ /\ d = c /\ sending[c] \in 0..(Rows - 1) /\ sending'[c] = sending[c] + 1
                /\ wire' = Append(wire, Row(c, sending[c] + 1))
  <2>1. sending[d] \in 0..(Rows - 1) /\ sending' = [sending EXCEPT ![d] = @ + 1]
      BY <1>5 DEF ServerRow
  <2>2. CASE d = c
      BY <1>1, <1>5, <2>1, <2>2
  <2>3. CASE d # c
    <3>1. Row(d, sending[d] + 1) \in Wire
        BY <1>5, MessageTypes
    <3>2. \A n : Row(c, n) # Row(d, sending[d] + 1)
        BY <2>3, MessagesDiffer
    <3> QED  BY <1>1, <1>2, <1>5, <2>1, <2>3, <3>1, <3>2
  <2> QED  BY <2>2, <2>3
<1>6. ASSUME NEW d \in Calls, ServerEnd(d) PROVE Same /\ More
  <2>1. wire' = wire \/ wire' = Append(wire, <<"end", d>>)
      BY <1>6 DEF ServerEnd
  <2>2. ASSUME wire' = Append(wire, <<"end", d>>) PROVE Same
    <3> DEFINE e == <<"end", d>>
    <3>1. e \in Wire /\ (\A n : Row(c, n) # e) /\ wire' = Append(wire, e)
        BY <2>2, MessageTypes, MessagesDiffer
    <3> HIDE DEF e
    <3> QED  BY <1>2, <3>1
  <2>3. PICK n \in {Rows + 1, Rows + 2} : sending' = [sending EXCEPT ![d] = n]
      BY <1>6 DEF ServerEnd
  <2>4. More
      BY <1>1, <2>3
  <2> QED  BY <2>1, <2>2, <2>4
<1>7. ASSUME NEW d \in Calls, ServerStream(d) PROVE Same /\ More
    BY <1>1, <1>7 DEF ServerStream
<1>8. ASSUME sending' = sending, wire' = wire PROVE Same /\ More
    BY <1>8
<1>9. CASE RouterResponse \/ RouterRow \/ RouterEnd \/ RouterChange
  <2>1. wire # <<>> /\ wire' = Tail(wire) /\ sending' = sending
      BY <1>9 DEF RouterResponse, RouterRow, RouterEnd, RouterChange, Received, server
  <2>2. Head(wire) \in Wire
      BY <1>1, <2>1, InTail
  <2>3. CASE ~\E n \in 1..Rows : Head(wire) = Row(c, n)
    <3>1. \A n : Row(c, n) = Head(wire) => n \in 1..Rows
        BY <2>2, MessageCases DEF Row
    <3> QED  BY <1>3, <2>1, <2>3, <3>1
  <2>4. CASE \E n \in 1..Rows : Head(wire) = Row(c, n)
    <3>1. Head(wire)[1] = "row"
        BY <2>4 DEF Row
    <3>2. RouterRow
        BY <1>9, <3>1 DEF RouterResponse, RouterEnd, RouterChange, Received
    <3> QED  BY <2>1, <2>4, <3>2
  <2> QED  BY <2>3, <2>4
<1>10. ASSUME NEW d \in Calls, NEW r \in {"ok", "error"}, ServerAnswer(d),
              wire' = Append(wire, Response(d, r))
       PROVE  Same /\ More
  <2>1. Response(d, r) \in Wire /\ \A n : Row(c, n) # Response(d, r)
      BY MessageTypes, MessagesDiffer
  <2>2. sending' = sending
      BY <1>10 DEF ServerAnswer
  <2> QED  BY <1>2, <1>10, <2>1, <2>2
<1>11. ASSUME ServerChange, changes + 1 \in 1..MaxChanges, wire' = Append(wire, Change(changes + 1))
       PROVE  Same /\ More
  <2>1. Change(changes + 1) \in Wire /\ \A n : Row(c, n) # Change(changes + 1)
      BY <1>11, MessageTypes, MessagesDiffer
  <2>2. sending' = sending
      BY <1>11 DEF ServerChange
  <2> QED  BY <1>2, <1>11, <2>1, <2>2
<1>12. Reconnected => wire' = <<>>
    BY DEF Reconnected, NewSocket
<1> HIDE DEF Same, More
<1>13. CASE wire' = wire
    BY <1>4, <1>5, <1>6, <1>7, <1>8, <1>12, <1>13, SendingEffect DEF Same, More, ServerRow
<1> QED
  <2>1. \/ wire' = <<>> /\ (Reconnected \/ RouterQuit)
        \/ wire' = wire \/ (Same /\ More)
        \/ RouterResponse \/ RouterRow \/ RouterEnd \/ RouterChange
        \/ \E d \in Calls : ServerRow(d) /\ wire' = Append(wire, Row(d, sending[d] + 1))
                                /\ sending[d] + 1 \in 1..Rows
    <3>1. \A d \in Calls, r \in {"ok", "error"} :
              ServerAnswer(d) /\ wire' = Append(wire, Response(d, r)) => Same /\ More
        BY <1>10
    <3>2. ServerChange /\ changes + 1 \in 1..MaxChanges /\ wire' = Append(wire, Change(changes + 1))
              => Same /\ More
        BY <1>11
    <3>3. \A d \in Calls : ServerEnd(d) => Same /\ More
        BY <1>6
    <3> QED  BY <3>1, <3>2, <3>3, WireEffect
  <2> QED  BY <2>1, <1>4, <1>5, <1>9, <1>13 DEF Same, More

\* Every step keeps the rows of a stream consecutive and in order.
LEMMA RowsStep ==
    ASSUME TypeOK, RouterStep, NEW c \in Calls, RowsUnderWay(c)
    PROVE  RowsUnderWay(c)'
<1>1. wire \in Seq(Wire) /\ Rows \in Nat /\ sending[c] \in -1..(Rows + 2)
    BY RouterAssumption DEF TypeOK
<1> USE DEF RowsUnderWay
<1>2. CASE \A n : ~InSeq(Row(c, n), wire')
    BY <1>2
<1>3. CASE /\ \A n : InSeq(Row(c, n), wire') <=> InSeq(Row(c, n), wire)
           /\ \A n, m : Before(Row(c, n), Row(c, m), wire') <=> Before(Row(c, n), Row(c, m), wire)
           /\ \/ sending'[c] = sending[c]
              \/ sending'[c] \in {Rows + 1, Rows + 2}
              \/ sending[c] = -1 /\ sending'[c] = 0
  <2>1. CASE sending'[c] = sending[c]
      BY <1>3, <2>1
  <2>2. CASE sending'[c] \in {Rows + 1, Rows + 2}
      BY <1>1, <1>3, <2>2
  <2>3. CASE sending[c] = -1
      BY <1>1, <1>2, <1>3, <2>3
  <2> QED  BY <1>3, <2>1, <2>2, <2>3
<1>4. ASSUME wire # <<>>, wire' = Tail(wire), sending'[c] = sending[c],
             NEW h \in 1..Rows, Head(wire) = Row(c, h)
      PROVE  RowsUnderWay(c)'
  <2>1. /\ \A n : InSeq(Row(c, n), wire) <=> n = h \/ InSeq(Row(c, n), wire')
        /\ \A n, m : Before(Row(c, n), Row(c, m), wire)
                         <=> Before(Row(c, n), Row(c, m), wire') \/ (n = h /\ InSeq(Row(c, m), wire'))
    <3>1. /\ \A x : InSeq(x, wire) <=> x = Row(c, h) \/ InSeq(x, wire')
          /\ \A x, y : Before(x, y, wire)
                           <=> Before(x, y, wire') \/ (x = Row(c, h) /\ InSeq(y, wire'))
        BY <1>1, <1>4, InTail
    <3> QED  BY <3>1, MessagesDiffer
  <2>2. \A n \in 1..Rows : InSeq(Row(c, n), wire') => h < n
      BY <2>1
  <2>3. ASSUME NEW n \in 1..Rows, InSeq(Row(c, n), wire'), sending'[c] <= Rows
        PROVE  n <= sending'[c] /\ InSeq(Row(c, sending'[c]), wire')
      BY <1>1, <1>4, <2>1, <2>2, <2>3
  <2>4. ASSUME NEW n \in 1..Rows, NEW m \in 1..Rows, InSeq(Row(c, n), wire'), InSeq(Row(c, m), wire'),
               n < m
        PROVE  InSeq(Row(c, n + 1), wire')
    <3>1. InSeq(Row(c, n + 1), wire)
        BY <2>1, <2>4
    <3>2. n + 1 # h
        BY <2>2, <2>4
    <3> QED  BY <2>1, <3>1, <3>2
  <2>5. ASSUME NEW n \in 1..Rows, NEW m \in 1..Rows, InSeq(Row(c, n), wire'),
               Before(Row(c, n), Row(c, m), wire')
        PROVE  n < m
      BY <2>1, <2>5
  <2> QED  BY <2>3, <2>4, <2>5
<1>5. ASSUME sending[c] \in 0..(Rows - 1), sending'[c] = sending[c] + 1,
             wire' = Append(wire, Row(c, sending[c] + 1))
      PROVE  RowsUnderWay(c)'
  <2> DEFINE s == sending[c]
  <2>1. s + 1 \in 1..Rows /\ Row(c, s + 1) \in Wire
      BY <1>1, <1>5, MessageTypes
  <2>2. /\ \A n : InSeq(Row(c, n), wire') <=> InSeq(Row(c, n), wire) \/ n = s + 1
        /\ \A n, m : Before(Row(c, n), Row(c, m), wire')
                         <=> Before(Row(c, n), Row(c, m), wire) \/ (InSeq(Row(c, n), wire) /\ m = s + 1)
    <3>1. /\ \A x : InSeq(x, wire') <=> InSeq(x, wire) \/ x = Row(c, s + 1)
          /\ \A x, y : Before(x, y, wire')
                           <=> Before(x, y, wire) \/ (InSeq(x, wire) /\ y = Row(c, s + 1))
        BY <1>1, <1>5, <2>1, InAppend
    <3> QED  BY <3>1, MessagesDiffer
  <2>3. s \in 0..(Rows - 1) /\ sending'[c] = s + 1
      BY <1>5
  <2>4. \A n \in 1..Rows : InSeq(Row(c, n), wire) => n <= s /\ InSeq(Row(c, s), wire) /\ s \in 1..Rows
      BY <1>1, <2>3
  <2> HIDE DEF s
  <2>5. \A n \in 1..Rows : InSeq(Row(c, n), wire') => n <= s + 1
      BY <1>1, <2>2, <2>3, <2>4
  <2>6. ASSUME NEW n \in 1..Rows, NEW m \in 1..Rows, InSeq(Row(c, n), wire'), InSeq(Row(c, m), wire'),
               n < m
        PROVE  InSeq(Row(c, n + 1), wire')
    <3>1. InSeq(Row(c, n), wire) /\ n <= s /\ InSeq(Row(c, s), wire) /\ s \in 1..Rows
        BY <1>1, <2>2, <2>3, <2>4, <2>5, <2>6
    <3>2. n < s => InSeq(Row(c, n + 1), wire)
        BY <3>1
    <3> QED  BY <1>1, <2>2, <2>3, <3>1, <3>2
  <2>7. ASSUME NEW n \in 1..Rows, NEW m \in 1..Rows, InSeq(Row(c, n), wire'),
               Before(Row(c, n), Row(c, m), wire')
        PROVE  n < m
    <3>1. CASE Before(Row(c, n), Row(c, m), wire)
      <4>1. InSeq(Row(c, n), wire)
          BY <3>1 DEF Before, InSeq
      <4> QED  BY <3>1, <4>1
    <3>2. CASE InSeq(Row(c, n), wire) /\ m = s + 1
        BY <2>3, <2>4, <3>2
    <3> QED  BY <2>2, <2>7, <3>1, <3>2
  <2> QED  BY <2>2, <2>3, <2>5, <2>6, <2>7
<1> QED  BY <1>2, <1>3, <1>4, <1>5, RowsEffect

\* What a step does to the changes under way.
LEMMA ChangesEffect ==
    ASSUME TypeOK, RouterStep
    PROVE  \/ (\A n : ~InSeq(Change(n), wire')) /\ changes' = changes
           \/ /\ \A n : InSeq(Change(n), wire') <=> InSeq(Change(n), wire)
              /\ \A n, m : Before(Change(n), Change(m), wire') <=> Before(Change(n), Change(m), wire)
              /\ changes' = changes
           \/ /\ wire # <<>> /\ wire' = Tail(wire) /\ changes' = changes
              /\ \E h \in 1..MaxChanges : RouterChange /\ Head(wire) = Change(h)
           \/ /\ ServerChange /\ changes + 1 \in 1..MaxChanges /\ changes' = changes + 1
              /\ wire' = Append(wire, Change(changes + 1))
<1> DEFINE Same == /\ \A n : InSeq(Change(n), wire') <=> InSeq(Change(n), wire)
                   /\ \A n, m : Before(Change(n), Change(m), wire')
                                    <=> Before(Change(n), Change(m), wire)
<1>1. wire \in Seq(Wire)
    BY DEF TypeOK
<1>2. ASSUME NEW e \in Wire, wire' = Append(wire, e), \A n : Change(n) # e PROVE Same
  <2>1. /\ \A x : InSeq(x, wire') <=> InSeq(x, wire) \/ x = e
        /\ \A x, y : Before(x, y, wire') <=> Before(x, y, wire) \/ (InSeq(x, wire) /\ y = e)
      BY <1>1, <1>2, InAppend
  <2> QED  BY <1>2, <2>1
<1>3. ASSUME wire # <<>>, wire' = Tail(wire), \A n : Change(n) # Head(wire) PROVE Same
  <2>1. /\ \A x : InSeq(x, wire) <=> x = Head(wire) \/ InSeq(x, wire')
        /\ \A x, y : Before(x, y, wire) <=> Before(x, y, wire') \/ (x = Head(wire) /\ InSeq(y, wire'))
      BY <1>1, <1>3, InTail
  <2> QED  BY <1>3, <2>1
<1>4. ServerChange => changes' = changes + 1
    BY DEF ServerChange
<1>5. ~ServerChange => changes' = changes
  <2> USE DEF callers, queues, state, server, streams, history
  <2>1. ASSUME NEW c \in Calls, CallReturn(c) \/ Listen(c) \/ \E k \in Kinds : Call(c, k)
        PROVE  changes' = changes
      BY <2>1 DEF CallReturn, Listen, Call
  <2>2. ASSUME NEW c \in Calls, Server(c) PROVE changes' = changes
      BY <2>2 DEF Server, ServerStream, ServerAnswer, ServerRow, ServerEnd
  <2>3. ASSUME NEW t \in {Nobody} \cup Given, Connect(t) PROVE changes' = changes
      BY <2>3 DEF Connect
  <2>4. CASE RouterParam \/ RouterRoute \/ RouterResponse \/ RouterRow \/ RouterEnd \/ RouterChange
      BY <2>4 DEF RouterParam, RouterRoute, RouterResponse, RouterRow, RouterEnd, RouterChange
  <2>5. CASE RouterDisconnected \/ Reconnected \/ ErrorTaken \/ RouterQuit \/ LinkBreak
             \/ UNCHANGED vars
      BY <2>5 DEF RouterDisconnected, Reconnected, NewSocket, ErrorTaken, RouterQuit, LinkBreak, vars
  <2> QED  BY <2>1, <2>2, <2>3, <2>4, <2>5 DEF RouterStep
<1>6. ServerChange => /\ changes + 1 \in 1..MaxChanges
                      /\ wire' = Append(wire, Change(changes + 1))
  <2> SUFFICES ASSUME ServerChange
               PROVE  changes + 1 \in 1..MaxChanges /\ wire' = Append(wire, Change(changes + 1))
      OBVIOUS
  <2>1. changes \in Nat /\ MaxChanges \in Nat /\ changes < MaxChanges
      BY RouterAssumption DEF TypeOK, ServerChange
  <2> QED  BY <2>1 DEF ServerChange, Change
<1>7. CASE wire' = <<>>
    BY <1>4, <1>5, <1>6, <1>7, NothingIn
<1>8. CASE RouterResponse \/ RouterRow \/ RouterEnd \/ RouterChange
  <2>1. wire # <<>> /\ wire' = Tail(wire) /\ changes' = changes
      BY <1>8 DEF RouterResponse, RouterRow, RouterEnd, RouterChange, Received, server
  <2>2. Head(wire) \in Wire
      BY <1>1, <2>1, InTail
  <2>3. CASE ~\E n \in 1..MaxChanges : Head(wire) = Change(n)
    <3>1. \A n : Change(n) = Head(wire) => n \in 1..MaxChanges
        BY <2>2, MessageCases DEF Change
    <3> QED  BY <1>3, <2>1, <2>3, <3>1
  <2>4. CASE \E n \in 1..MaxChanges : Head(wire) = Change(n)
    <3>1. Head(wire)[1] = "change"
        BY <2>4 DEF Change
    <3>2. RouterChange
        BY <1>8, <3>1 DEF RouterResponse, RouterEnd, RouterRow, Received
    <3> QED  BY <2>1, <2>4, <3>2
  <2> QED  BY <2>3, <2>4
<1>9. ASSUME NEW d \in Calls, NEW r \in {"ok", "error"}, wire' = Append(wire, Response(d, r)) PROVE Same
  <2>1. Response(d, r) \in Wire /\ \A n : Change(n) # Response(d, r)
      BY MessageTypes, MessagesDiffer
  <2> QED  BY <1>2, <1>9, <2>1
<1>10. ASSUME NEW d \in Calls, NEW n \in 1..Rows, wire' = Append(wire, Row(d, n)) PROVE Same
  <2>1. Row(d, n) \in Wire /\ \A m : Change(m) # Row(d, n)
      BY MessageTypes, MessagesDiffer
  <2> QED  BY <1>2, <1>10, <2>1
<1>11. ASSUME NEW d \in Calls, wire' = Append(wire, <<"end", d>>) PROVE Same
  <2> DEFINE e == <<"end", d>>
  <2>1. e \in Wire /\ (\A n : Change(n) # e) /\ wire' = Append(wire, e)
      BY <1>11, MessageTypes, MessagesDiffer
  <2> HIDE DEF e
  <2> QED  BY <1>2, <2>1
<1>12. wire' = wire => Same
    OBVIOUS
<1> HIDE DEF Same
<1>13. \/ wire' = <<>> \/ Same \/ ServerChange
       \/ RouterResponse \/ RouterRow \/ RouterEnd \/ RouterChange
    BY <1>9, <1>10, <1>11, <1>12, WireEffect
<1> QED  BY <1>4, <1>5, <1>6, <1>7, <1>8, <1>13 DEF Same

\* Every step keeps the changes in commit order.
LEMMA ChangesStep ==
    ASSUME TypeOK, RouterStep, ChangesUnderWay
    PROVE  ChangesUnderWay'
<1>1. wire \in Seq(Wire) /\ MaxChanges \in Nat /\ changes \in Nat
    BY RouterAssumption DEF TypeOK
<1> USE DEF ChangesUnderWay
<1>2. CASE (\A n : ~InSeq(Change(n), wire')) /\ changes' = changes
    BY <1>2
<1>3. CASE /\ \A n : InSeq(Change(n), wire') <=> InSeq(Change(n), wire)
           /\ \A n, m : Before(Change(n), Change(m), wire') <=> Before(Change(n), Change(m), wire)
           /\ changes' = changes
    BY <1>3
<1>4. CASE wire # <<>> /\ wire' = Tail(wire) /\ changes' = changes
  <2>1. /\ \A x : InSeq(x, wire') => InSeq(x, wire)
        /\ \A x, y : Before(x, y, wire') => Before(x, y, wire)
      BY <1>1, <1>4, InTail
  <2> QED  BY <1>4, <2>1
<1>5. CASE /\ changes + 1 \in 1..MaxChanges /\ changes' = changes + 1
           /\ wire' = Append(wire, Change(changes + 1))
  <2>1. /\ \A x : InSeq(x, wire') <=> InSeq(x, wire) \/ x = Change(changes + 1)
        /\ \A x, y : Before(x, y, wire')
                         <=> Before(x, y, wire) \/ (InSeq(x, wire) /\ y = Change(changes + 1))
      BY <1>1, <1>5, MessageTypes, InAppend
  <2>2. /\ \A n : InSeq(Change(n), wire') <=> InSeq(Change(n), wire) \/ n = changes + 1
        /\ \A n, m : Before(Change(n), Change(m), wire')
                         <=> Before(Change(n), Change(m), wire)
                                 \/ (InSeq(Change(n), wire) /\ m = changes + 1)
      BY <2>1, MessagesDiffer
  <2>3. \A n, m : Before(Change(n), Change(m), wire) => InSeq(Change(n), wire)
      BY DEF Before, InSeq
  <2> QED  BY <1>1, <1>5, <2>2, <2>3
<1> QED  BY <1>2, <1>3, <1>4, <1>5, ChangesEffect

\* What a step does to the streams that the router has senders for ...
LEMMA LiveEffect ==
    ASSUME TypeOK, ParamInv, RouterStep
    PROVE  /\ \/ live' = live \/ live' = {}
              \/ \E c \in Calls : RouterParam /\ Head(paramQ) = StreamParam(c) /\ live' = live \cup {c}
           /\ \/ channel' = channel \/ channel' = Nobody
              \/ \E c \in Calls : RouterParam /\ Head(paramQ) = ListenParam(c) /\ channel' = c
<1> USE DEF callers, queues, state, server, streams, history
<1>1. ASSUME NEW c \in Calls, CallReturn(c) \/ Listen(c) \/ \E k \in Kinds : Call(c, k)
      PROVE  UNCHANGED <<live, channel>>
    BY <1>1 DEF CallReturn, Listen, Call
<1>2. ASSUME NEW c \in Calls, Server(c) PROVE UNCHANGED <<live, channel>>
    BY <1>2 DEF Server, ServerStream, ServerAnswer, ServerRow, ServerEnd
<1>3. ASSUME NEW t \in {Nobody} \cup Given, Connect(t) PROVE UNCHANGED <<live, channel>>
    BY <1>3 DEF Connect
<1>4. CASE RouterParam
  <2> DEFINE q == Head(paramQ)
  <2>1. q \in Param /\ InSeq(q, paramQ)
    <3>1. paramQ \in Seq(Param) /\ paramQ # <<>>
        BY <1>4 DEF TypeOK, Param, RouterParam
    <3> QED  BY <3>1, InTail
  <2>2. \/ q[1] = "stream" /\ live' = live \cup {q[2]} /\ channel' = channel
        \/ q[1] = "listen" /\ channel' = q[2] /\ live' = live
        \/ UNCHANGED <<live, channel>>
      BY <1>4 DEF RouterParam
  <2>3. /\ q[1] = "stream" => q = StreamParam(q[2]) /\ q[2] \in Calls
        /\ q[1] = "listen" => q = ListenParam(q[2]) /\ q[2] \in Calls
      BY <2>1, MessageCases DEF ParamInv
  <2> HIDE DEF q
  <2> QED  BY <1>4, <2>2, <2>3 DEF q
<1>5. CASE RouterRoute \/ RouterResponse \/ RouterRow \/ RouterEnd \/ RouterChange
    BY <1>5 DEF RouterRoute, RouterResponse, RouterRow, RouterEnd, RouterChange
<1>6. CASE RouterDisconnected \/ LinkBreak \/ ServerChange \/ UNCHANGED vars
    BY <1>6 DEF RouterDisconnected, LinkBreak, ServerChange, vars
<1>7. CASE Reconnected \/ ErrorTaken \/ RouterQuit
    BY <1>7 DEF Reconnected, NewSocket, ErrorTaken, StartOver, RouterQuit
<1> QED  BY <1>1, <1>2, <1>3, <1>4, <1>5, <1>6, <1>7 DEF RouterStep

\* ... and to what they received.
LEMMA GotEffect ==
    ASSUME TypeOK, RouterStep
    PROVE  \/ got' = got
           \/ \E c \in live, h \in 1..Rows :
                  /\ RouterRow /\ wire # <<>> /\ wire' = Tail(wire) /\ Head(wire) = Row(c, h)
                  /\ got' = [got EXCEPT ![c] = Append(@, h)]
           \/ \E h \in 1..MaxChanges :
                  /\ RouterChange /\ wire # <<>> /\ wire' = Tail(wire) /\ Head(wire) = Change(h)
                  /\ channel # Nobody /\ got' = [got EXCEPT ![channel] = Append(@, h)]
<1> USE DEF callers, queues, state, server, streams, history
<1>0. wire \in Seq(Wire)
    BY DEF TypeOK
<1>1. ASSUME NEW c \in Calls, CallReturn(c) \/ Listen(c) \/ \E k \in Kinds : Call(c, k) PROVE got' = got
    BY <1>1 DEF CallReturn, Listen, Call
<1>2. ASSUME NEW c \in Calls, Server(c) PROVE got' = got
    BY <1>2 DEF Server, ServerStream, ServerAnswer, ServerRow, ServerEnd
<1>3. ASSUME NEW t \in {Nobody} \cup Given, Connect(t) PROVE got' = got
    BY <1>3 DEF Connect
<1>4. CASE RouterRow
  <2> DEFINE c == Head(wire)[2]
             h == Head(wire)[3]
  <2>1. wire # <<>> /\ wire' = Tail(wire) /\ Head(wire)[1] = "row"
      BY <1>4 DEF RouterRow, Received
  <2>2. h \in 1..Rows /\ Head(wire) = Row(c, h)
      BY <1>0, <2>1, InTail, MessageCases
  <2>3. got' = IF c \in live THEN [got EXCEPT ![c] = Append(@, h)] ELSE got
      BY <1>4 DEF RouterRow
  <2> HIDE DEF c, h
  <2> QED  BY <1>4, <2>1, <2>2, <2>3
<1>5. CASE RouterChange
  <2> DEFINE h == Head(wire)[2]
  <2>1. wire # <<>> /\ wire' = Tail(wire) /\ Head(wire)[1] = "change"
      BY <1>5 DEF RouterChange, Received
  <2>2. h \in 1..MaxChanges /\ Head(wire) = Change(h)
      BY <1>0, <2>1, InTail, MessageCases
  <2>3. got' = IF channel = Nobody THEN got ELSE [got EXCEPT ![channel] = Append(@, h)]
      BY <1>5 DEF RouterChange
  <2> HIDE DEF h
  <2> QED  BY <1>5, <2>1, <2>2, <2>3
<1>6. CASE RouterParam \/ RouterRoute \/ RouterResponse \/ RouterEnd \/ RouterDisconnected
    BY <1>6 DEF RouterParam, RouterRoute, RouterResponse, RouterEnd, RouterDisconnected
<1>7. CASE Reconnected \/ ErrorTaken \/ RouterQuit \/ LinkBreak \/ ServerChange \/ UNCHANGED vars
    BY <1>7 DEF Reconnected, NewSocket, ErrorTaken, RouterQuit, LinkBreak, ServerChange, vars
<1> QED  BY <1>1, <1>2, <1>3, <1>4, <1>5, <1>6, <1>7 DEF RouterStep

\* Only query streams get rows and only listeners get changes; the sender of a
\* query stream is registered once, and received nothing before.
YieldInv ==
    /\ \A c \in Calls : got[c] # <<>> => kind[c] \in {"stream", "listen"}
    /\ \A c \in live : kind[c] = "stream"
    /\ channel # Nobody => kind[channel] = "listen"
    /\ \A c \in Calls : InSeq(StreamParam(c), paramQ) =>
           c \notin live /\ got[c] = <<>> /\ ~Before(StreamParam(c), StreamParam(c), paramQ)

\* Every step keeps it.
LEMMA YieldStep ==
    ASSUME TypeOK, CallInv, ParamInv, YieldInv, RouterStep
    PROVE  YieldInv'
<1>1. /\ got \in [Calls -> Seq(Nat)] /\ live \subseteq Calls /\ channel \in Calls \cup {Nobody}
      /\ Nobody \notin Calls /\ Calls \subseteq Tokens
    BY RouterAssumption DEF TypeOK, Tokens
<1>2. paramQ \in Seq(Param)
    BY DEF TypeOK, Param
<1>3. \A c \in Calls : kind[c] # "none" => kind'[c] = kind[c]
    BY KindStep
<1>4. \A c \in Calls : /\ InSeq(StreamParam(c), paramQ) => kind[c] = "stream"
                       /\ InSeq(ListenParam(c), paramQ) => kind[c] = "listen"
    BY <1>1 DEF ParamInv
<1>5. RouterParam => paramQ # <<>> /\ paramQ' = Tail(paramQ) /\ InSeq(Head(paramQ), paramQ)
  <2>1. RouterParam => paramQ # <<>> /\ paramQ' = Tail(paramQ)
      BY DEF RouterParam
  <2> QED  BY <1>2, <2>1, InTail
<1> USE DEF YieldInv
<1>6. \A c \in live' : kind'[c] = "stream"
  <2>1. CASE live' = live \/ live' = {}
      BY <1>1, <1>3, <2>1
  <2>2. ASSUME NEW c \in Calls, RouterParam, Head(paramQ) = StreamParam(c), live' = live \cup {c}
        PROVE  \A d \in live' : kind'[d] = "stream"
      BY <1>1, <1>3, <1>4, <1>5, <2>2
  <2> QED  BY <2>1, <2>2, LiveEffect
<1>7. channel' # Nobody => kind'[channel'] = "listen"
  <2>1. CASE channel' = channel \/ channel' = Nobody
      BY <1>1, <1>3, <2>1
  <2>2. ASSUME NEW c \in Calls, RouterParam, Head(paramQ) = ListenParam(c), channel' = c
        PROVE  kind'[c] = "listen"
      BY <1>3, <1>4, <1>5, <2>2
  <2> QED  BY <2>1, <2>2, LiveEffect
<1>8. \A c \in Calls :
          got'[c] = got[c] \/ (c \in live /\ RouterRow) \/ (c = channel /\ RouterChange)
  <2> DEFINE Goal == \A c \in Calls :
          got'[c] = got[c] \/ (c \in live /\ RouterRow) \/ (c = channel /\ RouterChange)
  <2>1. ASSUME NEW d \in live, NEW h, RouterRow, got' = [got EXCEPT ![d] = Append(@, h)] PROVE Goal
      BY <1>1, <2>1
  <2>2. ASSUME NEW h, RouterChange, got' = [got EXCEPT ![channel] = Append(@, h)] PROVE Goal
      BY <1>1, <2>2
  <2>3. got' = got => Goal
      OBVIOUS
  <2> HIDE DEF Goal
  <2>4. Goal
      BY <2>1, <2>2, <2>3, GotEffect
  <2> QED  BY <2>4 DEF Goal
<1>9. \A c \in Calls : got'[c] # <<>> => kind'[c] \in {"stream", "listen"}
    BY <1>1, <1>3, <1>8
<1>10. ASSUME NEW c \in Calls, InSeq(StreamParam(c), paramQ')
       PROVE  c \notin live' /\ got'[c] = <<>> /\ ~Before(StreamParam(c), StreamParam(c), paramQ')
  <2> DEFINE x == StreamParam(c)
  <2>1. CASE RouterParam
    <3>1. /\ \A y : InSeq(y, paramQ) <=> y = Head(paramQ) \/ InSeq(y, paramQ')
          /\ \A y, z : Before(y, z, paramQ)
                           <=> Before(y, z, paramQ') \/ (y = Head(paramQ) /\ InSeq(z, paramQ'))
      <4>1. paramQ # <<>> /\ paramQ' = Tail(paramQ)
          BY <1>5, <2>1
      <4> QED  BY <1>2, <4>1, InTail
    <3>2. InSeq(x, paramQ) /\ x # Head(paramQ) /\ ~Before(x, x, paramQ')
        BY <1>10, <3>1
    <3>3. c \notin live'
        BY <1>10, <3>2, LiveEffect
    <3>4. got' = got
        BY <2>1 DEF RouterParam
    <3> QED  BY <3>2, <3>3, <3>4
  <2>2. CASE ~RouterParam
    <3>1. live' \subseteq live
        BY <2>2, LiveEffect
    <3>2. CASE paramQ' = paramQ
        BY <1>1, <1>4, <1>8, <1>10, <3>1, <3>2
    <3>3. ASSUME NEW u \in {Nobody} \cup Given, paramQ' = IF u = Nobody THEN <<>> ELSE <<TokenParam(u)>>
          PROVE  FALSE
      <4>1. \A y : InSeq(y, paramQ') => y = TokenParam(u)
          BY <3>3 DEF InSeq
      <4> QED  BY <1>10, <4>1, MessagesDiffer
    <3>4. ASSUME NEW e \in Param, paramQ' = Append(paramQ, e)
          PROVE  /\ InSeq(x, paramQ) \/ x = e
                 /\ Before(x, x, paramQ') <=> Before(x, x, paramQ) \/ (InSeq(x, paramQ) /\ x = e)
        BY <1>2, <1>10, <3>4, InAppend
    <3>5. \A d \in Calls :
              StreamParam(d) \in Param /\ ListenParam(d) \in Param /\ TokenParam(d) \in Param
        BY <1>1, MessageTypes
    <3>6. ASSUME NEW d \in Calls, paramQ' = Append(paramQ, ListenParam(d))
                                      \/ paramQ' = Append(paramQ, TokenParam(d))
          PROVE  c \notin live' /\ got'[c] = <<>> /\ ~Before(x, x, paramQ')
      <4>1. InSeq(x, paramQ) /\ ~Before(x, x, paramQ')
          BY <3>4, <3>5, <3>6, MessagesDiffer
      <4> QED  BY <1>1, <1>4, <1>8, <3>1, <4>1
    <3>7. ASSUME NEW d \in Calls, Call(d, "stream"), paramQ' = Append(paramQ, StreamParam(d))
          PROVE  c \notin live' /\ got'[c] = <<>> /\ ~Before(x, x, paramQ')
      <4>1. kind[d] = "none" /\ got' = got
          BY <3>7 DEF Call, streams, CallInv
      <4>2. d \notin live /\ got[d] = <<>> /\ ~InSeq(StreamParam(d), paramQ)
          BY <1>1, <1>4, <4>1
      <4>3. ~Before(StreamParam(d), StreamParam(d), paramQ)
          BY <4>2 DEF Before, InSeq
      <4>4. InSeq(x, paramQ) \/ c = d
          BY <3>4, <3>5, <3>7, MessagesDiffer
      <4>5. ~Before(x, x, paramQ')
          BY <3>4, <3>5, <3>7, <4>2, <4>3, <4>4, MessagesDiffer
      <4> QED  BY <3>1, <4>1, <4>2, <4>4, <4>5
    <3> QED  BY <2>2, <3>2, <3>3, <3>6, <3>7, ParamEffect
  <2> QED  BY <2>1, <2>2
<1> QED  BY <1>6, <1>7, <1>9, <1>10

\* RowsAreARun for what one call of kind k received.
InRun(k, s) ==
    \A i \in 2..Len(s) : IF k = "listen" THEN s[i] > s[i - 1] ELSE s[i] = s[i - 1] + 1
LastOf(s) == s[Len(s)]

\* One more.
LEMMA RunAppend ==
    ASSUME NEW k, NEW s \in Seq(Nat), NEW n \in Nat, InRun(k, s),
           s # <<>> => IF k = "listen" THEN n > LastOf(s) ELSE n = LastOf(s) + 1
    PROVE  InRun(k, Append(s, n)) /\ LastOf(Append(s, n)) = n
<1> DEFINE u == Append(s, n)
<1>1. /\ u \in Seq(Nat) /\ Len(s) \in Nat /\ Len(u) = Len(s) + 1 /\ u[Len(s) + 1] = n
      /\ \A i \in 1..Len(s) : u[i] = s[i]
    BY AppendProperties, LenProperties
<1>2. s = <<>> <=> Len(s) = 0
    BY EmptySeq
<1> HIDE DEF u
<1>3. ASSUME NEW i \in 2..Len(u)
      PROVE  IF k = "listen" THEN u[i] > u[i - 1] ELSE u[i] = u[i - 1] + 1
  <2>1. CASE i = Len(u)
    <3>1. i - 1 = Len(s) /\ Len(s) \in 1..Len(s) /\ s # <<>>
        BY <1>1, <1>2, <2>1
    <3>2. u[i] = n /\ u[i - 1] = LastOf(s)
        BY <1>1, <2>1, <3>1 DEF LastOf
    <3> QED  BY <3>1, <3>2
  <2>2. CASE i \in 2..Len(s)
    <3>1. i \in 1..Len(s) /\ i - 1 \in 1..Len(s)
        BY <1>1, <2>2
    <3>2. u[i] = s[i] /\ u[i - 1] = s[i - 1]
        BY <1>1, <3>1
    <3> QED  BY <2>2, <3>2 DEF InRun
  <2> QED  BY <1>1, <2>1, <2>2
<1>4. LastOf(u) = n
    BY <1>1 DEF LastOf
<1>5. InRun(k, u)
    BY <1>3 DEF InRun
<1> QED  BY <1>4, <1>5 DEF u

\* What a registered QueryStream received last is followed by what is under
\* way, or by what the server sends next; what a Listen received is older
\* than what is under way.
RowsFollow(c) ==
    c \in live /\ got[c] # <<>> =>
        /\ \A n \in 1..Rows : InSeq(Row(c, n), wire) =>
               LastOf(got[c]) < n /\ InSeq(Row(c, LastOf(got[c]) + 1), wire)
        /\ (\A n \in 1..Rows : ~InSeq(Row(c, n), wire)) /\ sending[c] <= Rows =>
               LastOf(got[c]) = sending[c]
ChangesFollow(c) ==
    kind[c] = "listen" /\ got[c] # <<>> =>
        /\ LastOf(got[c]) <= changes
        /\ \A n \in 1..MaxChanges : InSeq(Change(n), wire) => LastOf(got[c]) < n
FollowInv == \A c \in Calls : RowsFollow(c) /\ ChangesFollow(c) /\ InRun(kind[c], got[c])

\* What a QueryStream takes out of the socket continues its run.
LEMMA RowTaken ==
    ASSUME TypeOK, WireInv, YieldInv, FollowInv, NEW c \in live, NEW h \in 1..Rows,
           RouterRow, wire # <<>>, wire' = Tail(wire), Head(wire) = Row(c, h),
           got' = [got EXCEPT ![c] = Append(@, h)]
    PROVE  RowsFollow(c)' /\ ChangesFollow(c)' /\ InRun(kind'[c], got'[c])
<1>1. /\ wire \in Seq(Wire) /\ Rows \in Nat /\ c \in Calls /\ kind[c] = "stream"
      /\ got \in [Calls -> Seq(Nat)] /\ got[c] \in Seq(Nat) /\ h \in Nat
      /\ sending[c] \in -1..(Rows + 2)
    BY RouterAssumption DEF TypeOK, YieldInv
<1>2. kind' = kind /\ live' = live /\ sending' = sending /\ got'[c] = Append(got[c], h)
    BY <1>1 DEF RouterRow, callers, state, server
<1>3. /\ \A n : InSeq(Row(c, n), wire) <=> n = h \/ InSeq(Row(c, n), wire')
      /\ \A m : InSeq(Row(c, m), wire') => Before(Row(c, h), Row(c, m), wire)
  <2>1. /\ \A x : InSeq(x, wire) <=> x = Row(c, h) \/ InSeq(x, wire')
        /\ \A x, y : Before(x, y, wire) <=> Before(x, y, wire') \/ (x = Row(c, h) /\ InSeq(y, wire'))
      BY <1>1, InTail
  <2> QED  BY <2>1, MessagesDiffer
<1>4. RowsUnderWay(c)
    BY <1>1 DEF WireInv
<1>5. \A n \in 1..Rows : InSeq(Row(c, n), wire') => h < n
    BY <1>3, <1>4 DEF RowsUnderWay
<1>6. got[c] # <<>> => h = LastOf(got[c]) + 1
  <2> SUFFICES ASSUME got[c] # <<>> PROVE h = LastOf(got[c]) + 1
      OBVIOUS
  <2> DEFINE g == LastOf(got[c])
  <2>1. g \in Nat
    <3>1. Len(got[c]) \in 1..Len(got[c])
        BY <1>1, LenProperties, EmptySeq
    <3> QED  BY <1>1, <3>1, ElementOfSeq DEF LastOf
  <2>2. g < h /\ InSeq(Row(c, g + 1), wire)
      BY <1>1, <1>3 DEF FollowInv, RowsFollow
  <2> HIDE DEF g
  <2>3. g + 1 = h \/ (g + 1 \in 1..Rows /\ InSeq(Row(c, g + 1), wire'))
      BY <1>1, <1>3, <2>1, <2>2, SMTT(30)
  <2>4. g + 1 = h
      BY <1>1, <1>5, <2>1, <2>2, <2>3
  <2> QED  BY <2>4 DEF g
<1>7. InRun(kind'[c], got'[c]) /\ LastOf(got'[c]) = h
    BY <1>1, <1>2, <1>6, RunAppend DEF FollowInv
<1>8. ASSUME NEW n \in 1..Rows, InSeq(Row(c, n), wire')
      PROVE  h < n /\ InSeq(Row(c, h + 1), wire')
  <2>1. h < n
      BY <1>5, <1>8
  <2>2. InSeq(Row(c, h + 1), wire)
      BY <1>3, <1>4, <1>8, <2>1 DEF RowsUnderWay
  <2> QED  BY <1>3, <2>1, <2>2
<1>9. ASSUME \A n \in 1..Rows : ~InSeq(Row(c, n), wire'), sending[c] <= Rows
      PROVE  h = sending[c]
  <2>1. h <= sending[c] /\ InSeq(Row(c, sending[c]), wire)
      BY <1>3, <1>4, <1>9 DEF RowsUnderWay
  <2>2. sending[c] \in 1..Rows
      BY <1>1, <1>9, <2>1
  <2> QED  BY <1>3, <1>9, <2>1, <2>2
<1>10. RowsFollow(c)'
    BY <1>2, <1>7, <1>8, <1>9 DEF RowsFollow
<1> QED  BY <1>1, <1>2, <1>7, <1>10 DEF ChangesFollow

\* What a Listen takes out of the socket is newer than what it had.
LEMMA ChangeTaken ==
    ASSUME TypeOK, WireInv, YieldInv, FollowInv, channel # Nobody, NEW h \in 1..MaxChanges,
           RouterChange, wire # <<>>, wire' = Tail(wire), Head(wire) = Change(h),
           got' = [got EXCEPT ![channel] = Append(@, h)]
    PROVE  /\ RowsFollow(channel)' /\ ChangesFollow(channel)'
           /\ InRun(kind'[channel], got'[channel])
<1> DEFINE c == channel
<1>1. /\ wire \in Seq(Wire) /\ c \in Calls /\ kind[c] = "listen" /\ MaxChanges \in Nat
      /\ got \in [Calls -> Seq(Nat)] /\ got[c] \in Seq(Nat) /\ h \in Nat /\ changes \in Nat
    BY RouterAssumption DEF TypeOK, YieldInv
<1>2. /\ kind' = kind /\ live' = live /\ channel' = channel /\ changes' = changes
      /\ got'[c] = Append(got[c], h)
    BY <1>1 DEF RouterChange, callers, state, server
<1>3. /\ InSeq(Change(h), wire)
      /\ \A m : InSeq(Change(m), wire') => Before(Change(h), Change(m), wire)
  <2>1. /\ \A x : InSeq(x, wire) <=> x = Change(h) \/ InSeq(x, wire')
        /\ \A x, y : Before(x, y, wire) <=> Before(x, y, wire') \/ (x = Change(h) /\ InSeq(y, wire'))
      BY <1>1, InTail
  <2> QED  BY <2>1
<1>4. h <= changes /\ \A n \in 1..MaxChanges : InSeq(Change(n), wire') => h < n
    BY <1>3 DEF WireInv, ChangesUnderWay
<1>5. got[c] # <<>> => h > LastOf(got[c])
  <2> SUFFICES ASSUME got[c] # <<>> PROVE h > LastOf(got[c])
      OBVIOUS
  <2>1. LastOf(got[c]) < h
      BY <1>1, <1>3 DEF FollowInv, ChangesFollow
  <2>2. LastOf(got[c]) \in Nat
    <3>1. Len(got[c]) \in 1..Len(got[c])
        BY <1>1, LenProperties, EmptySeq
    <3> QED  BY <1>1, <3>1, ElementOfSeq DEF LastOf
  <2> QED  BY <1>1, <2>1, <2>2
<1>6. InRun(kind[c], got[c])
    BY <1>1 DEF FollowInv
<1> HIDE DEF c
<1>7. InRun(kind'[c], got'[c]) /\ LastOf(got'[c]) = h
    BY <1>1, <1>2, <1>5, <1>6, RunAppend
<1>8. c \notin live
    BY <1>1 DEF YieldInv
<1>9. c' = c
    BY <1>2 DEF c
<1>10. RowsFollow(c)'
    BY <1>2, <1>8, <1>9 DEF RowsFollow
<1>11. ChangesFollow(c)'
    BY <1>2, <1>4, <1>7, <1>9 DEF ChangesFollow
<1> QED  BY <1>7, <1>10, <1>11, <1>9 DEF c

\* Every step keeps it.
LEMMA FollowStep ==
    ASSUME TypeOK, CallInv, ParamInv, WireInv, YieldInv, YieldInv', FollowInv, RouterStep
    PROVE  FollowInv'
<1>1. /\ got \in [Calls -> Seq(Nat)] /\ live \subseteq Calls /\ channel \in Calls \cup {Nobody}
      /\ Nobody \notin Calls /\ wire \in Seq(Wire) /\ Rows \in Nat /\ MaxChanges \in Nat
      /\ changes \in Nat /\ sending \in [Calls -> -1..(Rows + 2)]
    BY RouterAssumption DEF TypeOK
<1>2. ASSUME NEW c \in Calls, got'[c] = got[c],
             ~\E h \in 1..Rows : RouterRow /\ c \in live /\ Head(wire) = Row(c, h)
      PROVE  RowsFollow(c)' /\ ChangesFollow(c)' /\ InRun(kind'[c], got'[c])
  <2> DEFINE g == LastOf(got[c])
  <2>1. CASE got[c] = <<>>
      BY <1>2, <2>1 DEF RowsFollow, ChangesFollow, InRun
  <2>2. CASE got[c] # <<>>
    <3>1. g \in Nat
      <4>1. got[c] \in Seq(Nat)
          BY <1>1
      <4>2. Len(got[c]) \in 1..Len(got[c])
          BY <2>2, <4>1, LenProperties, EmptySeq
      <4> QED  BY <4>1, <4>2, ElementOfSeq DEF LastOf
    <3>2. kind'[c] = kind[c]
        BY <2>2, KindStep DEF YieldInv
    <3>3. c \in live' => c \in live
      <4>1. RouterParam => InSeq(Head(paramQ), paramQ)
        <5>1. paramQ \in Seq(Param) /\ (RouterParam => paramQ # <<>>)
            BY DEF TypeOK, Param, RouterParam
        <5> QED  BY <5>1, InTail
      <4>2. ~InSeq(StreamParam(c), paramQ)
          BY <2>2 DEF YieldInv
      <4> QED  BY <4>1, <4>2, LiveEffect
    <3>4. RowsFollow(c)'
      <4> SUFFICES ASSUME c \in live'
                   PROVE  /\ \A n \in 1..Rows : InSeq(Row(c, n), wire') =>
                                 g < n /\ InSeq(Row(c, g + 1), wire')
                          /\ (\A n \in 1..Rows : ~InSeq(Row(c, n), wire')) /\ sending'[c] <= Rows =>
                                 g = sending'[c]
          BY <1>2 DEF RowsFollow
      <4>1. /\ \A n \in 1..Rows : InSeq(Row(c, n), wire) => g < n /\ InSeq(Row(c, g + 1), wire)
            /\ (\A n \in 1..Rows : ~InSeq(Row(c, n), wire)) /\ sending[c] <= Rows => g = sending[c]
          BY <2>2, <3>3 DEF FollowInv, RowsFollow
      <4>2. sending[c] \in -1..(Rows + 2)
          BY <1>1
      <4>3. \A n \in 1..Rows : InSeq(Row(c, n), wire) /\ sending[c] <= Rows =>
                n <= sending[c] /\ InSeq(Row(c, sending[c]), wire)
          BY DEF WireInv, RowsUnderWay
      <4> HIDE DEF g
      <4>4. CASE /\ \A n : InSeq(Row(c, n), wire') <=> InSeq(Row(c, n), wire)
                 /\ \/ sending'[c] = sending[c]
                    \/ sending'[c] \in {Rows + 1, Rows + 2}
                    \/ sending[c] = -1 /\ sending'[c] = 0
        <5>1. CASE sending'[c] = sending[c]
            BY <4>1, <4>4, <5>1
        <5>2. CASE sending'[c] \in {Rows + 1, Rows + 2}
            BY <1>1, <4>1, <4>4, <5>2
        <5>3. CASE sending[c] = -1
          <6>1. \A n \in 1..Rows : ~InSeq(Row(c, n), wire)
              BY <1>1, <4>3, <5>3
          <6> QED  BY <1>1, <3>1, <4>1, <5>3, <6>1
        <5> QED  BY <4>4, <5>1, <5>2, <5>3
      <4>5. CASE /\ sending[c] \in 0..(Rows - 1) /\ sending'[c] = sending[c] + 1
                 /\ wire' = Append(wire, Row(c, sending[c] + 1))
        <5>1. sending[c] + 1 \in 1..Rows /\ Row(c, sending[c] + 1) \in Wire
            BY <1>1, <4>5, MessageTypes
        <5>2. \A x : InSeq(x, wire') <=> InSeq(x, wire) \/ x = Row(c, sending[c] + 1)
            BY <1>1, <4>5, <5>1, InAppend
        <5>3. \A n : InSeq(Row(c, n), wire') <=> InSeq(Row(c, n), wire) \/ n = sending[c] + 1
            BY <5>2, MessagesDiffer
        <5>4. CASE \A n \in 1..Rows : ~InSeq(Row(c, n), wire)
          <6>1. g = sending[c]
              BY <1>1, <4>1, <4>5, <5>4
          <6> QED  BY <1>1, <3>1, <5>1, <5>3, <5>4, <6>1
        <5>5. ASSUME NEW n \in 1..Rows, InSeq(Row(c, n), wire)
              PROVE  \A m \in 1..Rows : InSeq(Row(c, m), wire') =>
                         g < m /\ InSeq(Row(c, g + 1), wire')
          <6>1. g < n /\ n <= sending[c] /\ InSeq(Row(c, g + 1), wire)
              BY <1>1, <4>1, <4>3, <4>5, <5>5
          <6> QED  BY <1>1, <3>1, <4>1, <4>5, <5>3, <6>1
        <5> QED  BY <5>1, <5>3, <5>4, <5>5
      <4> QED  BY <1>2, <3>3, <4>4, <4>5, RowsEffect
    <3>5. ChangesFollow(c)'
      <4> SUFFICES ASSUME kind[c] = "listen"
                   PROVE  g <= changes' /\ \A n \in 1..MaxChanges : InSeq(Change(n), wire') => g < n
          BY <1>2, <3>2 DEF ChangesFollow
      <4>1. g <= changes /\ \A n \in 1..MaxChanges : InSeq(Change(n), wire) => g < n
          BY <2>2 DEF FollowInv, ChangesFollow
      <4> HIDE DEF g
      <4>2. CASE changes' = changes /\ \A n : InSeq(Change(n), wire') => InSeq(Change(n), wire)
          BY <4>1, <4>2
      <4>3. CASE wire # <<>> /\ wire' = Tail(wire) /\ changes' = changes
        <5>1. \A x : InSeq(x, wire') => InSeq(x, wire)
            BY <1>1, <4>3, InTail
        <5> QED  BY <4>2, <4>3, <5>1
      <4>4. CASE /\ changes + 1 \in 1..MaxChanges /\ changes' = changes + 1
                 /\ wire' = Append(wire, Change(changes + 1))
        <5>1. \A x : InSeq(x, wire') <=> InSeq(x, wire) \/ x = Change(changes + 1)
            BY <1>1, <4>4, MessageTypes, InAppend
        <5>2. \A n : InSeq(Change(n), wire') => InSeq(Change(n), wire) \/ n = changes + 1
            BY <5>1, MessagesDiffer
        <5> QED  BY <1>1, <3>1, <4>1, <4>4, <5>2
      <4> QED  BY <4>2, <4>3, <4>4, ChangesEffect
    <3> QED  BY <1>2, <3>2, <3>4, <3>5 DEF FollowInv
  <2> QED  BY <2>1, <2>2
<1> DEFINE Goal(c) == RowsFollow(c)' /\ ChangesFollow(c)' /\ InRun(kind'[c], got'[c])
<1>3. CASE got' = got
  <2>1. ASSUME NEW c \in Calls, NEW h \in 1..Rows, RouterRow, c \in live, Head(wire) = Row(c, h)
        PROVE  FALSE
    <3>1. Head(wire)[2] = c /\ Head(wire)[3] = h
        BY <2>1 DEF Row
    <3>2. got' = [got EXCEPT ![c] = Append(@, h)]
        BY <2>1, <3>1 DEF RouterRow
    <3>3. got[c] \in Seq(Nat) /\ h \in Nat /\ got'[c] = Append(got[c], h)
        BY <1>1, <3>2
    <3>4. Len(got'[c]) = Len(got[c]) + 1 /\ Len(got[c]) \in Nat
        BY <3>3, AppendProperties, LenProperties
    <3> QED  BY <1>3, <3>4
  <2>2. ASSUME NEW c \in Calls PROVE Goal(c)
      BY <1>2, <1>3, <2>1
  <2> QED  BY <2>2 DEF FollowInv
<1>4. ASSUME NEW d \in live, NEW h \in 1..Rows, RouterRow, wire # <<>>, wire' = Tail(wire),
             Head(wire) = Row(d, h), got' = [got EXCEPT ![d] = Append(@, h)]
      PROVE  FollowInv'
  <2>1. Goal(d)
      BY <1>4, RowTaken
  <2>2. ASSUME NEW c \in Calls, c # d PROVE Goal(c)
    <3>1. got'[c] = got[c]
        BY <1>1, <1>4, <2>2
    <3>2. \A n \in 1..Rows : Head(wire) # Row(c, n)
        BY <1>4, <2>2, MessagesDiffer
    <3> QED  BY <1>2, <3>1, <3>2
  <2> HIDE DEF Goal
  <2>3. \A c \in Calls : Goal(c)
      BY <2>1, <2>2
  <2> QED  BY <2>3 DEF FollowInv, Goal
<1>5. ASSUME NEW h \in 1..MaxChanges, RouterChange, wire # <<>>, wire' = Tail(wire),
             Head(wire) = Change(h), channel # Nobody, got' = [got EXCEPT ![channel] = Append(@, h)]
      PROVE  FollowInv'
  <2>1. channel' = channel
      BY <1>5 DEF RouterChange, state
  <2>2. Goal(channel)
      BY <1>5, <2>1, ChangeTaken DEF RowsFollow, ChangesFollow
  <2>3. ASSUME NEW c \in Calls, c # channel PROVE Goal(c)
    <3>1. got'[c] = got[c]
        BY <1>1, <1>5, <2>3
    <3>2. \A n \in 1..Rows : Head(wire) # Row(c, n)
        BY <1>5, MessagesDiffer
    <3> QED  BY <1>2, <3>1, <3>2
  <2> HIDE DEF Goal
  <2>4. \A c \in Calls : Goal(c)
      BY <2>2, <2>3
  <2> QED  BY <2>4 DEF FollowInv, Goal
<1> QED  BY <1>3, <1>4, <1>5, GotEffect

\* A QueryStream yields a run of its rows, without a hole, and a Listen the
\* changes in commit order, whatever the socket loses.
THEOREM RowsAreARunCorrect == BothSpec => []RowsAreARun
<1> DEFINE Inv == WireInv /\ YieldInv /\ FollowInv
<1>1. BothInit => Inv
  <2> SUFFICES ASSUME BothInit PROVE Inv
      OBVIOUS
  <2>1. /\ wire = <<>> /\ paramQ = <<>> /\ live = {} /\ channel = Nobody
        /\ \A c \in Calls : got[c] = <<>>
      BY DEF BothInit, Init
  <2>2. \A x : ~InSeq(x, wire) /\ ~InSeq(x, paramQ)
      BY <2>1, NothingIn
  <2>3. WireInv
      BY <2>2 DEF WireInv, RowsUnderWay, ChangesUnderWay
  <2>4. YieldInv
      BY <2>1, <2>2 DEF YieldInv
  <2>5. FollowInv
      BY <2>1 DEF FollowInv, RowsFollow, ChangesFollow, InRun
  <2> QED  BY <2>3, <2>4, <2>5
<1>2. TypeOK /\ FlightInv /\ EventsInv /\ Inv /\ [BothNext]_both => Inv'
  <2> SUFFICES ASSUME TypeOK, FlightInv, Inv, RouterStep PROVE Inv'
      BY StepCases
  <2>1. WireInv'
      BY RowsStep, ChangesStep DEF WireInv
  <2>2. YieldInv'
      BY YieldStep DEF FlightInv
  <2>3. FollowInv'
      BY <2>2, FollowStep DEF FlightInv
  <2> QED  BY <2>1, <2>2, <2>3
<1>3. Inv => RowsAreARun
    BY DEF FollowInv, InRun, RowsAreARun
<1> QED  BY <1>1, <1>2, <1>3, FlightInvariant, PTL DEF BothSpec
=============================================================================

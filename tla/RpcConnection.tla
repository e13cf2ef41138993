--------------------------- MODULE RpcConnection ---------------------------
(***************************************************************************)
(* One WebSocket connection of the server (handler/rpc/connection.rs).     *)
(*                                                                         *)
(* Connection::serve registers the connection in WEBSOCKETS and spawns     *)
(* three tasks that share one bounded channel of outgoing messages:        *)
(*   - ping   puts a Ping in the channel at every tick;                    *)
(*   - read   receives frames, spawns one handle_message task per request  *)
(*            and, when it leaves its loop, waits for all of them;         *)
(*   - write  takes messages from the channel and sends them.              *)
(* The tasks of other modules (start_db_change_stream, the query stream    *)
(* notifier) push messages into the same channel; rpc_graceful_shutdown    *)
(* cancels the connection.                                                 *)
(*                                                                         *)
(* Two locks are shared.  Arc<RwLock<Connection>> is read for the canceller*)
(* (even to cancel), for the limiter, for the channel and by               *)
(* process_message, which may also write; the guard of handle_message      *)
(* lives while it waits for a permit, those of a pusher while it sends.    *)
(* WEBSOCKETS is read by the pushers and by the shutdown for as long as    *)
(* they are with a connection, this one or another, and written by serve.  *)
(* One action is what a task does between two awaits that can block.       *)
(***************************************************************************)
EXTENDS Integers, Sequences, FiniteSets

CONSTANTS
    Requests,   \* the requests the client may send
    Pushers,    \* the tasks that push messages from outside the connection
    Limit,      \* WEBSOCKET_MAX_CONCURRENT_REQUESTS: permits, and channel capacity
    MaxExtra    \* bound: messages other than responses

\* What the channel carries besides responses, each response standing for
\* the request it answers.
Control == {"ping", "close", "push"}
Message == Requests \cup Control
\* The tasks with one place each that wait for the lock of the connection.
Tasks == {"read", "write", "shutdown"}
Waiters == Tasks \cup Requests \cup Pushers
Modes == {"read", "write"}

ASSUME LimitAssumption == Limit \in Nat \ {0}
ASSUME BoundsAssumption == MaxExtra \in Nat
ASSUME RequestsAssumption == Requests \cap Control = {} /\ IsFiniteSet(Requests)
ASSUME NamesAssumption ==
    /\ Requests \cap Pushers = {}
    /\ Requests \cap Tasks = {} /\ Pushers \cap Tasks = {}

VARIABLES
    serve,       \* where Connection::serve is
    websockets,  \* "present" when the connection is in WEBSOCKETS, else "absent"
    elsewhere,   \* whether serve waits for tasks that are with other connections
    queue,       \* those in line for the lock of the connection: <<who, mode>>
    cancelled,   \* the canceller, with what cancelled it first
    chan,        \* the messages in the channel
    chanState,   \* whether the channel is open or closed
    ping,        \* where the ping task is
    read,        \* where the read task is
    write,       \* where the write task is
    hand,        \* the message write is sending, as a sequence of at most one
    handler,     \* where the handle_message task of each request is
    pusher,      \* where each pushing task is
    extra,       \* how many ticks, pushes and Close frames there were
    socket,      \* the TCP connection
    delivered,   \* the responses sent to the client, in order
    shutdown     \* where rpc_graceful_shutdown is

tasks == <<ping, read, write>>
outside == <<pusher, extra, socket, shutdown>>
vars == <<serve, websockets, elsewhere, queue, cancelled, chan, chanState, ping, read,
          write, hand, handler, pusher, extra, socket, delivered, shutdown>>

-----------------------------------------------------------------------------
IsCancelled == cancelled # "none"
\* CancellationToken::cancel: only the first call has an effect.
Cancel(cause) == cancelled' = IF IsCancelled THEN cancelled ELSE cause

HasRoom == Len(chan) < Limit
Send(m) == chanState = "open" /\ HasRoom /\ chan' = Append(chan, m)
\* Mutant: the permit of an answered request is never given back.
HoldingLeaked ==
    {r \in Requests : handler[r] \in {"wantsread", "reading", "wantswrite", "writing", "reply",
                                      "answered"}}

\* The handlers that hold a permit of the limiter.
Holding ==
    {r \in Requests : handler[r] \in {"wantsread", "reading", "wantswrite", "writing", "reply"}}
\* handle_message tasks that join_next can return: all of them are over.
Finished == {"unsent", "ignored", "answered", "panicked"}
HandlersFinished == \A r \in Requests : handler[r] \in Finished

-----------------------------------------------------------------------------
(* The lock of the connection: tokio::sync::RwLock, which serves its       *)
(* waiters strictly in line.  Who holds a guard follows from the places.   *)

ReadGuards ==
    {r \in Requests : handler[r] \in {"permit", "reading"}}
        \cup {p \in Pushers : pusher[p] \in {"second", "send"}}
WriteGuards == {r \in Requests : handler[r] = "writing"}
Compatible(mode) == WriteGuards = {} /\ (mode = "write" => ReadGuards = {})

InLine(h) == \E i \in 1..Len(queue) : queue[i][1] = h
\* Mutant: a reader overtakes the writers in line.
LockUnfair(h, mode) ==
    Compatible(mode) /\ queue' = SelectSeq(queue, LAMBDA e : e[1] # h)

\* h gets the lock: at once when nobody is in line, else as the first in line.
Lock(h, mode) ==
    /\ Compatible(mode)
    /\ \/ queue = <<>> /\ queue' = queue
       \/ queue # <<>> /\ Head(queue) = <<h, mode>> /\ queue' = Tail(queue)

\* Who is at an rpc.read().await or rpc.write().await.
Wants(h, mode) ==
    \/ mode = "read" /\
        \/ h = "read" /\ read = "cancel"
        \/ h = "write" /\ write = "failed"
        \/ h = "shutdown" /\ shutdown = "passing"
        \/ h \in Requests /\ handler[h] \in {"spawned", "wantsread"}
        \/ h \in Pushers /\ pusher[h] \in {"first", "second"}
    \/ mode = "write" /\ h \in Requests /\ handler[h] = "wantswrite"

\* The lock is not to be had: h gets in line.
WaitInLine(h, mode) ==
    /\ Wants(h, mode) /\ ~InLine(h)
    /\ queue # <<>> \/ ~Compatible(mode)
    /\ queue' = Append(queue, <<h, mode>>)
    /\ UNCHANGED <<serve, websockets, elsewhere, cancelled, chan, chanState, tasks, hand,
                   handler, delivered, outside>>

-----------------------------------------------------------------------------
(* WEBSOCKETS, a RwLock of the same kind.  A pusher, or the shutdown, that *)
(* is with this connection holds it for reading; so may those that are     *)
(* with another connection, for as long as that one keeps them.  The latter*)
(* matter when serve asks for the lock: once it is in line, no new reader  *)
(* gets in.                                                                *)

HeldHere == shutdown = "passing" \/ \E p \in Pushers : pusher[p] # "idle"
WebsocketsFree == ~HeldHere /\ elsewhere = "free"
ServeInLine == serve \in {"inserting", "removing"}

\* The tasks that were with other connections when serve asked are through.
ElsewhereRelease ==
    /\ elsewhere = "held"
    /\ elsewhere' = "free"
    /\ UNCHANGED <<serve, websockets, queue, cancelled, chan, chanState, tasks, hand, handler,
                   delivered, outside>>

Init ==
    /\ serve = "new" /\ websockets = "absent" /\ elsewhere = "free"
    /\ queue = <<>>
    /\ cancelled = "none"
    /\ chan = <<>> /\ chanState = "open"
    /\ ping = "unspawned" /\ read = "unspawned" /\ write = "unspawned"
    /\ hand = <<>>
    /\ handler = [r \in Requests |-> "unsent"]
    /\ pusher = [p \in Pushers |-> "idle"] /\ extra = 0
    /\ socket = "open" /\ delivered = <<>>
    /\ shutdown = "idle"

-----------------------------------------------------------------------------
(* Connection::serve *)

\* WEBSOCKETS.write() is not to be had: serve gets in line for it.
ServeWait ==
    /\ elsewhere' \in {"free", "held"} /\ (HeldHere \/ elsewhere' = "held")
    /\ \/ serve = "new" /\ serve' = "inserting"
       \/ serve = "closing" /\ serve' = "removing"
    /\ UNCHANGED <<websockets, queue, cancelled, chan, chanState, tasks, hand, handler,
                   delivered, outside>>

\* WEBSOCKETS.write().insert, then the three tasks are spawned.  Each clones
\* the canceller under a read guard before its loop, which is taken to be
\* there at once: no request has been received yet, so nobody writes.
ServeRegister ==
    /\ serve \in {"new", "inserting"} /\ WebsocketsFree
    /\ serve' = "joining" /\ websockets' = "present"
    /\ ping' = "loop" /\ read' = "loop" /\ write' = "loop"
    /\ UNCHANGED <<elsewhere, queue, cancelled, chan, chanState, hand, handler, delivered,
                   outside>>
\* Mutant: the channel is not closed.
ServeCloseMissing ==
    /\ serve = "joining" /\ tasks = <<"done", "done", "done">>
    /\ serve' = "closing"
    /\ UNCHANGED <<websockets, elsewhere, queue, cancelled, chan, chanState, tasks, hand,
                   handler, delivered, outside>>

\* All tasks have been joined: internal_sender.close().
ServeClose ==
    /\ serve = "joining" /\ tasks = <<"done", "done", "done">>
    /\ serve' = "closing" /\ chanState' = "closed"
    /\ UNCHANGED <<websockets, elsewhere, queue, cancelled, chan, tasks, hand, handler,
                   delivered, outside>>

\* WEBSOCKETS.write().remove waits for the holders of the read lock.
ServeRemove ==
    /\ serve \in {"closing", "removing"} /\ WebsocketsFree
    /\ serve' = "removed" /\ websockets' = "absent"
    /\ UNCHANGED <<elsewhere, queue, cancelled, chan, chanState, tasks, hand, handler,
                   delivered, outside>>

-----------------------------------------------------------------------------
(* Connection::ping.  A failed send, which would cancel the connection,    *)
(* needs a closed channel: TeardownOrder says that ping never meets one.   *)

PingTick ==
    /\ ping = "loop" /\ ~IsCancelled /\ extra < MaxExtra
    /\ ping' = "send" /\ extra' = extra + 1
    /\ UNCHANGED <<serve, websockets, elsewhere, queue, cancelled, chan, chanState, read, write,
                   hand, handler, pusher, socket, delivered, shutdown>>

\* Not in the select: a full channel delays ping even when it is cancelled.
PingSend ==
    /\ ping = "send" /\ Send("ping")
    /\ ping' = "loop"
    /\ UNCHANGED <<serve, websockets, elsewhere, queue, cancelled, chanState, read, write, hand,
                   handler, delivered, outside>>

PingStop ==
    /\ ping = "loop" /\ IsCancelled
    /\ ping' = "done"
    /\ UNCHANGED <<serve, websockets, elsewhere, queue, cancelled, chan, chanState, read, write,
                   hand, handler, delivered, outside>>

-----------------------------------------------------------------------------
(* Connection::write.  Its biased select looks at the canceller and then   *)
(* at the channel: a cancellation in between comes too late for it.  (In   *)
(* the selects of ping and read the second branch touches nothing another  *)
(* task sees, so that the two looks are one step.)                         *)

\* The canceller is not cancelled: the channel is looked at next.
WritePoll ==
    /\ write = "loop" /\ ~IsCancelled
    /\ write' = "poll"
    /\ UNCHANGED <<serve, websockets, elsewhere, queue, cancelled, chan, chanState, ping, read,
                   hand, handler, delivered, outside>>
\* Mutant: the message stays in the channel.
WriteTakePeek ==
    /\ write = "poll" /\ chan # <<>>
    /\ write' = "send" /\ hand' = <<Head(chan)>>
    /\ UNCHANGED <<serve, websockets, elsewhere, queue, cancelled, chan, chanState, ping, read,
                   handler, delivered, outside>>

WriteTake ==
    /\ write = "poll" /\ chan # <<>>
    /\ write' = "send" /\ hand' = <<Head(chan)>> /\ chan' = Tail(chan)
    /\ UNCHANGED <<serve, websockets, elsewhere, queue, cancelled, chanState, ping, read,
                   handler, delivered, outside>>

\* Nothing to send: the select sleeps until one of its branches wakes it.
WriteSleep ==
    /\ write = "poll" /\ chan = <<>>
    /\ write' = "loop"
    /\ UNCHANGED <<serve, websockets, elsewhere, queue, cancelled, chan, chanState, ping, read,
                   hand, handler, delivered, outside>>

WriteSent ==
    /\ write = "send" /\ socket = "open"
    /\ write' = "loop" /\ hand' = <<>>
    /\ delivered' = IF hand[1] \in Requests THEN delivered \o hand ELSE delivered
    /\ UNCHANGED <<serve, websockets, elsewhere, queue, cancelled, chan, chanState, ping, read,
                   handler, outside>>
\* Mutant: a failed send is reported and write goes on.
WriteFailedIgnored ==
    /\ write = "send" /\ socket = "broken"
    /\ write' = "loop" /\ hand' = <<>>
    /\ UNCHANGED <<serve, websockets, elsewhere, queue, cancelled, chan, chanState, ping, read,
                   handler, delivered, outside>>

WriteFailed ==
    /\ write = "send" /\ socket = "broken"
    /\ write' = "failed" /\ hand' = <<>>
    /\ UNCHANGED <<serve, websockets, elsewhere, queue, cancelled, chan, chanState, ping, read,
                   handler, delivered, outside>>

\* The canceller of the other tasks is reached through the lock.
WriteCancel ==
    /\ write = "failed" /\ Lock("write", "read")
    /\ write' = "done" /\ Cancel("task")
    /\ UNCHANGED <<serve, websockets, elsewhere, chan, chanState, ping, read, hand, handler,
                   delivered, outside>>

WriteStop ==
    /\ write = "loop" /\ IsCancelled
    /\ write' = "done"
    /\ UNCHANGED <<serve, websockets, elsewhere, queue, cancelled, chan, chanState, ping, read,
                   hand, handler, delivered, outside>>

-----------------------------------------------------------------------------
(* Connection::read *)

\* A Text or Binary frame: spawn handle_message.  Requests differ in nothing
\* but their name: the next one is any that has not been sent yet.
ReadRequest(r) ==
    /\ read = "loop" /\ ~IsCancelled /\ socket = "open"
    /\ handler[r] = "unsent" /\ r = CHOOSE q \in Requests : handler[q] = "unsent"
    /\ handler' = [handler EXCEPT ![r] = "spawned"]
    /\ UNCHANGED <<serve, websockets, elsewhere, queue, cancelled, chan, chanState, tasks, hand,
                   delivered, outside>>

ReadCloseFrame ==
    /\ read = "loop" /\ ~IsCancelled /\ socket = "open" /\ extra < MaxExtra
    /\ read' = "close" /\ extra' = extra + 1
    /\ UNCHANGED <<serve, websockets, elsewhere, queue, cancelled, chan, chanState, ping, write,
                   hand, handler, pusher, socket, delivered, shutdown>>

\* The answer to the Close frame waits for room in the channel.
ReadAnswerClose ==
    /\ read = "close" /\ Send("close")
    /\ read' = "cancel"
    /\ UNCHANGED <<serve, websockets, elsewhere, queue, cancelled, chanState, ping, write, hand,
                   handler, delivered, outside>>

ReadError ==
    /\ read = "loop" /\ ~IsCancelled /\ socket = "broken"
    /\ read' = "cancel"
    /\ UNCHANGED <<serve, websockets, elsewhere, queue, cancelled, chan, chanState, ping, write,
                   hand, handler, delivered, outside>>
\* Mutant: the panic of a handler is only logged.
ReadPanicIgnored ==
    /\ read = "loop" /\ ~IsCancelled
    /\ \E r \in Requests : handler[r] = "panicked"
    /\ UNCHANGED vars

\* join_next returned the panic of a handle_message task.
ReadPanic ==
    /\ read = "loop" /\ ~IsCancelled
    /\ \E r \in Requests : handler[r] = "panicked"
    /\ read' = "cancel"
    /\ UNCHANGED <<serve, websockets, elsewhere, queue, cancelled, chan, chanState, ping, write,
                   hand, handler, delivered, outside>>

\* The canceller is reached through the lock; meanwhile write may go on.
ReadCancel ==
    /\ read = "cancel" /\ Lock("read", "read")
    /\ read' = "drain" /\ Cancel("task")
    /\ UNCHANGED <<serve, websockets, elsewhere, chan, chanState, ping, write, hand, handler,
                   delivered, outside>>

ReadStop ==
    /\ read = "loop" /\ IsCancelled
    /\ read' = "drain"
    /\ UNCHANGED <<serve, websockets, elsewhere, queue, cancelled, chan, chanState, ping, write,
                   hand, handler, delivered, outside>>
\* Mutant: read does not wait for its handlers.
ReadDrainedEarly ==
    /\ read = "drain"
    /\ read' = "done"
    /\ UNCHANGED <<serve, websockets, elsewhere, queue, cancelled, chan, chanState, ping, write,
                   hand, handler, delivered, outside>>

\* After the loop: wait for every handle_message task.
ReadDrained ==
    /\ read = "drain" /\ HandlersFinished
    /\ read' = "done"
    /\ UNCHANGED <<serve, websockets, elsewhere, queue, cancelled, chan, chanState, ping, write,
                   hand, handler, delivered, outside>>

-----------------------------------------------------------------------------
(* Connection::handle_message *)

\* rpc.read().await.limiter: the guard lives until the permit is there.
HandlerGuard(r) ==
    /\ handler[r] = "spawned" /\ Lock(r, "read")
    /\ handler' = [handler EXCEPT ![r] = "permit"]
    /\ UNCHANGED <<serve, websockets, elsewhere, cancelled, chan, chanState, tasks, hand,
                   delivered, outside>>

\* A permit is there and the guard goes.  Then the message is parsed: a
\* Binary frame is unreachable!(), a text that is no Request is dropped
\* without an answer, and both give the permit back; process_message starts
\* by reading, or, for a commit or rollback, by writing.
HandlerPermit(r) ==
    /\ handler[r] = "permit" /\ Cardinality(Holding) < Limit
    /\ \E next \in {"wantsread", "wantswrite", "ignored", "panicked"} :
           handler' = [handler EXCEPT ![r] = next]
    /\ UNCHANGED <<serve, websockets, elsewhere, queue, cancelled, chan, chanState, tasks, hand,
                   delivered, outside>>

\* process_message, in detail the subject of RpcSession: it reads, and the
\* guard lives while the database is waited for (the reads of an operation
\* one after the other are taken for one); then login, authenticate and a
\* begin write.  Either may fail; there is an answer or a Failure.
HandlerRead(r) ==
    /\ handler[r] = "wantsread" /\ Lock(r, "read")
    /\ handler' = [handler EXCEPT ![r] = "reading"]
    /\ UNCHANGED <<serve, websockets, elsewhere, cancelled, chan, chanState, tasks, hand,
                   delivered, outside>>
HandlerWrite(r) ==
    /\ handler[r] = "wantswrite" /\ Lock(r, "write")
    /\ handler' = [handler EXCEPT ![r] = "writing"]
    /\ UNCHANGED <<serve, websockets, elsewhere, cancelled, chan, chanState, tasks, hand,
                   delivered, outside>>
HandlerUnlock(r) ==
    /\ \/ handler[r] = "reading" /\ handler' = [handler EXCEPT ![r] = "wantswrite"]
       \/ /\ handler[r] \in {"reading", "writing"}
          /\ handler' = [handler EXCEPT ![r] = "reply"]
    /\ UNCHANGED <<serve, websockets, elsewhere, queue, cancelled, chan, chanState, tasks, hand,
                   delivered, outside>>

\* Response::send while the permit is held, then drop(permit).
HandlerReply(r) ==
    /\ handler[r] = "reply" /\ Send(r)
    /\ handler' = [handler EXCEPT ![r] = "answered"]
    /\ UNCHANGED <<serve, websockets, elsewhere, queue, cancelled, chanState, tasks, hand,
                   delivered, outside>>

-----------------------------------------------------------------------------
(* start_db_change_stream and listen_query_stream_notifications: they find *)
(* the connection in WEBSOCKETS, whose lock they keep until they have sent.*)

PushStart(p) ==
    /\ pusher[p] = "idle" /\ websockets = "present" /\ ~ServeInLine /\ extra < MaxExtra
    /\ pusher' = [pusher EXCEPT ![p] = "first"] /\ extra' = extra + 1
    /\ UNCHANGED <<serve, websockets, elsewhere, queue, cancelled, chan, chanState, tasks, hand,
                   handler, socket, delivered, shutdown>>

\* The notifier sends under one guard.  The change stream looks at the
\* session under one, leaves a connection that is no receiver, and reads the
\* lock again to send.
PushFirst(p) ==
    /\ pusher[p] = "first" /\ Lock(p, "read")
    /\ \E next \in {"send", "second", "idle"} : pusher' = [pusher EXCEPT ![p] = next]
    /\ UNCHANGED <<serve, websockets, elsewhere, cancelled, chan, chanState, tasks, hand,
                   handler, extra, socket, delivered, shutdown>>

PushSecond(p) ==
    /\ pusher[p] = "second" /\ Lock(p, "read")
    /\ pusher' = [pusher EXCEPT ![p] = "send"]
    /\ UNCHANGED <<serve, websockets, elsewhere, cancelled, chan, chanState, tasks, hand,
                   handler, extra, socket, delivered, shutdown>>

PushSend(p) ==
    /\ pusher[p] = "send" /\ Send("push")
    /\ pusher' = [pusher EXCEPT ![p] = "idle"]
    /\ UNCHANGED <<serve, websockets, elsewhere, queue, cancelled, chanState, tasks, hand,
                   handler, extra, socket, delivered, shutdown>>

\* send on a closed channel fails at once: the message is dropped.
PushFail(p) ==
    /\ pusher[p] = "send" /\ chanState = "closed"
    /\ pusher' = [pusher EXCEPT ![p] = "idle"]
    /\ UNCHANGED <<serve, websockets, elsewhere, queue, cancelled, chan, chanState, tasks, hand,
                   handler, extra, socket, delivered, shutdown>>

-----------------------------------------------------------------------------
(* rpc_graceful_shutdown and rpc_shutdown *)

\* The pass over the connections that are in WEBSOCKETS at this moment; one
\* that does not find the connection there leaves it alone.
ShutdownStart ==
    /\ shutdown = "idle" /\ websockets = "present" /\ ~ServeInLine
    /\ shutdown' = "passing"
    /\ UNCHANGED <<serve, websockets, elsewhere, queue, cancelled, chan, chanState, tasks, hand,
                   handler, pusher, extra, socket, delivered>>

ShutdownCancel ==
    /\ shutdown = "passing" /\ Lock("shutdown", "read")
    /\ shutdown' = "waiting" /\ Cancel("shutdown")
    /\ UNCHANGED <<serve, websockets, elsewhere, chan, chanState, tasks, hand, handler, pusher,
                   extra, socket, delivered>>

ShutdownFinish ==
    /\ shutdown = "waiting" /\ websockets = "absent" /\ ~ServeInLine
    /\ shutdown' = "finished"
    /\ UNCHANGED <<serve, websockets, elsewhere, queue, cancelled, chan, chanState, tasks, hand,
                   handler, pusher, extra, socket, delivered>>

\* rpc_shutdown, on a second signal: the map is emptied if nobody at all holds
\* its lock, as the pass does; the tasks of the connection keep running.
ShutdownForced ==
    /\ shutdown = "waiting" /\ websockets = "present" /\ WebsocketsFree
    /\ shutdown' = "forced" /\ websockets' = "absent"
    /\ UNCHANGED <<serve, elsewhere, queue, cancelled, chan, chanState, tasks, hand, handler,
                   pusher, extra, socket, delivered>>

\* The TCP connection fails.
SocketBreak ==
    /\ socket = "open"
    /\ socket' = "broken"
    /\ UNCHANGED <<serve, websockets, elsewhere, queue, cancelled, chan, chanState, tasks, hand,
                   handler, pusher, extra, delivered, shutdown>>

-----------------------------------------------------------------------------
Serve == ServeWait \/ ServeRegister \/ ServeClose \/ ServeRemove
PingOn == PingSend \/ PingStop
Write ==
    \/ WritePoll \/ WriteTake \/ WriteSleep \/ WriteSent \/ WriteFailed
    \/ WriteCancel \/ WriteStop
\* The steps of read that do not wait for the client.
ReadOn ==
    \/ ReadAnswerClose \/ ReadError \/ ReadPanic \/ ReadCancel \/ ReadStop
    \/ ReadDrained
Handler(r) ==
    \/ HandlerGuard(r) \/ HandlerPermit(r) \/ HandlerRead(r) \/ HandlerWrite(r)
    \/ HandlerUnlock(r) \/ HandlerReply(r)
PushOn(p) == PushFirst(p) \/ PushSecond(p) \/ PushSend(p) \/ PushFail(p)
Shutdown == ShutdownStart \/ ShutdownCancel \/ ShutdownFinish \/ ShutdownForced

Next ==
    \/ Serve \/ PingOn \/ PingTick \/ Write \/ ReadOn \/ ReadCloseFrame
    \/ Shutdown \/ SocketBreak \/ ElsewhereRelease
    \/ \E r \in Requests : ReadRequest(r) \/ Handler(r)
    \/ \E p \in Pushers : PushStart(p) \/ PushOn(p)
    \/ \E h \in Waiters, mode \in Modes : WaitInLine(h, mode)

\* Every task the runtime can run is run eventually, and the database
\* answers; the client, the ticks, new pushes, the signals and the tasks that
\* are with other connections are under no obligation.
Fairness ==
    /\ WF_vars(Serve) /\ WF_vars(PingOn) /\ WF_vars(Write) /\ WF_vars(ReadOn)
    /\ WF_vars(ShutdownCancel)
    /\ \A r \in Requests : WF_vars(Handler(r))
    /\ \A p \in Pushers : WF_vars(PushOn(p))
    /\ WF_vars(\E h \in Waiters, mode \in Modes : WaitInLine(h, mode))

Spec == Init /\ [][Next]_vars
FairSpec == Spec /\ Fairness

-----------------------------------------------------------------------------
(* Properties *)

Stages == {"unsent", "spawned", "permit", "wantsread", "reading", "wantswrite", "writing",
           "reply", "ignored", "answered", "panicked"}

\* Types; the channel never holds more than its capacity.
TypeOK ==
    /\ serve \in {"new", "inserting", "joining", "closing", "removing", "removed"}
    /\ websockets \in {"present", "absent"} /\ elsewhere \in {"free", "held"}
    /\ queue \in Seq(Waiters \X Modes)
    /\ cancelled \in {"none", "shutdown", "task"}
    /\ chan \in Seq(Message) /\ Len(chan) <= Limit
    /\ chanState \in {"open", "closed"}
    /\ ping \in {"unspawned", "loop", "send", "done"}
    /\ read \in {"unspawned", "loop", "close", "cancel", "drain", "done"}
    /\ write \in {"unspawned", "loop", "poll", "send", "failed", "done"}
    /\ hand \in Seq(Message)
    /\ handler \in [Requests -> Stages]
    /\ pusher \in [Pushers -> {"idle", "first", "second", "send"}] /\ extra \in 0..MaxExtra
    /\ socket \in {"open", "broken"}
    /\ delivered \in Seq(Message)
    /\ shutdown \in {"idle", "passing", "waiting", "finished", "forced"}

\* serve has not spawned the tasks yet; it has joined them all.
Unserved == serve \in {"new", "inserting"}
Over == serve \in {"closing", "removing", "removed"}

\* The life of a connection, on which the other invariants rest: the tasks
\* run exactly while serve joins them, the channel is open until serve has
\* joined them, a connection is in WEBSOCKETS from then until serve removes
\* it, write holds a message exactly while it sends it, and read is over only
\* when all its handlers are.
Lifecycle ==
    /\ Unserved <=> ping = "unspawned"
    /\ Unserved <=> read = "unspawned"
    /\ Unserved <=> write = "unspawned"
    /\ Unserved => \A r \in Requests : handler[r] = "unsent"
    /\ Over => tasks = <<"done", "done", "done">>
    /\ chanState = "closed" <=> Over
    /\ serve \in {"joining", "closing", "removing"} /\ shutdown # "forced" =>
           websockets = "present"
    /\ Len(hand) = IF write = "send" THEN 1 ELSE 0
    /\ read = "done" => HandlersFinished

\* What the server has answered: on its way to the client, or there.
Pipeline == delivered \o hand \o chan

\* handle_message answers a request at most once, and only after it took a
\* permit and processed it: no two places of the way to the client hold a
\* response to the same request, and a response has a handler that is over.
ResponseAtMostOnce ==
    \A i \in 1..Len(Pipeline) : Pipeline[i] \in Requests =>
        /\ handler[Pipeline[i]] = "answered"
        /\ \A j \in 1..Len(Pipeline) : Pipeline[i] = Pipeline[j] => i = j

\* Until the connection is cancelled or write has failed, nothing is lost
\* between handle_message and the client: every answered request has its
\* response on the way or delivered.
NoLossBeforeCancel ==
    (~IsCancelled /\ write # "failed") => \A r \in Requests :
        handler[r] = "answered" => \E i \in 1..Len(Pipeline) : Pipeline[i] = r

\* Teardown goes in order.  serve closes the channel only after ping, read,
\* write and every handle_message task ended, so that the send of ping, of the
\* Close answer and of a response never fails (the error branches of
\* connection.rs:153-158 and :240 are for a closed channel); and a connection
\* leaves WEBSOCKETS only after that, unless a forced shutdown emptied the
\* map: len() = 0 in rpc_graceful_shutdown means that the registered
\* connections have ended.
TeardownOrder ==
    /\ chanState = "closed" =>
           ping = "done" /\ read = "done" /\ write = "done" /\ HandlersFinished
    /\ (~Unserved /\ websockets = "absent" /\ shutdown # "forced") => chanState = "closed"

\* shutdown.rs:8: "Close WebSocket connections, ensuring queued messages are
\* processed": when rpc_graceful_shutdown ends, a connection that it closed
\* and whose socket is in order has no message left in its channel.
QueuedMessagesProcessed ==
    (shutdown = "finished" /\ cancelled = "shutdown" /\ socket = "open")
        => chan = <<>>

-----------------------------------------------------------------------------
(* What may keep a connection for ever. *)

\* A handler that wants to write is first in line: nobody else gets the lock
\* before it.
WriterFirst ==
    /\ queue # <<>>
    /\ \E r \in Requests : Head(queue) = <<r, "write">> /\ handler[r] = "wantswrite"
\* The channel is full and write is over, or itself needs the lock to go on.
ChannelStuck ==
    Len(chan) = Limit /\ chanState = "open" /\ write \in {"failed", "done"}

\* The writer waits for a guard that is never given back:
\*   - of a handler that waits for a permit, while all permits are with
\*     handlers that need the lock or the channel (connection.rs:277-284);
\*   - the first guard of the change stream, which wants its second
\*     (mod.rs:50-53);
\*   - of a pusher that waits for room in a channel that stays full.
PermitDeadlock ==
    /\ \E r \in Requests : handler[r] = "permit"
    /\ Cardinality(Holding) = Limit
    /\ \A r \in Holding : \/ handler[r] \in {"wantsread", "wantswrite"}
                          \/ handler[r] = "reply" /\ ChannelStuck
ReentrantDeadlock == \E p \in Pushers : pusher[p] = "second"
ChannelDeadlock == ChannelStuck /\ \E p \in Pushers : pusher[p] = "send"
LockDeadlock == WriterFirst /\ (PermitDeadlock \/ ReentrantDeadlock \/ ChannelDeadlock)

\* Nothing gets a connection out of such a state: no time limit, no
\* cancellation, not the loss of its socket and no shutdown.
DeadlockIsForever == [][LockDeadlock => LockDeadlock']_vars

\* A request that was received is answered, dropped as garbage, or reported
\* as a panic, unless the connection is cancelled or ends in a deadlock of its
\* lock (which it never leaves, DeadlockIsForever); handlers that hold all the permits while they wait for room in the
\* channel do not block each other.
RequestCompletes ==
    ~HandlersFinished ~> (HandlersFinished \/ IsCancelled \/ LockDeadlock)

\* A panic in one handler (a Binary frame) ends the whole connection, unless
\* read waits for ever for the lock through which it reaches the canceller.
PanicCancels ==
    (\E r \in Requests : handler[r] = "panicked") ~> (IsCancelled \/ LockDeadlock)

\* A cancelled connection is removed, except when its lock is in a deadlock;
\* when the channel is full for good: write no longer empties it, and ping,
\* the Close answer or a handler waits for room that never comes; or when
\* WEBSOCKETS is never released by tasks that are with other connections.
\* Once serve has joined its tasks only the last can keep it: closing the
\* channel releases the pushers that wait for room while they hold the map.
CancelledIsRemoved ==
    IsCancelled ~> \/ serve = "removed"
                   \/ LockDeadlock
                   \/ [](Len(chan) = Limit /\ serve = "joining")
                   \/ [](elsewhere = "held")
=============================================================================

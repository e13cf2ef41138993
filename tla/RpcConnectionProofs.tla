------------------------ MODULE RpcConnectionProofs ------------------------
(* Theorems about RpcConnection, for any set of requests, any number of    *)
(* pushers and any limit.                                                  *)
EXTENDS RpcConnection, SequenceTheorems, TLAPS

\* What a step may do to the waiting list of the lock: leave it alone, serve
\* the first in line or queue somebody.
QueueMove ==
    \/ queue' = queue
    \/ queue # <<>> /\ queue' = Tail(queue)
    \/ \E e \in Waiters \X Modes : queue' = Append(queue, e)

\* The waiting list keeps its type.
LEMMA QueueKept ==
    ASSUME queue \in Seq(Waiters \X Modes), QueueMove
    PROVE  queue' \in Seq(Waiters \X Modes)
<1> DEFINE S == Waiters \X Modes
<1>1. queue \in Seq(S)
    OBVIOUS
<1>2. \/ queue' = queue
      \/ queue # <<>> /\ queue' = Tail(queue)
      \/ \E e \in S : queue' = Append(queue, e)
    BY DEF QueueMove
<1> SUFFICES queue' \in Seq(S)
    OBVIOUS
<1> HIDE DEF S
<1>3. CASE queue' = queue
    BY <1>1, <1>3
<1>4. CASE queue # <<>> /\ queue' = Tail(queue)
    BY <1>1, <1>4
<1>5. CASE \E e \in S : queue' = Append(queue, e)
  <2>1. PICK e \in S : queue' = Append(queue, e)
    BY <1>5
  <2> QED  BY <1>1, <2>1
<1> QED  BY <1>2, <1>3, <1>4, <1>5

\* Getting the lock and getting in line are such moves.
LEMMA LockMoves == \A h, mode : Lock(h, mode) => QueueMove
    BY DEF Lock, QueueMove
LEMMA WaitMoves ==
    ASSUME NEW h \in Waiters, NEW mode \in Modes, WaitInLine(h, mode) PROVE QueueMove
<1>1. <<h, mode>> \in Waiters \X Modes /\ queue' = Append(queue, <<h, mode>>)
    BY DEF WaitInLine
<1> QED  BY <1>1, Zenon DEF QueueMove

\* Every step keeps the types, and the channel within its capacity.
LEMMA TypeStep == TypeOK /\ [Next]_vars => TypeOK'
<1> SUFFICES ASSUME TypeOK, [Next]_vars PROVE TypeOK'
    OBVIOUS
<1>0. QueueMove => queue' \in Seq(Waiters \X Modes)
    BY QueueKept DEF TypeOK
<1> USE LimitAssumption, BoundsAssumption DEF TypeOK, tasks, outside, Stages
<1>1. CASE Serve
  <2>1. CASE ServeWait
    BY <2>1 DEF ServeWait
  <2>2. CASE ServeRegister
    BY <2>2 DEF ServeRegister
  <2>3. CASE ServeClose
    BY <2>3 DEF ServeClose
  <2>4. CASE ServeRemove
    BY <2>4 DEF ServeRemove
  <2> QED  BY <1>1, <2>1, <2>2, <2>3, <2>4 DEF Serve
<1>2. CASE PingOn \/ PingTick
  <2>1. CASE PingTick
    BY <2>1 DEF PingTick
  <2>2. CASE PingSend
    BY <2>2 DEF PingSend, Send, HasRoom, Message, Control
  <2>3. CASE PingStop
    BY <2>3 DEF PingStop
  <2> QED  BY <1>2, <2>1, <2>2, <2>3 DEF PingOn
<1>3. CASE Write
  <2>1. CASE WriteTake
    BY <2>1 DEF WriteTake
  <2>2. CASE WriteSent
    BY <2>2 DEF WriteSent
  <2>3. CASE WriteFailed
    BY <2>3 DEF WriteFailed
  <2>5. CASE WritePoll \/ WriteSleep \/ WriteStop
    BY <2>5 DEF WritePoll, WriteSleep, WriteStop
  <2>4. CASE WriteCancel
    <3>1. queue' \in Seq(Waiters \X Modes)
        BY <1>0, <2>4, LockMoves DEF WriteCancel
    <3> QED  BY <2>4, <3>1 DEF WriteCancel, Cancel
  <2> QED  BY <1>3, <2>1, <2>2, <2>3, <2>4, <2>5 DEF Write
<1>4. CASE ReadOn
  <2>1. CASE ReadAnswerClose
    BY <2>1 DEF Message, Control, ReadAnswerClose, Send, HasRoom
  <2>2. CASE ReadError \/ ReadPanic \/ ReadStop \/ ReadDrained
    BY <2>2 DEF ReadError, ReadPanic, ReadStop, ReadDrained
  <2>3. CASE ReadCancel
    <3>1. queue' \in Seq(Waiters \X Modes)
        BY <1>0, <2>3, LockMoves DEF ReadCancel
    <3> QED  BY <2>3, <3>1 DEF ReadCancel, Cancel
  <2> QED  BY <1>4, <2>1, <2>2, <2>3 DEF ReadOn
<1>5. CASE ReadCloseFrame
    BY <1>5 DEF ReadCloseFrame
<1>6. CASE Shutdown
  <2>1. CASE ShutdownCancel
    <3>1. queue' \in Seq(Waiters \X Modes)
        BY <1>0, <2>1, LockMoves DEF ShutdownCancel
    <3> QED  BY <2>1, <3>1 DEF ShutdownCancel, Cancel
  <2>2. CASE ShutdownStart \/ ShutdownFinish \/ ShutdownForced
    BY <2>2 DEF ShutdownStart, ShutdownFinish, ShutdownForced
  <2> QED  BY <1>6, <2>1, <2>2 DEF Shutdown
<1>7. CASE SocketBreak \/ ElsewhereRelease
    BY <1>7 DEF SocketBreak, ElsewhereRelease
<1>8. ASSUME NEW r \in Requests, ReadRequest(r) PROVE TypeOK'
    BY <1>8 DEF ReadRequest
<1>9. ASSUME NEW r \in Requests, Handler(r) PROVE TypeOK'
  <2>1. CASE HandlerGuard(r) \/ HandlerRead(r) \/ HandlerWrite(r)
    <3>1. queue' \in Seq(Waiters \X Modes)
        BY <1>0, <2>1, LockMoves DEF HandlerGuard, HandlerRead, HandlerWrite
    <3>2. handler' \in [Requests -> Stages]
        BY <2>1 DEF HandlerGuard, HandlerRead, HandlerWrite
    <3> QED  BY <2>1, <3>1, <3>2 DEF HandlerGuard, HandlerRead, HandlerWrite
  <2>2. CASE HandlerPermit(r) \/ HandlerUnlock(r)
    <3>1. handler' \in [Requests -> Stages]
        BY <2>2 DEF HandlerPermit, HandlerUnlock
    <3> QED  BY <2>2, <3>1 DEF HandlerPermit, HandlerUnlock
  <2>3. CASE HandlerReply(r)
    BY <2>3 DEF Message, HandlerReply, Send, HasRoom
  <2> QED  BY <1>9, <2>1, <2>2, <2>3 DEF Handler
<1>10. ASSUME NEW p \in Pushers, PushStart(p) \/ PushOn(p) PROVE TypeOK'
  <2>1. CASE PushStart(p)
    BY <2>1 DEF PushStart
  <2>2. CASE PushFirst(p) \/ PushSecond(p)
    <3>1. queue' \in Seq(Waiters \X Modes)
        BY <1>0, <2>2, LockMoves DEF PushFirst, PushSecond
    <3>2. pusher' \in [Pushers -> {"idle", "first", "second", "send"}]
        BY <2>2 DEF PushFirst, PushSecond
    <3> QED  BY <2>2, <3>1, <3>2 DEF PushFirst, PushSecond
  <2>3. CASE PushSend(p)
    BY <2>3 DEF Message, Control, PushSend, Send, HasRoom
  <2>4. CASE PushFail(p)
    BY <2>4 DEF PushFail
  <2> QED  BY <1>10, <2>1, <2>2, <2>3, <2>4 DEF PushOn
<1>11. ASSUME NEW h \in Waiters, NEW mode \in Modes, WaitInLine(h, mode) PROVE TypeOK'
  <2>1. queue' \in Seq(Waiters \X Modes)
    BY <1>0, <1>11, WaitMoves
  <2> QED  BY <1>11, <2>1 DEF WaitInLine
<1>12. CASE UNCHANGED vars
    BY <1>12 DEF vars
<1> QED
    BY <1>1, <1>2, <1>3, <1>4, <1>5, <1>6, <1>7, <1>8, <1>9, <1>10, <1>11, <1>12 DEF Next

\* The state of a connection is always of its types.
THEOREM TypeCorrect == Spec => []TypeOK
<1>1. Init => TypeOK
    BY LimitAssumption, BoundsAssumption DEF Init, TypeOK, Stages, Message
<1> QED  BY <1>1, TypeStep, PTL DEF Spec

\* The life of a connection is as Lifecycle says.
LEMMA LifecycleStep == TypeOK /\ Lifecycle /\ [Next]_vars => Lifecycle'
<1> SUFFICES ASSUME TypeOK, Lifecycle, [Next]_vars PROVE Lifecycle'
    OBVIOUS
<1> USE DEF Lifecycle, Unserved, Over, tasks, outside, HandlersFinished, Finished
<1>1. CASE Serve
  <2>1. CASE ServeWait
    BY <2>1 DEF ServeWait
  <2>2. CASE ServeRegister
    BY <2>2 DEF ServeRegister
  <2>3. CASE ServeClose
    BY <2>3 DEF ServeClose
  <2>4. CASE ServeRemove
    BY <2>4 DEF ServeRemove
  <2> QED  BY <1>1, <2>1, <2>2, <2>3, <2>4 DEF Serve
<1>2. CASE PingOn \/ PingTick
    BY <1>2 DEF PingOn, PingTick, PingSend, PingStop, Send
<1>3. CASE Write
  <2>1. CASE WriteTake
    BY <2>1 DEF WriteTake, TypeOK
  <2>2. CASE WriteSent
    BY <2>2 DEF WriteSent
  <2>3. CASE WriteFailed \/ WriteStop \/ WriteCancel
    BY <2>3 DEF WriteFailed, WriteStop, WriteCancel
  <2>4. CASE WritePoll \/ WriteSleep
    BY <2>4 DEF WritePoll, WriteSleep
  <2> QED  BY <1>3, <2>1, <2>2, <2>3, <2>4 DEF Write
<1>4. CASE ReadOn \/ ReadCloseFrame
    BY <1>4 DEF ReadOn, ReadAnswerClose, ReadCancel, ReadError, ReadPanic, ReadStop,
                ReadDrained, ReadCloseFrame
<1>5. CASE Shutdown
    BY <1>5 DEF Shutdown, ShutdownStart, ShutdownCancel, ShutdownFinish, ShutdownForced
<1>6. CASE SocketBreak \/ ElsewhereRelease
    BY <1>6 DEF SocketBreak, ElsewhereRelease
<1>7. ASSUME NEW r \in Requests, ReadRequest(r) PROVE Lifecycle'
    BY <1>7 DEF ReadRequest, TypeOK
<1>8. ASSUME NEW r \in Requests, Handler(r) PROVE Lifecycle'
  <2>1. CASE HandlerGuard(r) \/ HandlerRead(r) \/ HandlerWrite(r)
    BY <2>1 DEF HandlerGuard, HandlerRead, HandlerWrite, TypeOK
  <2>2. CASE HandlerPermit(r)
    BY <2>2 DEF HandlerPermit, TypeOK
  <2>3. CASE HandlerUnlock(r)
    BY <2>3 DEF HandlerUnlock, TypeOK
  <2>4. CASE HandlerReply(r)
    BY <2>4 DEF HandlerReply, TypeOK
  <2> QED  BY <1>8, <2>1, <2>2, <2>3, <2>4 DEF Handler
<1>9. ASSUME NEW p \in Pushers, PushStart(p) \/ PushOn(p) PROVE Lifecycle'
    BY <1>9 DEF PushOn, PushStart, PushFirst, PushSecond, PushSend, PushFail
<1>10. ASSUME NEW h \in Waiters, NEW mode \in Modes, WaitInLine(h, mode) PROVE Lifecycle'
    BY <1>10 DEF WaitInLine
<1>11. CASE UNCHANGED vars
    BY <1>11 DEF vars
<1> QED
    BY <1>1, <1>2, <1>3, <1>4, <1>5, <1>6, <1>7, <1>8, <1>9, <1>10, <1>11 DEF Next

\* The life of a connection, for every history of tasks, pushes and signals.
THEOREM LifecycleCorrect == Spec => []Lifecycle
<1>1. Init => Lifecycle
    BY DEF Init, Lifecycle, Unserved, Over, tasks
<1> QED  BY <1>1, TypeCorrect, LifecycleStep, PTL DEF Spec

\* serve closes the channel only when ping, read, write and all handlers are
\* over, so that none of them ever sends to a closed channel, and unless a
\* forced shutdown emptied WEBSOCKETS a connection leaves it only after that.
THEOREM TeardownOrderCorrect == Spec => []TeardownOrder
<1>1. TypeOK /\ Lifecycle => TeardownOrder
    BY DEF TypeOK, Lifecycle, Unserved, Over, TeardownOrder, tasks
<1> QED  BY <1>1, TypeCorrect, LifecycleCorrect, PTL

-----------------------------------------------------------------------------
(* The way of a response: handler, channel, write, client. *)

\* A message put in the channel is the last of the way.
LEMMA ConcatAppend ==
    ASSUME NEW S, NEW s \in Seq(S), NEW t \in Seq(S), NEW m \in S
    PROVE  s \o Append(t, m) = Append(s \o t, m)
<1>1. Append(t, m) = t \o <<m>> /\ Append(s \o t, m) = (s \o t) \o <<m>>
    BY AppendIsConcat, ConcatProperties
<1>2. <<m>> \in Seq(S)
    OBVIOUS
<1> QED  BY <1>1, <1>2, ConcatAssociative

\* Taking the first message of a channel and holding it changes nothing.
LEMMA HeadTailConcat ==
    ASSUME NEW S, NEW s \in Seq(S), NEW t \in Seq(S), t # <<>>
    PROVE  (s \o <<Head(t)>>) \o Tail(t) = s \o t
<1>1. Head(t) \in S /\ Tail(t) \in Seq(S)
    BY HeadTailProperties
<1>2. <<Head(t)>> \in Seq(S)
    BY <1>1
<1>3. <<Head(t)>> \o Tail(t) = t
  <2> DEFINE u == <<Head(t)>> \o Tail(t)
  <2>1. Len(<<Head(t)>>) = 1
    OBVIOUS
  <2>2. u \in Seq(S) /\ Len(u) = 1 + Len(Tail(t))
    BY <1>1, <1>2, <2>1, ConcatProperties
  <2>3. Len(Tail(t)) = Len(t) - 1 /\ Len(t) \in Nat \ {0}
    BY EmptySeq, HeadTailProperties
  <2>4. ASSUME NEW i \in 1..Len(u) PROVE u[i] = t[i]
    BY <1>1, <1>2, <2>1, <2>2, <2>3, ConcatProperties, HeadTailProperties
  <2> QED  BY <2>2, <2>3, <2>4, SeqEqual
<1> QED  BY <1>1, <1>2, <1>3, ConcatAssociative

\* What a step does to the way of the responses.
LEMMA PipelineType == TypeOK => Pipeline \in Seq(Message)
    BY ConcatProperties DEF TypeOK, Pipeline

LEMMA PipelineSend ==
    ASSUME TypeOK, NEW m \in Message, Send(m), UNCHANGED <<delivered, hand>>
    PROVE  Pipeline' = Append(Pipeline, m)
<1>1. delivered \o hand \in Seq(Message)
    BY ConcatProperties DEF TypeOK
<1> QED  BY <1>1, ConcatAppend DEF TypeOK, Pipeline, Send

LEMMA PipelineTake == TypeOK /\ Lifecycle /\ WriteTake => Pipeline' = Pipeline
<1> SUFFICES ASSUME TypeOK, Lifecycle, WriteTake PROVE Pipeline' = Pipeline
    OBVIOUS
<1>1. hand = <<>>
  <2>1. Len(hand) = 0 /\ hand \in Seq(Message)
    BY DEF TypeOK, Lifecycle, WriteTake
  <2> QED  BY <2>1, EmptySeq
<1>2. (delivered \o hand) \o chan = delivered \o chan
    BY <1>1, ConcatEmptySeq DEF TypeOK
<1>3. (delivered \o <<Head(chan)>>) \o Tail(chan) = delivered \o chan
    BY HeadTailConcat DEF TypeOK, WriteTake
<1>4. delivered' = delivered /\ hand' = <<Head(chan)>> /\ chan' = Tail(chan)
    BY DEF WriteTake
<1> QED  BY <1>2, <1>3, <1>4 DEF Pipeline

LEMMA PipelineSent ==
    ASSUME TypeOK, WriteSent, hand[1] \in Requests PROVE Pipeline' = Pipeline
<1>1. delivered \o hand \in Seq(Message)
    BY ConcatProperties DEF TypeOK
<1>2. (delivered \o hand) \o <<>> = delivered \o hand
    BY <1>1, ConcatEmptySeq
<1>3. delivered' = delivered \o hand /\ hand' = <<>> /\ chan' = chan
    BY DEF WriteSent
<1> QED  BY <1>2, <1>3 DEF Pipeline

\* The message in hand goes (writing failed, or it was no response): the
\* others keep their order.
LEMMA PipelineLost ==
    ASSUME TypeOK, delivered' = delivered, hand' = <<>>, chan' = chan
    PROVE  /\ Len(Pipeline') \in Nat /\ Len(Pipeline) \in Nat
           /\ \E f \in [1..Len(Pipeline') -> 1..Len(Pipeline)] :
               /\ \A i, j \in 1..Len(Pipeline') : f[i] = f[j] => i = j
               /\ \A i \in 1..Len(Pipeline') : Pipeline'[i] = Pipeline[f[i]]
<1> DEFINE f == [i \in 1..(Len(delivered) + Len(chan)) |->
                     IF i <= Len(delivered) THEN i ELSE i + Len(hand)]
<1>1. Pipeline' = (delivered \o <<>>) \o chan /\ delivered \o <<>> = delivered
    BY ConcatEmptySeq DEF TypeOK, Pipeline
<1>2. /\ delivered \o chan \in Seq(Message)
      /\ Len(delivered \o chan) = Len(delivered) + Len(chan)
      /\ \A i \in 1..(Len(delivered) + Len(chan)) :
            (delivered \o chan)[i] = IF i <= Len(delivered) THEN delivered[i]
                                     ELSE chan[i - Len(delivered)]
    BY ConcatProperties DEF TypeOK
<1>3. /\ delivered \o hand \in Seq(Message)
      /\ Len(delivered \o hand) = Len(delivered) + Len(hand)
      /\ \A i \in 1..(Len(delivered) + Len(hand)) :
            (delivered \o hand)[i] = IF i <= Len(delivered) THEN delivered[i]
                                     ELSE hand[i - Len(delivered)]
    BY ConcatProperties DEF TypeOK
<1>4. /\ Len(Pipeline) = Len(delivered) + Len(hand) + Len(chan)
      /\ \A i \in 1..(Len(delivered) + Len(hand) + Len(chan)) :
            Pipeline[i] = IF i <= Len(delivered) + Len(hand) THEN (delivered \o hand)[i]
                          ELSE chan[i - (Len(delivered) + Len(hand))]
    BY <1>3, ConcatProperties DEF TypeOK, Pipeline
<1>5. Len(delivered) \in Nat /\ Len(hand) \in Nat /\ Len(chan) \in Nat
    BY LenProperties DEF TypeOK
<1>6. Len(Pipeline') = Len(delivered) + Len(chan)
    BY <1>1, <1>2
<1>7. f \in [1..Len(Pipeline') -> 1..Len(Pipeline)]
    BY <1>4, <1>5, <1>6
<1>8. \A i, j \in 1..Len(Pipeline') : f[i] = f[j] => i = j
    BY <1>5, <1>6
<1>9. ASSUME NEW i \in 1..Len(Pipeline') PROVE Pipeline'[i] = Pipeline[f[i]]
  <2>1. CASE i <= Len(delivered)
    <3>1. f[i] = i /\ i \in 1..Len(delivered)
        BY <1>5, <1>6, <2>1
    <3>5. i <= Len(delivered) + Len(hand) /\ i \in 1..(Len(delivered) + Len(hand) + Len(chan))
        BY <1>5, <3>1
    <3>6. Pipeline[i] = (delivered \o hand)[i]
        BY <1>4, <3>5
    <3>7. (delivered \o hand)[i] = delivered[i]
        BY <1>3, <1>5, <3>1, <3>5
    <3>2. Pipeline[i] = delivered[i]
        BY <3>6, <3>7
    <3>3. Pipeline'[i] = delivered[i]
        BY <1>1, <1>2, <1>5, <1>6, <2>1
    <3> QED  BY <3>1, <3>2, <3>3
  <2>2. CASE i > Len(delivered)
    <3>1. f[i] = i + Len(hand) /\ f[i] > Len(delivered) + Len(hand)
        BY <1>5, <1>6, <2>2
    <3>2. f[i] - (Len(delivered) + Len(hand)) = i - Len(delivered)
        BY <1>5, <3>1
    <3>5. /\ f[i] \in 1..(Len(delivered) + Len(hand) + Len(chan))
          /\ ~(f[i] <= Len(delivered) + Len(hand))
        BY <1>4, <1>5, <1>7, <3>1
    <3>6. Pipeline[f[i]] = chan[f[i] - (Len(delivered) + Len(hand))]
        BY <1>4, <3>5
    <3>3. Pipeline[f[i]] = chan[i - Len(delivered)]
        BY <3>2, <3>6
    <3>4. Pipeline'[i] = chan[i - Len(delivered)]
        BY <1>1, <1>2, <1>5, <1>6, <2>2
    <3> QED  BY <3>3, <3>4
  <2> QED  BY <1>5, <1>6, <2>1, <2>2
<1> HIDE DEF f
<1> QED  BY <1>4, <1>5, <1>6, <1>7, <1>8, <1>9, SMTT(30)

\* A step that leaves the way of the responses as it is, and no answered
\* handler goes back to work.
LEMMA SameWayStep ==
    ASSUME ResponseAtMostOnce, Pipeline' = Pipeline,
           \A r \in Requests : handler[r] = "answered" => handler'[r] = "answered"
    PROVE  ResponseAtMostOnce'
    BY DEF ResponseAtMostOnce

\* A step that puts a control message in the channel.
LEMMA ControlWayStep ==
    ASSUME TypeOK, ResponseAtMostOnce, UNCHANGED handler,
           NEW m \in Control, Pipeline' = Append(Pipeline, m)
    PROVE  ResponseAtMostOnce'
<1>1. m \in Message /\ m \notin Requests
    BY RequestsAssumption DEF Message
<1>2. Pipeline \in Seq(Message)
    BY PipelineType
<1> QED
    BY <1>1, <1>2, AppendProperties DEF ResponseAtMostOnce

\* The steps that touch neither the way nor an answered handler, and answer
\* nobody; the others put a message in the channel or are steps of write.
Aside ==
    /\ UNCHANGED <<delivered, hand, chan>>
    /\ \A r \in Requests : handler'[r] = "answered" <=> handler[r] = "answered"
Puts(m) == Send(m) /\ UNCHANGED <<delivered, hand>>

\* Every step is one of these.
LEMMA WaySteps ==
    ASSUME TypeOK, [Next]_vars
    PROVE  \/ Aside
           \/ \E m \in Control : Puts(m) /\ UNCHANGED handler
           \/ \E r \in Requests : Puts(r) /\ HandlerReply(r)
           \/ WriteTake \/ WriteSent \/ WriteFailed
<1> USE DEF Aside, tasks, outside
<1>1. CASE Serve \/ SocketBreak \/ ElsewhereRelease \/ Shutdown \/ ReadCloseFrame \/ PingTick
    BY <1>1 DEF Serve, ServeWait, ServeRegister, ServeClose, ServeRemove, SocketBreak,
                ElsewhereRelease, Shutdown, ShutdownStart, ShutdownCancel, ShutdownFinish,
                ShutdownForced, ReadCloseFrame, PingTick
<1>2. CASE PingOn
    BY <1>2 DEF PingOn, PingSend, PingStop, Puts, Control
<1>3. CASE Write
    BY <1>3 DEF Write, WritePoll, WriteSleep, WriteStop, WriteCancel
<1>4. CASE ReadOn
    BY <1>4 DEF ReadOn, ReadAnswerClose, ReadError, ReadPanic, ReadCancel, ReadStop, ReadDrained,
                Puts, Control
<1>5. ASSUME NEW r \in Requests, ReadRequest(r) PROVE Aside
    BY <1>5 DEF ReadRequest, TypeOK
<1>6. ASSUME NEW r \in Requests, Handler(r), ~HandlerReply(r) PROVE Aside
  <2>1. CASE HandlerGuard(r) \/ HandlerRead(r) \/ HandlerWrite(r)
    BY <2>1 DEF HandlerGuard, HandlerRead, HandlerWrite, TypeOK
  <2>2. CASE HandlerPermit(r)
    BY <2>2 DEF HandlerPermit, TypeOK
  <2>3. CASE HandlerUnlock(r)
    BY <2>3 DEF HandlerUnlock, TypeOK
  <2> QED  BY <1>6, <2>1, <2>2, <2>3 DEF Handler
<1>7. ASSUME NEW r \in Requests, HandlerReply(r) PROVE Puts(r)
    BY <1>7 DEF HandlerReply, Puts
<1>8. ASSUME NEW p \in Pushers, PushStart(p) \/ PushOn(p)
      PROVE  Aside \/ (Puts("push") /\ UNCHANGED handler)
    BY <1>8 DEF PushStart, PushOn, PushFirst, PushSecond, PushSend, PushFail, Puts
<1>9. ASSUME NEW h \in Waiters, NEW mode \in Modes, WaitInLine(h, mode) PROVE Aside
    BY <1>9 DEF WaitInLine
<1>10. CASE UNCHANGED vars
    BY <1>10 DEF vars
<1>11. "push" \in Control
    BY DEF Control
<1> HIDE DEF Aside
<1> QED
    BY <1>1, <1>2, <1>3, <1>4, <1>5, <1>6, <1>7, <1>8, <1>9, <1>10, <1>11 DEF Next

\* The message in hand goes, and no handler moves.
LEMMA DropHandStep ==
    ASSUME TypeOK, ResponseAtMostOnce, UNCHANGED <<delivered, chan, handler>>, hand' = <<>>
    PROVE  ResponseAtMostOnce'
<1>1. PICK f \in [1..Len(Pipeline') -> 1..Len(Pipeline)] :
          /\ \A i, j \in 1..Len(Pipeline') : f[i] = f[j] => i = j
          /\ \A i \in 1..Len(Pipeline') : Pipeline'[i] = Pipeline[f[i]]
    BY PipelineLost
<1> SUFFICES ASSUME NEW i \in 1..Len(Pipeline'), Pipeline'[i] \in Requests
             PROVE  /\ handler[Pipeline'[i]] = "answered"
                    /\ \A j \in 1..Len(Pipeline') : Pipeline'[i] = Pipeline'[j] => i = j
    BY DEF ResponseAtMostOnce
<1>2. f[i] \in 1..Len(Pipeline) /\ Pipeline[f[i]] \in Requests
    BY <1>1
<1>3. handler[Pipeline[f[i]]] = "answered"
    BY <1>2 DEF ResponseAtMostOnce
<1>4. ASSUME NEW j \in 1..Len(Pipeline'), Pipeline'[i] = Pipeline'[j] PROVE i = j
  <2>1. f[j] \in 1..Len(Pipeline) /\ Pipeline[f[i]] = Pipeline[f[j]]
    BY <1>1, <1>4
  <2>2. f[i] = f[j]
    BY <1>2, <2>1 DEF ResponseAtMostOnce
  <2> QED  BY <1>1, <2>2
<1> QED  BY <1>1, <1>3, <1>4

\* Every step keeps each request answered at most once.
LEMMA ResponseStep ==
    TypeOK /\ Lifecycle /\ ResponseAtMostOnce /\ [Next]_vars => ResponseAtMostOnce'
<1> SUFFICES ASSUME TypeOK, Lifecycle, ResponseAtMostOnce, [Next]_vars
             PROVE ResponseAtMostOnce'
    OBVIOUS
<1>1. CASE Aside
    BY <1>1, SameWayStep DEF Aside, Pipeline
<1>2. ASSUME NEW m \in Control, Puts(m), UNCHANGED handler PROVE ResponseAtMostOnce'
  <2>1. Pipeline' = Append(Pipeline, m)
    BY <1>2, PipelineSend DEF Puts, Message
  <2> QED  BY <1>2, <2>1, ControlWayStep
<1>3. CASE WriteTake
    BY <1>3, PipelineTake, SameWayStep DEF WriteTake
<1>4. CASE WriteSent
  <2>1. CASE hand[1] \in Requests
    BY <1>4, <2>1, PipelineSent, SameWayStep DEF WriteSent
  <2>2. CASE hand[1] \notin Requests
    BY <1>4, <2>2, DropHandStep DEF WriteSent
  <2> QED  BY <2>1, <2>2
<1>5. CASE WriteFailed
    BY <1>5, DropHandStep DEF WriteFailed
<1>6. ASSUME NEW r \in Requests, Puts(r), HandlerReply(r) PROVE ResponseAtMostOnce'
  <2>1. Pipeline' = Append(Pipeline, r) /\ r \in Message /\ Pipeline \in Seq(Message)
      BY <1>6, PipelineSend, PipelineType DEF HandlerReply, Message
  <2>2. handler' = [handler EXCEPT ![r] = "answered"] /\ handler[r] = "reply"
      BY <1>6 DEF HandlerReply
  <2>3. /\ Len(Pipeline') = Len(Pipeline) + 1 /\ Len(Pipeline) \in Nat
        /\ \A i \in 1..Len(Pipeline) : Pipeline'[i] = Pipeline[i]
        /\ Pipeline'[Len(Pipeline) + 1] = r
      BY <2>1, AppendProperties, LenProperties
  <2>4. \A i \in 1..Len(Pipeline) : Pipeline[i] # r
      BY <2>2 DEF ResponseAtMostOnce
  <2>5. handler'[r] = "answered" /\ \A q \in Requests : handler[q] = "answered" => handler'[q] = "answered"
      BY <2>2 DEF TypeOK
  <2> SUFFICES ASSUME NEW i \in 1..Len(Pipeline'), Pipeline'[i] \in Requests
               PROVE  /\ handler'[Pipeline'[i]] = "answered"
                      /\ \A j \in 1..Len(Pipeline') : Pipeline'[i] = Pipeline'[j] => i = j
      BY DEF ResponseAtMostOnce
  <2>6. CASE i \in 1..Len(Pipeline)
    <3>1. Pipeline'[i] = Pipeline[i] /\ handler[Pipeline[i]] = "answered"
      BY <2>3, <2>6 DEF ResponseAtMostOnce
    <3>2. ASSUME NEW j \in 1..Len(Pipeline'), Pipeline'[i] = Pipeline'[j] PROVE i = j
      <4>1. j \in 1..Len(Pipeline)
          BY <2>3, <2>4, <2>6, <3>1, <3>2
      <4> QED  BY <2>3, <2>6, <3>1, <3>2, <4>1 DEF ResponseAtMostOnce
    <3> QED  BY <2>5, <3>1, <3>2
  <2>7. CASE i = Len(Pipeline) + 1
    BY <2>3, <2>4, <2>5, <2>7
  <2> QED  BY <2>3, <2>6, <2>7
<1> QED  BY <1>1, <1>2, <1>3, <1>4, <1>5, <1>6, WaySteps

\* A request has at most one response between handle_message and the client.
THEOREM ResponseAtMostOnceCorrect == Spec => []ResponseAtMostOnce
<1>1. Init => ResponseAtMostOnce
  <2> SUFFICES ASSUME Init PROVE ResponseAtMostOnce
    OBVIOUS
  <2>1. Pipeline = (<<>> \o <<>>) \o <<>>
    BY DEF Init, Pipeline
  <2>2. <<>> \in Seq(Message) /\ <<>> \o <<>> = <<>> /\ Len(<<>>) = 0
    BY EmptySeq, ConcatEmptySeq
  <2> QED  BY <2>1, <2>2 DEF ResponseAtMostOnce
<1> QED  BY <1>1, TypeCorrect, LifecycleCorrect, ResponseStep, PTL DEF Spec

Has(s, x) == \E i \in 1..Len(s) : s[i] = x

\* What is in two sequences put together.
LEMMA ConcatHas ==
    ASSUME NEW S, NEW s \in Seq(S), NEW t \in Seq(S), NEW x
    PROVE  Has(s \o t, x) <=> Has(s, x) \/ Has(t, x)
<1>1. /\ Len(s) \in Nat /\ Len(t) \in Nat /\ Len(s \o t) = Len(s) + Len(t)
      /\ \A i \in 1..(Len(s) + Len(t)) :
            (s \o t)[i] = IF i <= Len(s) THEN s[i] ELSE t[i - Len(s)]
    BY ConcatProperties, LenProperties
<1>2. ASSUME NEW i \in 1..Len(t), t[i] = x PROVE \E j \in 1..Len(s \o t) : (s \o t)[j] = x
  <2>1. Len(s) + i \in 1..Len(s \o t) /\ ~(Len(s) + i <= Len(s)) /\ (Len(s) + i) - Len(s) = i
    BY <1>1
  <2>2. (s \o t)[Len(s) + i] = t[i]
    BY <1>1, <2>1
  <2> QED  BY <1>2, <2>1, <2>2
<1>3. ASSUME NEW i \in 1..Len(s), s[i] = x PROVE \E j \in 1..Len(s \o t) : (s \o t)[j] = x
  <2>1. i \in 1..Len(s \o t) /\ (s \o t)[i] = s[i]
    BY <1>1
  <2> QED  BY <1>3, <2>1
<1>4. ASSUME NEW j \in 1..Len(s \o t), (s \o t)[j] = x
      PROVE  (\E i \in 1..Len(s) : s[i] = x) \/ (\E i \in 1..Len(t) : t[i] = x)
  <2>1. CASE j <= Len(s)
    BY <1>1, <1>4, <2>1
  <2>2. CASE ~(j <= Len(s))
    <3>1. j - Len(s) \in 1..Len(t) /\ t[j - Len(s)] = x
        BY <1>1, <1>4, <2>2
    <3> QED  BY <3>1
  <2> QED  BY <2>1, <2>2
<1> QED  BY <1>2, <1>3, <1>4 DEF Has

\* A response is on the way when the client, write or the channel has it.
LEMMA WayHas ==
    ASSUME NEW S, NEW d \in Seq(S), NEW h \in Seq(S), NEW c \in Seq(S), NEW x
    PROVE  Has((d \o h) \o c, x) <=> Has(d, x) \/ Has(h, x) \/ Has(c, x)
<1>1. d \o h \in Seq(S)
    BY ConcatProperties
<1>2. Has(d \o h, x) <=> Has(d, x) \/ Has(h, x)
    BY ConcatHas
<1>3. Has((d \o h) \o c, x) <=> Has(d \o h, x) \/ Has(c, x)
    BY <1>1, ConcatHas
<1> QED  BY <1>2, <1>3

\* Every step keeps the responses until the connection is cancelled.
LEMMA NoLossStep ==
    TypeOK /\ Lifecycle /\ NoLossBeforeCancel /\ [Next]_vars => NoLossBeforeCancel'
<1> SUFFICES ASSUME TypeOK, Lifecycle, NoLossBeforeCancel, [Next]_vars,
                    ~IsCancelled', write' # "failed",
                    NEW r \in Requests, handler'[r] = "answered"
             PROVE  Has(Pipeline', r)
    BY DEF NoLossBeforeCancel, Has
<1>1. ~IsCancelled /\ write # "failed"
  <2>1. cancelled' = cancelled \/ cancelled' # "none"
    BY DEF Next, vars, Serve, ServeWait, ServeRegister, ServeClose, ServeRemove, PingOn, PingTick,
        PingSend, PingStop, Write, WritePoll, WriteTake, WriteSleep, WriteSent, WriteFailed,
        WriteCancel, WriteStop, ReadOn, ReadAnswerClose, ReadError, ReadPanic, ReadCancel,
        ReadStop, ReadDrained, ReadCloseFrame, Shutdown, ShutdownStart, ShutdownCancel,
        ShutdownFinish, ShutdownForced, SocketBreak, ElsewhereRelease, ReadRequest, Handler,
        HandlerGuard, HandlerPermit, HandlerRead, HandlerWrite, HandlerUnlock, HandlerReply,
        PushStart, PushOn, PushFirst, PushSecond, PushSend, PushFail, WaitInLine, Cancel,
        IsCancelled
  <2>2. write = "failed" => write' = "failed" \/ WriteCancel
    BY DEF Next, vars, tasks, outside, Serve, ServeWait, ServeRegister, ServeClose, ServeRemove,
        PingOn, PingTick, PingSend, PingStop, Write, WritePoll, WriteTake, WriteSleep, WriteSent,
        WriteFailed, WriteStop, ReadOn, ReadAnswerClose, ReadError, ReadPanic, ReadCancel,
        ReadStop, ReadDrained, ReadCloseFrame, Shutdown, ShutdownStart, ShutdownCancel,
        ShutdownFinish, ShutdownForced, SocketBreak, ElsewhereRelease, ReadRequest, Handler,
        HandlerGuard, HandlerPermit, HandlerRead, HandlerWrite, HandlerUnlock, HandlerReply,
        PushStart, PushOn, PushFirst, PushSecond, PushSend, PushFail, WaitInLine,
        Lifecycle, Unserved
  <2>3. WriteCancel => IsCancelled'
    BY DEF WriteCancel, Cancel, IsCancelled
  <2> QED  BY <2>1, <2>2, <2>3 DEF IsCancelled
<1>2. ASSUME handler[r] = "answered" PROVE Has(Pipeline, r)
    BY <1>1, <1>2 DEF NoLossBeforeCancel, Has
<1>3. CASE Aside
    BY <1>2, <1>3 DEF Aside, Pipeline
<1>4. ASSUME NEW m \in Message, Puts(m), handler[r] = "answered" \/ r = m
      PROVE  Has(Pipeline', r)
  <2>1. Pipeline' = Append(Pipeline, m) /\ Pipeline \in Seq(Message)
    BY <1>4, PipelineSend, PipelineType DEF Puts
  <2>2. /\ Len(Pipeline) \in Nat /\ Len(Pipeline') = Len(Pipeline) + 1
        /\ \A i \in 1..Len(Pipeline) : Pipeline'[i] = Pipeline[i]
        /\ Pipeline'[Len(Pipeline) + 1] = m
    BY <2>1, AppendProperties, LenProperties
  <2>3. CASE r = m
    BY <2>2, <2>3 DEF Has
  <2>4. CASE handler[r] = "answered"
    <3>1. PICK i \in 1..Len(Pipeline) : Pipeline[i] = r
        BY <1>2, <2>4 DEF Has
    <3> QED  BY <2>2, <3>1 DEF Has
  <2> QED  BY <1>4, <2>3, <2>4
<1>5. ASSUME NEW m \in Control, Puts(m), UNCHANGED handler PROVE Has(Pipeline', r)
    BY <1>4, <1>5 DEF Message
<1>6. ASSUME NEW q \in Requests, Puts(q), HandlerReply(q) PROVE Has(Pipeline', r)
  <2>1. handler[r] = "answered" \/ r = q
    BY <1>6 DEF HandlerReply, TypeOK
  <2> QED  BY <1>4, <1>6, <2>1 DEF Message
<1>7. CASE WriteTake
    BY <1>2, <1>7, PipelineTake DEF WriteTake
<1>8. CASE WriteSent
  <2>1. handler[r] = "answered"
    BY <1>8 DEF WriteSent
  <2>2. CASE hand[1] \in Requests
    BY <1>2, <1>8, <2>1, <2>2, PipelineSent
  <2>3. CASE hand[1] \notin Requests
    <3>1. Len(hand) = 1 /\ delivered' = delivered /\ chan' = chan /\ hand' = <<>>
        BY <1>8, <2>3 DEF WriteSent, Lifecycle
    <3>2. ~Has(hand, r)
        BY <2>3, <3>1 DEF Has
    <3>3. /\ delivered \in Seq(Message) /\ hand \in Seq(Message) /\ chan \in Seq(Message)
          /\ <<>> \in Seq(Message)
        BY DEF TypeOK
    <3>4. Has((delivered \o hand) \o chan, r) <=>
              Has(delivered, r) \/ Has(hand, r) \/ Has(chan, r)
        BY <3>3, WayHas
    <3>5. Has((delivered \o <<>>) \o chan, r) <=>
              Has(delivered, r) \/ Has(<<>>, r) \/ Has(chan, r)
        BY <3>3, WayHas
    <3>6. Pipeline' = (delivered \o <<>>) \o chan /\ Has((delivered \o hand) \o chan, r)
        BY <1>2, <2>1, <3>1 DEF Pipeline
    <3> QED  BY <3>2, <3>4, <3>5, <3>6
  <2> QED  BY <2>2, <2>3
<1>9. ~WriteFailed
    BY DEF WriteFailed
<1> QED  BY <1>3, <1>5, <1>6, <1>7, <1>8, <1>9, WaySteps

\* Until it is cancelled or write fails, a connection loses no response: every answered
\* request has its response on the way to the client.
THEOREM NoLossBeforeCancelCorrect == Spec => []NoLossBeforeCancel
<1>1. Init => NoLossBeforeCancel
    BY DEF Init, NoLossBeforeCancel
<1> QED  BY <1>1, TypeCorrect, LifecycleCorrect, NoLossStep, PTL DEF Spec

-----------------------------------------------------------------------------
(* A deadlock of the connection's lock lasts. *)

\* In a deadlock nobody gets the lock, the channel is open and read is not
\* over: the writer at the head of the line waits, for a guard that is there.
LEMMA DeadlockHolds ==
    ASSUME TypeOK, Lifecycle, LockDeadlock
    PROVE  /\ \A h, mode : ~Lock(h, mode)
           /\ chanState = "open" /\ ~Unserved /\ read # "done"
<1>1. PICK w \in Requests : Head(queue) = <<w, "write">> /\ handler[w] = "wantswrite"
    BY DEF LockDeadlock, WriterFirst
<1>2. ReadGuards # {}
  <2>1. CASE PermitDeadlock
    BY <2>1 DEF PermitDeadlock, ReadGuards
  <2>2. CASE ReentrantDeadlock \/ ChannelDeadlock
    BY <2>2 DEF ReentrantDeadlock, ChannelDeadlock, ReadGuards
  <2> QED  BY <2>1, <2>2 DEF LockDeadlock
<1>3. ASSUME NEW h, NEW mode, Lock(h, mode) PROVE FALSE
  <2>1. Head(queue) = <<h, mode>> /\ (mode = "write" => ReadGuards = {})
    BY <1>3 DEF Lock, Compatible, LockDeadlock, WriterFirst
  <2> QED  BY <1>1, <1>2, <2>1
<1>4. ~HandlersFinished
    BY <1>1 DEF HandlersFinished, Finished
<1>5. read # "done" /\ ~Unserved
    BY <1>1, <1>4 DEF Lifecycle
<1>6. chanState = "open"
    BY <1>5 DEF Lifecycle, tasks, TypeOK
<1> QED  BY <1>3, <1>5, <1>6

\* What a step may still do to the handlers, the pushers, the line and the
\* channel.
HandlerMoves ==
    \A r \in Requests :
        \/ handler'[r] = handler[r]
        \/ handler[r] = "unsent" /\ handler'[r] = "spawned"
        \/ handler[r] = "permit" /\ Cardinality(Holding) < Limit
        \/ handler[r] \in {"reading", "writing"}
        \/ handler[r] = "reply" /\ ~ChannelStuck
PusherMoves ==
    \A p \in Pushers :
        \/ pusher'[p] = pusher[p]
        \/ pusher[p] = "idle"
        \/ pusher[p] = "send" /\ ~ChannelStuck
LineMoves == queue' = queue \/ \E e \in Waiters \X Modes : queue' = Append(queue, e)
DeadMoves ==
    HandlerMoves /\ PusherMoves /\ LineMoves /\ (ChannelStuck => ChannelStuck')

LEMMA DeadlockSteps ==
    ASSUME TypeOK, Lifecycle, LockDeadlock, [Next]_vars PROVE DeadMoves
<1>0. /\ \A h, mode : ~Lock(h, mode)
      /\ chanState = "open" /\ ~Unserved /\ read # "done"
    BY DeadlockHolds
<1> USE LimitAssumption
        DEF DeadMoves, HandlerMoves, PusherMoves, LineMoves, ChannelStuck, tasks, outside
<1>1. CASE Serve
  <2>1. CASE ServeWait \/ ServeRemove
    BY <2>1 DEF ServeWait, ServeRemove
  <2>2. CASE ServeRegister \/ ServeClose
    BY <1>0, <2>2 DEF ServeRegister, ServeClose, Unserved
  <2> QED  BY <1>1, <2>1, <2>2 DEF Serve
<1>2. CASE PingOn \/ PingTick
    BY <1>2 DEF PingOn, PingTick, PingSend, PingStop, Send, HasRoom, TypeOK
<1>3. CASE Write
  <2>1. CASE WriteCancel
    BY <1>0, <2>1 DEF WriteCancel
  <2>2. CASE WritePoll \/ WriteSleep \/ WriteStop \/ WriteFailed
    BY <2>2 DEF WritePoll, WriteSleep, WriteStop, WriteFailed
  <2>3. CASE WriteTake \/ WriteSent
    BY <2>3 DEF WriteTake, WriteSent
  <2> QED  BY <1>3, <2>1, <2>2, <2>3 DEF Write
<1>4. CASE ReadOn \/ ReadCloseFrame
  <2>1. CASE ReadAnswerClose
    BY <2>1 DEF ReadAnswerClose, Send, HasRoom, TypeOK
  <2>2. CASE ReadCancel
    BY <1>0, <2>2 DEF ReadCancel
  <2>3. CASE ReadError \/ ReadPanic \/ ReadStop \/ ReadDrained \/ ReadCloseFrame
    BY <2>3 DEF ReadError, ReadPanic, ReadStop, ReadDrained, ReadCloseFrame
  <2> QED  BY <1>4, <2>1, <2>2, <2>3 DEF ReadOn
<1>5. CASE Shutdown
    BY <1>0, <1>5 DEF Shutdown, ShutdownStart, ShutdownCancel, ShutdownFinish, ShutdownForced
<1>6. CASE SocketBreak \/ ElsewhereRelease
    BY <1>6 DEF SocketBreak, ElsewhereRelease
<1>7. ASSUME NEW r \in Requests, ReadRequest(r) PROVE DeadMoves
    BY <1>7 DEF ReadRequest, TypeOK
<1>8. ASSUME NEW r \in Requests, Handler(r) PROVE DeadMoves
  <2>1. CASE HandlerGuard(r) \/ HandlerRead(r) \/ HandlerWrite(r)
    BY <1>0, <2>1 DEF HandlerGuard, HandlerRead, HandlerWrite
  <2>2. CASE HandlerPermit(r)
    BY <2>2 DEF HandlerPermit, TypeOK
  <2>3. CASE HandlerUnlock(r)
    BY <2>3 DEF HandlerUnlock, TypeOK
  <2>4. CASE HandlerReply(r)
    BY <2>4 DEF HandlerReply, Send, HasRoom, TypeOK
  <2> QED  BY <1>8, <2>1, <2>2, <2>3, <2>4 DEF Handler
<1>9. ASSUME NEW p \in Pushers, PushStart(p) \/ PushOn(p) PROVE DeadMoves
  <2>1. CASE PushStart(p)
    BY <2>1 DEF PushStart, TypeOK
  <2>2. CASE PushFirst(p) \/ PushSecond(p) \/ PushFail(p)
    BY <1>0, <2>2 DEF PushFirst, PushSecond, PushFail
  <2>3. CASE PushSend(p)
    BY <2>3 DEF PushSend, Send, HasRoom, TypeOK
  <2> QED  BY <1>9, <2>1, <2>2, <2>3 DEF PushOn
<1>10. ASSUME NEW h \in Waiters, NEW mode \in Modes, WaitInLine(h, mode) PROVE DeadMoves
  <2>1. <<h, mode>> \in Waiters \X Modes /\ queue' = Append(queue, <<h, mode>>)
    BY <1>10 DEF WaitInLine
  <2> QED  BY <1>10, <2>1 DEF WaitInLine
<1>11. CASE UNCHANGED vars
    BY <1>11 DEF vars
<1> HIDE DEF DeadMoves
<1> QED
    BY <1>1, <1>2, <1>3, <1>4, <1>5, <1>6, <1>7, <1>8, <1>9, <1>10, <1>11 DEF Next

\* The deadlock survives every such step.
LEMMA DeadlockStep ==
    TypeOK /\ Lifecycle /\ LockDeadlock /\ [Next]_vars => LockDeadlock'
<1> SUFFICES ASSUME TypeOK, Lifecycle, LockDeadlock, [Next]_vars PROVE LockDeadlock'
    OBVIOUS
<1>1. HandlerMoves /\ PusherMoves /\ LineMoves /\ (ChannelStuck => ChannelStuck')
    BY DeadlockSteps DEF DeadMoves
<1>2. WriterFirst'
  <2>1. PICK w \in Requests : Head(queue) = <<w, "write">> /\ handler[w] = "wantswrite"
    BY DEF LockDeadlock, WriterFirst
  <2>2. handler'[w] = "wantswrite"
    BY <1>1, <2>1 DEF HandlerMoves
  <2>3. queue' # <<>> /\ Head(queue') = Head(queue)
    <3> DEFINE S == Waiters \X Modes
    <3>1. queue \in Seq(S) /\ queue # <<>>
        BY DEF TypeOK, LockDeadlock, WriterFirst
    <3>2. queue' = queue \/ \E e \in S : queue' = Append(queue, e)
        BY <1>1 DEF LineMoves
    <3> HIDE DEF S
    <3>3. CASE queue' = queue
        BY <3>1, <3>3
    <3>4. ASSUME NEW e \in S, queue' = Append(queue, e) PROVE queue' # <<>> /\ Head(queue') = Head(queue)
        BY <3>1, <3>4
    <3> QED  BY <3>2, <3>3, <3>4
  <2> QED  BY <2>1, <2>2, <2>3 DEF WriterFirst
<1>3. CASE PermitDeadlock
  <2>1. \A r \in Requests :
            handler'[r] = handler[r] \/ (handler[r] = "unsent" /\ handler'[r] = "spawned")
    <3> SUFFICES ASSUME NEW r \in Requests
                 PROVE handler'[r] = handler[r] \/ (handler[r] = "unsent" /\ handler'[r] = "spawned")
        OBVIOUS
    <3>1. ~(Cardinality(Holding) < Limit)
        BY <1>3, LimitAssumption DEF PermitDeadlock
    <3>2. handler[r] \notin {"reading", "writing"} /\ (handler[r] = "reply" => ChannelStuck)
        BY <1>3 DEF PermitDeadlock, Holding
    <3> QED  BY <1>1, <3>1, <3>2 DEF HandlerMoves
  <2>2. Holding' = Holding
    BY <2>1 DEF Holding
  <2>3. \E r \in Requests : handler'[r] = "permit"
    BY <1>3, <2>1 DEF PermitDeadlock
  <2>4. ASSUME NEW r \in Holding
        PROVE  \/ handler'[r] \in {"wantsread", "wantswrite"}
               \/ handler'[r] = "reply" /\ ChannelStuck'
    <3>1. handler'[r] = handler[r]
        BY <2>1 DEF Holding
    <3> QED  BY <1>1, <1>3, <3>1 DEF PermitDeadlock
  <2>5. PermitDeadlock'
    BY <1>3, <2>2, <2>3, <2>4 DEF PermitDeadlock
  <2> QED  BY <1>2, <2>5 DEF LockDeadlock
<1>4. CASE ReentrantDeadlock
    BY <1>1, <1>2, <1>4 DEF LockDeadlock, ReentrantDeadlock, PusherMoves
<1>5. CASE ChannelDeadlock
    BY <1>1, <1>2, <1>5 DEF LockDeadlock, ChannelDeadlock, PusherMoves
<1> QED  BY <1>3, <1>4, <1>5 DEF LockDeadlock

\* Once a writer is first in line behind a guard that waits for a permit, for
\* the same lock or for room in a channel that stays full, the connection is
\* lost: it stays so whatever the client, the pushers and the signals do.
THEOREM DeadlockIsForeverCorrect == Spec => DeadlockIsForever
<1>1. TypeOK /\ Lifecycle /\ [Next]_vars => [LockDeadlock => LockDeadlock']_vars
    BY DeadlockStep
<1> QED  BY <1>1, TypeCorrect, LifecycleCorrect, PTL DEF Spec, DeadlockIsForever

=============================================================================

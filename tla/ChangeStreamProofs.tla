------------------------- MODULE ChangeStreamProofs -------------------------
(* Theorems about ChangeStream, for any set of connections and any number  *)
(* of transactions, events and restarts.                                   *)
EXTENDS ChangeStream, SequenceTheorems, TLAPS

\* The empty channel.
LEMMA NoTransactions == <<>> \in Seq(Seq(Event)) /\ Len(<<>>) = 0
    OBVIOUS

\* A committed transaction has an event at least, and not too many.
LEMMA LogEntry ==
    ASSUME log \in Seq([events : 1..MaxEvents, unknown : BOOLEAN]), NEW t \in 1..Len(log)
    PROVE  log[t].events \in 1..MaxEvents
<1> DEFINE R == [events : 1..MaxEvents, unknown : BOOLEAN]
<1>1. log \in Seq(R)
    OBVIOUS
<1> HIDE DEF R
<1>2. log[t] \in R
    BY <1>1, ElementOfSeq
<1> QED  BY <1>2 DEF R

\* Every step keeps the types.
LEMMA TypeStep == TypeOK /\ [Next]_vars => TypeOK'
<1> SUFFICES ASSUME TypeOK, [Next]_vars PROVE TypeOK'
    OBVIOUS
<1> USE StreamBoundsAssumption DEF TypeOK, slot, broadcast, session, ping, Registered, Kinds
<1>1. CASE DbCommit
    BY <1>1 DEF DbCommit
<1>2. CASE WatchStart
    BY <1>2 DEF WatchStart
<1>3. CASE WatchBegin
    BY <1>3 DEF WatchBegin
<1>4. CASE WatchEvent
  <2>1. at \in 1..Len(log) /\ Len(log) \in Nat
      BY <1>4, LenProperties DEF WatchEvent
  <2>2. log[at].events \in 1..MaxEvents
      BY <2>1, LogEntry
  <2>3. at \in 1..MaxTxns /\ offset \in 1..MaxEvents
    <3>1. Len(log) <= MaxTxns /\ MaxTxns \in Nat /\ MaxEvents \in Nat
        OBVIOUS
    <3>2. offset \in 1..log[at].events
        BY <1>4 DEF WatchEvent
    <3> HIDE DEF TypeOK
    <3> QED  BY <2>1, <2>2, <3>1, <3>2
  <2> DEFINE event == <<at, offset>>
  <2>4. event \in Event
      BY <2>3 DEF Event
  <2>5. /\ partial' = <<Append(partial[1], event)>> /\ offset' = offset + 1
        /\ watcher = "running" /\ partial # <<>>
        /\ UNCHANGED <<log, at, watcher, queue, broadcast, session, inbox, ping, restarts>>
      BY <1>4 DEF WatchEvent
  <2> HIDE DEF event
  <2>6. partial[1] \in Seq(Event)
      BY <2>5
  <2>7. Append(partial[1], event) \in Seq(Event)
      BY <2>4, <2>6
  <2>8. partial' \in Seq(Seq(Event)) /\ Len(partial') = 1
      BY <2>5, <2>7
  <2>9. /\ UNCHANGED <<log, at, watcher, queue, hand, todo, stage, claims, writers, inbox>>
        /\ UNCHANGED <<asked, pending, restarts>> /\ watcher = "running"
      BY <2>5
  <2>10. offset' \in 0..(MaxEvents + 1) /\ offset' > 0
      BY <2>3, <2>5
  <2>11. Len(partial') = IF watcher' = "running" /\ offset' > 0 THEN 1 ELSE 0
      BY <2>8, <2>9, <2>10
  <2>12. Registered' = Registered
      BY <2>9
  <2>13. partial' \in Seq(Seq(Event))
      BY <2>8
  <2> HIDE <2>5, <2>6, <2>7, <2>8
  <2> HIDE DEF Registered
  <2> QED  BY <2>9, <2>10, <2>11, <2>12, <2>13
<1>5. CASE WatchUnknown \/ WatchEnd
  <2>1. /\ watcher' = "ended" /\ partial' = <<>>
        /\ UNCHANGED <<log, slot, asked, queue, broadcast, session, inbox, restarts>>
      BY <1>5 DEF WatchUnknown, WatchEnd
  <2>2. pending' \in BOOLEAN
      BY <1>5, Zenon DEF WatchUnknown, WatchEnd
  <2> QED  BY <2>1, <2>2, NoTransactions
<1>6. CASE WatchCommit
  <2>1. queue \o partial \in Seq(Seq(Event))
      BY ConcatProperties
  <2>2. at + 1 \in 1..(MaxTxns + 1)
      BY <1>6 DEF WatchCommit
  <2>3. /\ queue' = queue \o partial /\ partial' = <<>> /\ at' = at + 1 /\ offset' = 0
        /\ UNCHANGED <<log, watcher, broadcast, session, inbox, ping, restarts>>
      BY <1>6 DEF WatchCommit
  <2> QED  BY <2>1, <2>2, <2>3, NoTransactions
<1>7. CASE KeepaliveAsks
    BY <1>7 DEF KeepaliveAsks
<1>8. CASE WatchKeepalive
    BY <1>8 DEF WatchKeepalive
<1>10. CASE CastRecv
    BY <1>10 DEF CastRecv
<1>11. ASSUME NEW c \in Sockets, CastNext(c) PROVE TypeOK'
    BY <1>11 DEF CastNext
<1>16. ASSUME NEW c \in Sockets, NEW g \in {"none", "second", "stuck"}, stage[c] # "none",
              stage' = [stage EXCEPT ![c] = g],
              hand' \in Seq(Seq(Event)), Len(hand') <= 1, hand' = <<>> <=> todo' = {},
              todo' = IF g = "none" THEN todo \ {c} ELSE todo,
              inbox' \in [Sockets -> Seq(Seq(Event))],
              UNCHANGED <<log, slot, watcher, partial, queue, session, ping, restarts>>
       PROVE TypeOK'
  <2>1. stage' \in [Sockets -> {"none", "first", "second", "stuck"}] /\ stage'[c] = g
      BY <1>16
  <2>2. c \in todo /\ \A d \in Sockets \ {c} : stage[d] = "none" /\ stage'[d] = "none"
      BY <1>16
  <2>3. \A d \in Sockets : stage'[d] # "none" =>
            d \in todo' /\ \A e \in Sockets \ {d} : stage'[e] = "none"
    <3> HIDE DEF TypeOK
    <3> QED  BY <1>16, <2>1, <2>2
  <2>4. todo' \subseteq Registered /\ Registered' = Registered
      BY <1>16
  <2>5. UNCHANGED <<log, at, offset, watcher, asked, pending, partial, queue, claims, writers,
                    restarts>>
      BY <1>16
  <2> QED  BY <1>16, <2>1, <2>3, <2>4, <2>5
<1>19. ASSUME NEW c \in Sockets, Leave(c), c \in todo
       PROVE /\ hand' \in Seq(Seq(Event)) /\ Len(hand') <= 1 /\ (hand' = <<>> <=> todo' = {})
             /\ todo' = todo \ {c} /\ stage' = [stage EXCEPT ![c] = "none"]
    BY <1>19, NoTransactions DEF Leave
<1>20. /\ hand \in Seq(Seq(Event)) /\ Len(hand) <= 1 /\ (hand = <<>> <=> todo = {})
    OBVIOUS
<1>21. ASSUME NEW c \in Sockets, CastFirst(c) PROVE TypeOK'
  <2>1. /\ stage[c] # "none" /\ c \in todo /\ inbox' \in [Sockets -> Seq(Seq(Event))]
        /\ UNCHANGED <<log, slot, watcher, partial, queue, session, ping, restarts>>
      BY <1>21 DEF CastFirst
  <2>2. CASE Leave(c)
    <3> HIDE DEF TypeOK
    <3> QED  BY <1>16, <1>19, <2>1, <2>2
  <2>3. CASE UNCHANGED <<hand, todo>> /\ stage' = [stage EXCEPT ![c] = "second"]
    <3> HIDE DEF TypeOK
    <3> QED  BY <1>16, <1>20, <2>1, <2>3
  <2> QED  BY <1>21, <2>2, <2>3 DEF CastFirst
<1>17. ASSUME NEW c \in Sockets, CastSecond(c) PROVE TypeOK'
  <2>1. /\ stage[c] # "none" /\ c \in todo
        /\ UNCHANGED <<log, slot, watcher, partial, queue, session, ping, restarts>>
      BY <1>17 DEF CastSecond
  <2>2. CASE Leave(c) /\ inbox' = [inbox EXCEPT ![c] = @ \o hand]
    <3>1. inbox' \in [Sockets -> Seq(Seq(Event))]
        BY <2>2, ConcatProperties
    <3> HIDE DEF TypeOK
    <3> QED  BY <1>16, <1>19, <2>1, <2>2, <3>1
  <2>3. CASE UNCHANGED <<hand, todo, inbox>> /\ stage' = [stage EXCEPT ![c] = "stuck"]
    <3>1. inbox' \in [Sockets -> Seq(Seq(Event))]
        BY <2>3
    <3> HIDE DEF TypeOK
    <3> QED  BY <1>16, <1>20, <2>1, <2>3, <3>1
  <2> QED  BY <1>17, <2>2, <2>3 DEF CastSecond
<1>9. ASSUME NEW c \in Sockets, Register(c) PROVE TypeOK'
    BY <1>9 DEF Register
<1>12. ASSUME NEW c \in Sockets, Remove(c) PROVE TypeOK'
    BY <1>12, NoTransactions DEF Remove
<1>13. ASSUME NEW c \in Sockets, WriterAsk(c) PROVE TypeOK'
    BY <1>13 DEF WriterAsk
<1>18. ASSUME NEW c \in Sockets, WriterDone(c) PROVE TypeOK'
    BY <1>18 DEF WriterDone
<1>14. CASE Restart
  <2>1. /\ restarts' \in 0..MaxRestarts
        /\ watcher' = "starting" /\ partial' = <<>> /\ queue' = <<>> /\ hand' = <<>> /\ todo' = {}
        /\ stage' = [c \in Sockets |-> "none"] /\ writers' = {}
        /\ claims' = [c \in Sockets |-> "absent"] /\ inbox' = [c \in Sockets |-> <<>>]
        /\ UNCHANGED <<log, slot, asked>>
      BY <1>14 DEF Restart
  <2>2. pending' \in BOOLEAN
      BY <1>14, Zenon DEF Restart
  <2> QED  BY <2>1, <2>2, NoTransactions
<1>15. CASE UNCHANGED vars
    BY <1>15 DEF vars
<1> QED
    BY <1>1, <1>2, <1>3, <1>4, <1>5, <1>6, <1>7, <1>8, <1>9, <1>10, <1>11, <1>12, <1>13, <1>14,
       <1>15, <1>17, <1>18, <1>21
    DEF Next, WatchRuns, Watch, Cast

\* The state of the stream is always of its types.
THEOREM StreamTypeCorrect == Spec => []TypeOK
<1>1. Init => TypeOK
  <2> SUFFICES ASSUME Init PROVE TypeOK
      OBVIOUS
  <2>1. pending \in BOOLEAN
      BY Zenon DEF Init
  <2>2. log \in Seq([events : 1..MaxEvents, unknown : BOOLEAN]) /\ Len(log) <= MaxTxns
      BY StreamBoundsAssumption DEF Init
  <2> QED  BY <2>1, <2>2, NoTransactions, StreamBoundsAssumption DEF Init, TypeOK, Kinds, Registered
<1> QED  BY <1>1, TypeStep, PTL DEF Spec
-----------------------------------------------------------------------------
(* Sequences of whole transactions. *)

\* The t-th transaction of a log l, whole, and a sequence of transactions
\* that are whole and consecutive up to the one before the a-th.
WholeOf(t, l) == [k \in 1..l[t].events |-> <<t, k>>]
RunOf(s, a, l) ==
    \A i \in 1..Len(s) :
        /\ a - 1 - Len(s) + i \in 1..(a - 1)
        /\ s[i] = WholeOf(a - 1 - Len(s) + i, l)

\* Nothing at all is such a run.
LEMMA RunEmpty == \A a, l : RunOf(<<>>, a, l)
    BY DEF RunOf

\* What is left of a run when its first transactions have gone is a run.
LEMMA RunSuffix ==
    ASSUME NEW S, NEW s \in Seq(S), NEW t \in Seq(S), NEW a \in Nat, NEW l, RunOf(s \o t, a, l)
    PROVE  RunOf(t, a, l)
<1> SUFFICES ASSUME NEW i \in 1..Len(t)
             PROVE  /\ a - 1 - Len(t) + i \in 1..(a - 1)
                    /\ t[i] = WholeOf(a - 1 - Len(t) + i, l)
    BY DEF RunOf
<1>1. Len(s) \in Nat /\ Len(t) \in Nat /\ Len(s \o t) = Len(s) + Len(t)
    BY LenProperties, ConcatProperties
<1> DEFINE j == Len(s) + i
<1>2. j \in 1..Len(s \o t) /\ (s \o t)[j] = t[i]
    BY <1>1, ConcatProperties
<1>3. a - 1 - Len(s \o t) + j = a - 1 - Len(t) + i
    BY <1>1
<1> QED  BY <1>2, <1>3 DEF RunOf

\* The next whole transaction prolongs a run.
LEMMA RunNext ==
    ASSUME NEW S, NEW s \in Seq(S), NEW a \in Nat \ {0}, NEW l, RunOf(s, a, l),
           WholeOf(a, l) \in S
    PROVE  RunOf(Append(s, WholeOf(a, l)), a + 1, l)
<1> DEFINE w == WholeOf(a, l)
           u == Append(s, w)
<1>1. Len(s) \in Nat /\ Len(u) = Len(s) + 1 /\ u[Len(s) + 1] = w
      /\ \A i \in 1..Len(s) : u[i] = s[i]
    BY LenProperties, AppendProperties
<1> SUFFICES ASSUME NEW i \in 1..Len(u)
             PROVE  /\ (a + 1) - 1 - Len(u) + i \in 1..((a + 1) - 1)
                    /\ u[i] = WholeOf((a + 1) - 1 - Len(u) + i, l)
    BY DEF RunOf
<1>2. CASE i = Len(s) + 1
  <2>1. (a + 1) - 1 - Len(u) + i = a
      BY <1>1, <1>2
  <2> QED  BY <1>1, <1>2, <2>1
<1>3. CASE i \in 1..Len(s)
  <2>1. (a + 1) - 1 - Len(u) + i = a - 1 - Len(s) + i
      BY <1>1, <1>3
  <2>2. a - 1 - Len(s) + i \in 1..(a - 1) /\ s[i] = WholeOf(a - 1 - Len(s) + i, l)
      BY <1>3 DEF RunOf
  <2> HIDE DEF u
  <2> QED  BY <1>1, <1>3, <2>1, <2>2
<1> QED  BY <1>1, <1>2, <1>3

\* A commit changes no transaction of the log.
LEMMA RunLonger ==
    ASSUME NEW R, NEW l \in Seq(R), NEW e \in R, NEW s, NEW a \in Nat, a <= Len(l) + 1,
           RunOf(s, a, l)
    PROVE  RunOf(s, a, Append(l, e))
<1> SUFFICES ASSUME NEW i \in 1..Len(s)
             PROVE  /\ a - 1 - Len(s) + i \in 1..(a - 1)
                    /\ s[i] = WholeOf(a - 1 - Len(s) + i, Append(l, e))
    BY DEF RunOf
<1> DEFINE t == a - 1 - Len(s) + i
<1>1. t \in 1..(a - 1) /\ s[i] = WholeOf(t, l)
    BY DEF RunOf
<1> HIDE DEF t
<1>2. Append(l, e)[t] = l[t]
    BY <1>1, AppendProperties, LenProperties
<1>3. s[i] = WholeOf(t, Append(l, e))
    BY <1>1, <1>2 DEF WholeOf
<1> QED  BY <1>1, <1>3 DEF t

\* The first m values of F: those before the last one, and the last one.
LEMMA AppendLast ==
    ASSUME NEW F, NEW m \in Nat \ {0}
    PROVE  Append([k \in 1..(m - 1) |-> F[k]], F[m]) = [k \in 1..m |-> F[k]]
<1> DEFINE S == {F[k] : k \in 1..m}
           p == [k \in 1..(m - 1) |-> F[k]]
           n == [k \in 1..m |-> F[k]]
           u == Append(p, F[m])
<1>1. p \in Seq(S) /\ Len(p) = m - 1
    OBVIOUS
<1>2. n \in Seq(S) /\ Len(n) = m /\ F[m] \in S
    OBVIOUS
<1>3. \A i \in 1..(m - 1) : p[i] = F[i]
    OBVIOUS
<1>4. \A i \in 1..m : n[i] = F[i]
    OBVIOUS
<1> HIDE DEF S, p, n
<1>5. u \in Seq(S) /\ Len(u) = m /\ u[m] = F[m] /\ \A i \in 1..(m - 1) : u[i] = p[i]
    BY <1>1, <1>2, AppendProperties
<1> HIDE DEF u
<1>6. \A i \in 1..m : u[i] = n[i]
    BY <1>3, <1>4, <1>5
<1>7. u = n
    BY <1>2, <1>5, <1>6, SeqEqual
<1> QED  BY <1>7 DEF u, n, p

\* Taking the first transaction of the channel into hand changes nothing of
\* the way to a connection.
LEMMA HeadTailWay ==
    ASSUME NEW S, NEW s \in Seq(S), NEW q \in Seq(S), q # <<>>
    PROVE  /\ <<Head(q)>> \o Tail(q) = q
           /\ (s \o <<Head(q)>>) \o Tail(q) = s \o q
<1>1. Head(q) \in S /\ Tail(q) \in Seq(S) /\ <<Head(q)>> \in Seq(S)
    BY HeadTailProperties
<1>2. <<Head(q)>> \o Tail(q) = q
  <2> DEFINE u == <<Head(q)>> \o Tail(q)
  <2>1. u \in Seq(S) /\ Len(u) = Len(q)
      BY <1>1
  <2>2. \A i \in 1..Len(u) : u[i] = q[i]
      BY <1>1
  <2> HIDE DEF u
  <2>3. u = q
      BY <2>1, <2>2, SeqEqual
  <2> QED  BY <2>3 DEF u
<1> QED  BY <1>1, <1>2, ConcatAssociative

-----------------------------------------------------------------------------
(* Where watch is, and what is on its way. *)

\* watch has put together the events of the transaction it reads up to the
\* next message of the slot.
PositionInv ==
    /\ at \in 1..(Len(log) + 1)
    /\ watcher = "running" /\ offset > 0 =>
           /\ at <= Len(log) /\ offset <= log[at].events + 1
           /\ partial = <<[k \in 1..(offset - 1) |-> <<at, k>>]>>

\* Nothing is on its way before the slot is there.
FreshInv ==
    watcher = "starting" =>
        queue = <<>> /\ hand = <<>> /\ \A c \in Sockets : inbox[c] = <<>>

\* What is on its way, to a connection or in general, is a run of whole
\* transactions up to the last one that watch has completed: also for a
\* connection that is no POS server yet, which may become one at any moment.
OnWayInv ==
    /\ RunOf(hand \o queue, at, log)
    /\ \A c \in Sockets : RunOf(Way(c), at, log)

\* A connection whose first guard the broadcast keeps is a POS server still.
GuardInv == \A c \in Sockets : Guarded(c) => claims[c] = "pos"

\* The inductive invariant.
StreamInv == PositionInv /\ FreshInv /\ OnlyPosServers /\ GuardInv /\ OnWayInv

\* c is done with: it was sent the transaction in hand if it is a POS server.
Offered(c) ==
    /\ c \in todo /\ todo' = todo \ {c} /\ hand' = IF todo = {c} THEN <<>> ELSE hand
    /\ inbox' = [inbox EXCEPT ![c] = IF claims[c] = "pos" THEN @ \o hand ELSE @]

\* What a step of the broadcast at a connection comes to.
LEMMA CastForms ==
    ASSUME TypeOK, GuardInv, NEW c \in Sockets, CastNext(c) \/ CastFirst(c) \/ CastSecond(c)
    PROVE  /\ UNCHANGED <<log, at, offset, watcher, partial, queue, claims, writers>>
           /\ Offered(c) \/ UNCHANGED <<hand, todo, inbox>>
<1> USE DEF TypeOK, slot, session
<1>1. CASE CastNext(c)
    BY <1>1 DEF CastNext
<1>2. CASE CastFirst(c)
  <2>1. CASE claims[c] = "pos"
      BY <1>2, <2>1 DEF CastFirst
  <2>2. CASE claims[c] # "pos"
    <3>1. [inbox EXCEPT ![c] = IF claims[c] = "pos" THEN @ \o hand ELSE @] = inbox
        BY <2>2
    <3> QED  BY <1>2, <2>2, <3>1 DEF CastFirst, Leave, Offered
  <2> QED  BY <2>1, <2>2
<1>3. CASE CastSecond(c)
  <2>1. claims[c] = "pos" /\ c \in todo
      BY <1>3 DEF CastSecond, GuardInv, Guarded
  <2> QED  BY <1>3, <2>1 DEF CastSecond, Leave, Offered
<1> QED  BY <1>1, <1>2, <1>3

\* Every step keeps the place of watch.
LEMMA PositionStep == TypeOK /\ PositionInv /\ [Next]_vars => PositionInv'
<1> SUFFICES ASSUME TypeOK, PositionInv, [Next]_vars PROVE PositionInv'
    OBVIOUS
<1>1. Len(log) \in Nat
    BY LenProperties DEF TypeOK
<1> USE <1>1 DEF PositionInv, slot, broadcast, ping
<1>2. CASE DbCommit
  <2> DEFINE R == [events : 1..MaxEvents, unknown : BOOLEAN]
  <2>1. PICK e \in R : log' = Append(log, e)
      BY <1>2 DEF DbCommit
  <2>2. log \in Seq(R)
      BY DEF TypeOK
  <2> HIDE DEF R
  <2>3. Len(log') = Len(log) + 1 /\ \A t \in 1..Len(log) : log'[t] = log[t]
      BY <2>1, <2>2, AppendProperties
  <2>4. UNCHANGED <<at, offset, watcher, partial>>
      BY <1>2 DEF DbCommit
  <2> QED  BY <2>3, <2>4
<1>3. CASE WatchStart
    BY <1>3 DEF WatchStart
<1>4. CASE WatchBegin
  <2>1. log[at].events \in 1..MaxEvents
      BY <1>4, LogEntry DEF WatchBegin, TypeOK
  <2>2. [k \in 1..0 |-> <<at, k>>] = <<>>
      OBVIOUS
  <2>3. offset' = 1 /\ at' = at /\ log' = log /\ at <= Len(log) /\ partial' = <<(<<>>)>>
      BY <1>4 DEF WatchBegin
  <2>4. partial' = <<[k \in 1..(offset' - 1) |-> <<at', k>>]>>
      BY <2>2, <2>3
  <2> QED  BY <2>1, <2>3, <2>4, StreamBoundsAssumption
<1>5. CASE WatchEvent
  <2> DEFINE p == [k \in 1..(offset - 1) |-> <<at, k>>]
             n == [k \in 1..offset |-> <<at, k>>]
  <2>1. /\ offset \in 1..log[at].events /\ at <= Len(log) /\ watcher = "running"
        /\ partial' = <<Append(partial[1], <<at, offset>>)>> /\ offset' = offset + 1
        /\ UNCHANGED <<log, at, watcher>>
      BY <1>5 DEF WatchEvent
  <2>2. log[at].events \in 1..MaxEvents
      BY <2>1, LogEntry DEF TypeOK
  <2>3. partial[1] = p
    <3>1. log[at].events \in Nat /\ offset > 0
        BY <2>1, <2>2
    <3>2. partial = <<p>>
        BY <2>1, <3>1
    <3> HIDE DEF p, PositionInv
    <3> QED  BY <3>2
  <2>4. offset \in Nat \ {0}
      BY <2>1, <2>2, StreamBoundsAssumption
  <2>5. Append(p, <<at, offset>>) = n
    <3> DEFINE F == [k \in Nat |-> <<at, k>>]
    <3>1. p = [k \in 1..(offset - 1) |-> F[k]] /\ n = [k \in 1..offset |-> F[k]]
        BY <2>4
    <3>2. <<at, offset>> = F[offset]
        BY <2>4
    <3> HIDE DEF F, p, n
    <3> QED  BY <2>4, <3>1, <3>2, AppendLast
  <2>6. partial' = <<n>> /\ offset' - 1 = offset
    <3> HIDE DEF p, n
    <3> QED  BY <2>1, <2>3, <2>4, <2>5
  <2>7. partial' = <<[k \in 1..(offset' - 1) |-> <<at', k>>]>>
      BY <2>1, <2>6
  <2>8. at' \in 1..(Len(log') + 1) /\ at' <= Len(log') /\ offset' <= log'[at'].events + 1
      BY <2>1, <2>2, <2>4, StreamBoundsAssumption
  <2> QED  BY <2>7, <2>8, Zenon
<1>6. CASE WatchUnknown \/ WatchEnd
    BY <1>6 DEF WatchUnknown, WatchEnd
<1>7. CASE WatchCommit
    BY <1>7 DEF WatchCommit
<1>8. CASE KeepaliveAsks \/ WatchKeepalive \/ Cast
    BY <1>8
    DEF KeepaliveAsks, WatchKeepalive, Cast, CastRecv, CastNext, CastFirst, CastSecond
<1>9. ASSUME NEW c \in Sockets, Register(c) \/ Remove(c) \/ WriterAsk(c) \/ WriterDone(c)
      PROVE  PositionInv'
    BY <1>9 DEF Register, Remove, WriterAsk, WriterDone
<1>10. CASE Restart
    BY <1>10 DEF Restart
<1>11. CASE UNCHANGED vars
    BY <1>11 DEF vars
<1> QED
    BY <1>2, <1>3, <1>4, <1>5, <1>6, <1>7, <1>8, <1>9, <1>10, <1>11 DEF Next, WatchRuns, Watch

\* Every step keeps what is sent to whom, and that nothing is before the slot.
LEMMA FreshStep ==
    TypeOK /\ FreshInv /\ OnlyPosServers /\ GuardInv /\ [Next]_vars => FreshInv' /\ OnlyPosServers'
<1> SUFFICES ASSUME TypeOK, FreshInv, OnlyPosServers, GuardInv, [Next]_vars
             PROVE  FreshInv' /\ OnlyPosServers'
    OBVIOUS
<1> USE DEF TypeOK, FreshInv, OnlyPosServers, slot, broadcast, session, ping, Registered
<1>1. CASE DbCommit \/ KeepaliveAsks \/ WatchEnd \/ WatchRuns
    BY <1>1
    DEF DbCommit, KeepaliveAsks, WatchEnd, WatchRuns, WatchStart, Watch, WatchBegin, WatchEvent,
        WatchUnknown, WatchCommit, WatchKeepalive
<1>2. CASE CastRecv
    BY <1>2 DEF CastRecv
<1>3. ASSUME NEW c \in Sockets, CastNext(c) \/ CastFirst(c) \/ CastSecond(c)
      PROVE  FreshInv' /\ OnlyPosServers'
  <2>1. UNCHANGED <<watcher, queue, claims>> /\ (Offered(c) \/ UNCHANGED <<hand, todo, inbox>>)
      BY <1>3, CastForms
  <2>2. CASE Offered(c)
      BY <2>1, <2>2 DEF Offered
  <2>3. CASE UNCHANGED <<hand, todo, inbox>>
      BY <2>1, <2>3
  <2> QED  BY <2>1, <2>2, <2>3
<1>4. ASSUME NEW c \in Sockets, Register(c) \/ Remove(c) \/ WriterAsk(c) \/ WriterDone(c)
      PROVE  FreshInv' /\ OnlyPosServers'
    BY <1>4 DEF Register, Remove, WriterAsk, WriterDone
<1>5. CASE Restart
    BY <1>5 DEF Restart
<1>6. CASE UNCHANGED vars
    BY <1>6 DEF vars
<1> QED  BY <1>1, <1>2, <1>3, <1>4, <1>5, <1>6 DEF Next, Cast

\* No handler changes the claims of a connection whose guard is kept: it is
\* not given the write guard before the broadcast has left the connection.
LEMMA GuardStep == TypeOK /\ GuardInv /\ [Next]_vars => GuardInv'
<1> SUFFICES ASSUME TypeOK, GuardInv, [Next]_vars PROVE GuardInv'
    OBVIOUS
<1> USE DEF TypeOK, GuardInv, Guarded, broadcast, session
<1>1. CASE DbCommit \/ KeepaliveAsks \/ WatchEnd \/ WatchRuns \/ CastRecv \/ UNCHANGED vars
    BY <1>1
    DEF DbCommit, KeepaliveAsks, WatchEnd, WatchRuns, WatchStart, Watch, WatchBegin, WatchEvent,
        WatchUnknown, WatchCommit, WatchKeepalive, CastRecv, vars
<1>2. ASSUME NEW c \in Sockets, CastNext(c) \/ CastFirst(c) \/ CastSecond(c) PROVE GuardInv'
    BY <1>2 DEF CastNext, CastFirst, CastSecond, Leave
<1>3. ASSUME NEW c \in Sockets, Register(c) \/ Remove(c) \/ WriterAsk(c) PROVE GuardInv'
    BY <1>3 DEF Register, Remove, WriterAsk
<1>4. ASSUME NEW c \in Sockets, WriterDone(c) PROVE GuardInv'
    BY <1>4 DEF WriterDone
<1>5. CASE Restart
    BY <1>5 DEF Restart
<1> QED  BY <1>1, <1>2, <1>3, <1>4, <1>5 DEF Next, Cast

\* The way to a connection in its three forms: one that still has to be
\* offered the transaction in hand, any other, one that was sent nothing.
LEMMA WayForms ==
    ASSUME TypeOK, NEW c \in Sockets
    PROVE  /\ c \in todo => Way(c) = (inbox[c] \o hand) \o queue
           /\ c \notin todo => Way(c) = inbox[c] \o queue
           /\ inbox[c] = <<>> => Way(c) = IF c \in todo THEN hand \o queue ELSE queue
    BY ConcatEmptySeq DEF TypeOK, Way

\* What watch completes is on the way behind everything else.
LEMMA OnWayCommit ==
    TypeOK /\ PositionInv /\ OnWayInv /\ WatchCommit => OnWayInv'
<1> SUFFICES ASSUME TypeOK, PositionInv, OnWayInv, WatchCommit PROVE OnWayInv'
    OBVIOUS
<1> DEFINE w == WholeOf(at, log)
           S == Seq(Event)
<1>1. /\ queue' = queue \o partial /\ at' = at + 1
      /\ UNCHANGED <<log, hand, todo, inbox>> /\ at \in Nat \ {0}
    BY DEF WatchCommit, broadcast, PositionInv
<1>2. partial = <<w>>
  <2>1. offset - 1 = log[at].events /\ offset > 0 /\ watcher = "running"
    <3>1. log[at].events \in 1..MaxEvents
        BY LogEntry DEF WatchCommit, TypeOK
    <3> QED  BY <3>1, StreamBoundsAssumption DEF WatchCommit
  <2> QED  BY <2>1 DEF PositionInv, WholeOf
<1>3. w \in S
    BY <1>2 DEF TypeOK
<1>4. ASSUME NEW s \in Seq(S) PROVE (s \o queue) \o partial = Append(s \o queue, w)
    BY <1>2, <1>3, <1>4, AppendIsConcat, ConcatProperties DEF TypeOK
<1>5. ASSUME NEW s \in Seq(S) PROVE s \o queue' = Append(s \o queue, w)
  <2>1. queue \in Seq(S) /\ partial \in Seq(S)
      BY DEF TypeOK
  <2> HIDE DEF S, w
  <2>2. s \o (queue \o partial) = (s \o queue) \o partial
      BY <2>1, ConcatAssociative, SMTT(30)
  <2> QED  BY <1>1, <1>4, <2>2
<1>6. ASSUME NEW s \in Seq(S), RunOf(s \o queue, at, log) PROVE RunOf(s \o queue', at', log')
  <2>1. s \o queue \in Seq(S)
      BY ConcatProperties DEF TypeOK
  <2> HIDE DEF w, S
  <2>2. RunOf(Append(s \o queue, w), at + 1, log)
      BY <1>1, <1>3, <1>6, <2>1, RunNext DEF w
  <2> QED  BY <1>1, <1>5, <2>2
<1>7. hand \in Seq(S)
    BY DEF TypeOK
<1>8. ASSUME NEW c \in Sockets PROVE RunOf(Way(c)', at', log')
  <2> DEFINE s == inbox[c] \o (IF c \in todo THEN hand ELSE <<>>)
  <2>1. s \in Seq(S)
      BY ConcatProperties, NoTransactions DEF TypeOK
  <2>2. Way(c) = s \o queue /\ Way(c)' = s \o queue'
      BY <1>1 DEF Way
  <2> HIDE DEF s, S
  <2>3. RunOf(s \o queue, at, log)
      BY <2>2 DEF OnWayInv
  <2> QED  BY <1>6, <2>1, <2>2, <2>3
<1>9. RunOf(hand' \o queue', at', log')
  <2>1. RunOf(hand \o queue, at, log)
      BY DEF OnWayInv
  <2> HIDE DEF S
  <2> QED  BY <1>1, <1>6, <1>7, <2>1
<1> QED  BY <1>8, <1>9 DEF OnWayInv

\* A broadcast moves what is on its way, and changes none of it for those it
\* is meant for.
LEMMA OnWayCast ==
    TypeOK /\ PositionInv /\ OnlyPosServers /\ GuardInv /\ OnWayInv /\ Cast => OnWayInv'
<1> SUFFICES ASSUME TypeOK, PositionInv, OnlyPosServers, GuardInv, OnWayInv, Cast PROVE OnWayInv'
    OBVIOUS
<1> DEFINE S == Seq(Event)
<1>1. /\ at \in Nat /\ hand \in Seq(S) /\ queue \in Seq(S) /\ <<>> \in Seq(S)
      /\ \A c \in Sockets : inbox[c] \in Seq(S)
    BY NoTransactions DEF TypeOK
<1>2. /\ RunOf(hand \o queue, at, log) /\ RunOf(queue, at, log)
      /\ \A c \in Sockets : RunOf(Way(c), at, log)
  <2> HIDE DEF S
  <2> QED  BY <1>1, RunSuffix DEF OnWayInv
<1>3. CASE CastRecv
  <2>1. /\ hand = <<>> /\ queue # <<>> /\ queue' = Tail(queue) /\ todo = {}
        /\ todo' = Registered /\ hand' = IF Registered = {} THEN <<>> ELSE <<Head(queue)>>
        /\ UNCHANGED <<at, log, inbox>>
      BY <1>3 DEF CastRecv, slot, TypeOK
  <2>2. /\ Tail(queue) \in Seq(S) /\ <<Head(queue)>> \in Seq(S)
        /\ <<Head(queue)>> \o Tail(queue) = queue /\ <<>> \o Tail(queue) = Tail(queue)
    <3> HIDE DEF S
    <3> QED  BY <1>1, <2>1, HeadTailProperties, HeadTailWay, ConcatEmptySeq
  <2>3. RunOf(Tail(queue), at, log)
    <3> HIDE DEF S
    <3> QED  BY <1>1, <1>2, <2>2, RunSuffix
  <2>4. RunOf(hand' \o queue', at', log')
      BY <1>2, <2>1, <2>2, <2>3
  <2>5. ASSUME NEW c \in Sockets PROVE RunOf(Way(c)', at', log')
    <3>1. CASE c \in Registered
      <4>1. Way(c)' = (inbox[c] \o <<Head(queue)>>) \o Tail(queue)
          BY <2>1, <3>1 DEF Way
      <4>2. Way(c) = inbox[c] \o queue
          BY <2>1, WayForms
      <4> HIDE DEF S
      <4>3. (inbox[c] \o <<Head(queue)>>) \o Tail(queue) = inbox[c] \o queue
          BY <1>1, <2>1, HeadTailWay
      <4> QED  BY <1>2, <2>1, <4>1, <4>2, <4>3
    <3>2. CASE c \notin Registered
      <4>1. inbox[c] = <<>>
          BY <3>2 DEF Registered, OnlyPosServers
      <4>2. Way(c)' = (<<>> \o <<>>) \o Tail(queue)
          BY <2>1, <3>2, <4>1 DEF Way
      <4>3. Way(c)' = Tail(queue)
        <5> HIDE DEF S
        <5> QED  BY <1>1, <2>2, <4>2, ConcatEmptySeq
      <4> QED  BY <2>1, <2>3, <4>3
    <3> QED  BY <3>1, <3>2
  <2> QED  BY <2>4, <2>5 DEF OnWayInv
<1>4. ASSUME NEW d \in Sockets, Offered(d), UNCHANGED <<at, log, queue, claims>> PROVE OnWayInv'
  <2>1. /\ d \in todo /\ todo' = todo \ {d} /\ hand' = IF todo = {d} THEN <<>> ELSE hand
        /\ inbox' = [inbox EXCEPT ![d] = IF claims[d] = "pos" THEN @ \o hand ELSE @]
        /\ UNCHANGED <<at, log, queue>>
      BY <1>4 DEF Offered
  <2>2. <<>> \o queue = queue
    <3> HIDE DEF S
    <3> QED  BY <1>1, ConcatEmptySeq
  <2>3. RunOf(hand' \o queue', at', log')
      BY <1>2, <2>1, <2>2
  <2>4. ASSUME NEW c \in Sockets, c # d PROVE Way(c)' = Way(c)
      BY <2>1, <2>4 DEF Way, TypeOK
  <2>5. RunOf(Way(d)', at', log')
    <3>1. Way(d)' = (inbox'[d] \o <<>>) \o queue
        BY <2>1 DEF Way
    <3>2. CASE claims[d] = "pos"
      <4>1. inbox'[d] = inbox[d] \o hand
          BY <2>1, <3>2 DEF TypeOK
      <4>2. (inbox'[d] \o <<>>) = inbox[d] \o hand
        <5> HIDE DEF S
        <5> QED  BY <1>1, <4>1, ConcatProperties, ConcatEmptySeq
      <4>3. Way(d)' = Way(d)
          BY <2>1, <3>1, <4>2, WayForms
      <4> QED  BY <1>2, <2>1, <4>3
    <3>3. CASE claims[d] # "pos"
      <4>1. inbox'[d] = <<>>
          BY <2>1, <3>3 DEF TypeOK, OnlyPosServers
      <4>2. Way(d)' = queue
        <5> HIDE DEF S
        <5> QED  BY <1>1, <2>2, <3>1, <4>1, ConcatEmptySeq
      <4> QED  BY <1>2, <2>1, <4>2
    <3> QED  BY <3>2, <3>3
  <2>6. ASSUME NEW c \in Sockets PROVE RunOf(Way(c)', at', log')
      BY <1>2, <2>1, <2>4, <2>5
  <2> QED  BY <2>3, <2>6 DEF OnWayInv
<1>5. ASSUME NEW d \in Sockets, CastNext(d) \/ CastFirst(d) \/ CastSecond(d) PROVE OnWayInv'
  <2>1. UNCHANGED <<at, log, queue, claims>> /\ (Offered(d) \/ UNCHANGED <<hand, todo, inbox>>)
      BY <1>5, CastForms
  <2>2. CASE UNCHANGED <<hand, todo, inbox>>
      BY <2>1, <2>2 DEF OnWayInv, Way
  <2> QED  BY <1>4, <2>1, <2>2
<1> QED  BY <1>3, <1>5 DEF Cast

\* A connection that comes, goes or changes its claims starts with nothing
\* but what is still on its way.
LEMMA OnWaySocket ==
    ASSUME TypeOK, OnlyPosServers, OnWayInv, NEW d \in Sockets,
           Register(d) \/ Remove(d) \/ WriterAsk(d) \/ WriterDone(d)
    PROVE  OnWayInv'
<1> DEFINE S == Seq(Event)
<1>1. /\ at \in Nat /\ hand \in Seq(S) /\ queue \in Seq(S) /\ <<>> \in Seq(S)
    BY NoTransactions DEF TypeOK
<1>2. /\ RunOf(hand \o queue, at, log) /\ RunOf(queue, at, log)
      /\ \A c \in Sockets : RunOf(Way(c), at, log)
  <2> HIDE DEF S
  <2> QED  BY <1>1, RunSuffix DEF OnWayInv
<1>3. UNCHANGED <<at, log, hand, todo, queue>>
    BY DEF Register, Remove, WriterAsk, WriterDone, slot, broadcast
<1>4. inbox' = inbox \/ inbox' = [inbox EXCEPT ![d] = <<>>]
    BY DEF Register, Remove, WriterAsk, WriterDone, TypeOK
<1>5. ASSUME NEW c \in Sockets, inbox'[c] = inbox[c] PROVE RunOf(Way(c)', at', log')
    BY <1>2, <1>3, <1>5 DEF Way
<1>6. ASSUME NEW c \in Sockets, inbox'[c] = <<>> PROVE RunOf(Way(c)', at', log')
  <2>1. Way(c)' = (<<>> \o (IF c \in todo THEN hand ELSE <<>>)) \o queue
      BY <1>3, <1>6 DEF Way
  <2>2. Way(c)' = IF c \in todo THEN hand \o queue ELSE queue
    <3> HIDE DEF S
    <3> QED  BY <1>1, <2>1, ConcatEmptySeq
  <2> QED  BY <1>2, <1>3, <2>2
<1>7. ASSUME NEW c \in Sockets PROVE RunOf(Way(c)', at', log')
    BY <1>4, <1>5, <1>6 DEF TypeOK
<1> QED  BY <1>2, <1>3, <1>7 DEF OnWayInv

\* Every step keeps what is on its way.
LEMMA OnWayStep == TypeOK /\ StreamInv /\ [Next]_vars => OnWayInv'
<1> SUFFICES ASSUME TypeOK, StreamInv, [Next]_vars PROVE OnWayInv'
    OBVIOUS
<1> USE DEF StreamInv, slot, broadcast, ping
<1>1. ASSUME UNCHANGED <<at, log, hand, todo, queue, inbox>> PROVE OnWayInv'
    BY <1>1 DEF OnWayInv, Way
<1>2. ASSUME queue' = <<>>, hand' = <<>>, \A c \in Sockets : inbox'[c] = <<>> PROVE OnWayInv'
  <2>1. <<>> \o <<>> = <<>>
      BY NoTransactions, ConcatEmptySeq
  <2>2. \A c \in Sockets : Way(c)' = <<>>
      BY <1>2, <2>1 DEF Way
  <2>3. hand' \o queue' = <<>>
      BY <1>2, <2>1
  <2> QED  BY <2>2, <2>3, RunEmpty DEF OnWayInv
<1>3. CASE DbCommit
  <2> DEFINE R == [events : 1..MaxEvents, unknown : BOOLEAN]
  <2>1. PICK e \in R : log' = Append(log, e)
      BY <1>3 DEF DbCommit
  <2>2. log \in Seq(R) /\ Len(log) \in Nat /\ at \in Nat /\ at <= Len(log) + 1
      BY LenProperties DEF TypeOK, PositionInv
  <2>3. UNCHANGED <<at, hand, todo, queue, inbox>>
      BY <1>3 DEF DbCommit
  <2>4. /\ RunOf(hand \o queue, at, log') /\ \A c \in Sockets : RunOf(Way(c), at, log')
    <3> HIDE DEF R
    <3> QED  BY <2>1, <2>2, RunLonger DEF OnWayInv
  <2>5. \A c \in Sockets : Way(c)' = Way(c)
      BY <2>3 DEF Way
  <2> QED  BY <2>3, <2>4, <2>5 DEF OnWayInv
<1>4. CASE WatchStart
  <2>1. queue' = <<>> /\ hand' = <<>> /\ \A c \in Sockets : inbox'[c] = <<>>
      BY <1>4 DEF WatchStart, FreshInv
  <2> QED  BY <1>2, <2>1
<1>5. CASE WatchBegin \/ WatchEvent \/ WatchUnknown \/ WatchKeepalive \/ KeepaliveAsks \/ WatchEnd
    BY <1>1, <1>5
    DEF WatchBegin, WatchEvent, WatchUnknown, WatchKeepalive, KeepaliveAsks, WatchEnd
<1>6. CASE WatchCommit
    BY <1>6, OnWayCommit
<1>7. CASE Cast
    BY <1>7, OnWayCast
<1>8. ASSUME NEW c \in Sockets, Register(c) \/ Remove(c) \/ WriterAsk(c) \/ WriterDone(c)
      PROVE  OnWayInv'
    BY <1>8, OnWaySocket
<1>9. CASE Restart
    BY <1>2, <1>9 DEF Restart
<1>10. CASE UNCHANGED vars
    BY <1>1, <1>10 DEF vars
<1> QED
    BY <1>3, <1>4, <1>5, <1>6, <1>7, <1>8, <1>9, <1>10 DEF Next, WatchRuns, Watch

\* The invariant holds from the start.
LEMMA StreamInvariant == Spec => []StreamInv
<1>1. Init => StreamInv
  <2> SUFFICES ASSUME Init PROVE StreamInv
      OBVIOUS
  <2>1. <<>> \o <<>> = <<>>
      BY NoTransactions, ConcatEmptySeq
  <2>2. OnWayInv
    <3>1. hand \o queue = <<>> /\ \A c \in Sockets : Way(c) = <<>>
        BY <2>1 DEF Init, Way
    <3> QED  BY <3>1, RunEmpty DEF OnWayInv
  <2> QED  BY <2>2 DEF Init, StreamInv, PositionInv, FreshInv, OnlyPosServers, GuardInv, Guarded
<1>2. TypeOK /\ StreamInv /\ [Next]_vars => StreamInv'
    BY PositionStep, FreshStep, GuardStep, OnWayStep DEF StreamInv
<1> QED  BY <1>1, <1>2, StreamTypeCorrect, PTL DEF Spec

\* A POS server is sent whole transactions, in commit order, none twice and
\* none left out, across restarts, re-logins and broadcasts in progress.
THEOREM WholeInOrderNoGapCorrect == Spec => []WholeInOrderNoGap
<1>1. OnWayInv => WholeInOrderNoGap
    BY DEF OnWayInv, WholeInOrderNoGap, RunOf, WholeOf, Whole
<1> QED  BY <1>1, StreamInvariant, PTL DEF StreamInv

\* Nobody but a POS server of the organization is sent a transaction, since
\* the guard under which its claims were looked at is kept until it is sent.
THEOREM OnlyPosServersCorrect == Spec => []OnlyPosServers
<1> QED  BY StreamInvariant, PTL DEF StreamInv

-----------------------------------------------------------------------------
(* ChangeStream implements ChangeFeed. *)

\* The transactions of a log, and the POS servers among the connections.
Committed(l) == [t \in 1..Len(l) |-> WholeOf(t, l)]
PosServers(k) == {c \in Sockets : k[c] = "pos"}

\* The mapping, named.
LEMMA FeedMapping ==
    /\ Committed(log) = [t \in 1..Len(log) |-> Whole(t)]
    /\ PosServers(claims) = {c \in Sockets : claims[c] = "pos"}
    /\ (Committed(log) = [t \in 1..Len(log) |-> Whole(t)])'
    /\ (PosServers(claims) = {c \in Sockets : claims[c] = "pos"})'
    BY DEF Committed, PosServers, WholeOf, Whole

\* A commit adds a transaction and changes no other.
LEMMA CommitMaps ==
    ASSUME TypeOK, DbCommit PROVE Feed!Commit
<1> DEFINE R == [events : 1..MaxEvents, unknown : BOOLEAN]
           C == Committed(log)
           D == Committed(log')
<1>1. PICK e \in R : log' = Append(log, e)
    BY DEF DbCommit
<1>2. log \in Seq(R) /\ claims' = claims /\ inbox' = inbox
    BY DEF TypeOK, DbCommit, session
<1>3. /\ Len(log) \in Nat /\ Len(log') = Len(log) + 1
      /\ \A t \in 1..Len(log) : log'[t] = log[t]
  <2> HIDE DEF R
  <2> QED  BY <1>1, <1>2, AppendProperties, LenProperties
<1>4. /\ Len(C) = Len(log) /\ Len(D) = Len(log')
      /\ \A t \in 1..Len(log) : C[t] = WholeOf(t, log) /\ D[t] = WholeOf(t, log')
    BY <1>3 DEF Committed
<1>5. \A t \in 1..Len(log) : D[t] = C[t]
    BY <1>3, <1>4 DEF WholeOf
<1> HIDE DEF C, D
<1>6. Len(D) = Len(C) + 1 /\ \A t \in 1..Len(C) : D[t] = C[t]
    BY <1>3, <1>4, <1>5
<1> QED  BY <1>2, <1>6, FeedMapping DEF Feed!Commit, C, D

\* A sequence that is not empty is as long as one at least.
LEMMA NotEmptyLen ==
    ASSUME NEW S, NEW s \in Seq(S), s # <<>> PROVE Len(s) \in Nat /\ Len(s) > 0
    BY LenProperties, EmptySeq

\* Where one transaction is, and the one before it, in what it stands in.
Around(s, h, q) ==
    /\ Len((s \o h) \o q) = Len(s) + 1 + Len(q)
    /\ ((s \o h) \o q)[Len(s) + 1] = h[1]
    /\ Len(s) > 0 => ((s \o h) \o q)[Len(s)] = s[Len(s)]
LEMMA AroundHand ==
    ASSUME NEW S, NEW s \in Seq(S), NEW h \in Seq(S), NEW q \in Seq(S), Len(h) = 1
    PROVE  Around(s, h, q)
<1> DEFINE u == s \o h
           w == u \o q
<1>1. Len(s) \in Nat /\ Len(q) \in Nat
    BY LenProperties
<1>2. /\ u \in Seq(S) /\ Len(u) = Len(s) + Len(h)
      /\ \A i \in 1..(Len(s) + Len(h)) : u[i] = IF i <= Len(s) THEN s[i] ELSE h[i - Len(s)]
    BY ConcatProperties, Zenon
<1> HIDE DEF u
<1>3. /\ Len(w) = Len(u) + Len(q)
      /\ \A i \in 1..(Len(u) + Len(q)) : w[i] = IF i <= Len(u) THEN u[i] ELSE q[i - Len(u)]
  <2>1. u \in Seq(S)
      BY <1>2
  <2> QED  BY <2>1, ConcatProperties, Zenon
<1> HIDE DEF w
<1>4. w[Len(s) + 1] = h[1] /\ (Len(s) > 0 => w[Len(s)] = s[Len(s)])
    BY <1>1, <1>2, <1>3
<1>5. Len(w) = Len(s) + 1 + Len(q)
    BY <1>1, <1>2, <1>3
<1> QED  BY <1>4, <1>5 DEF u, w, Around

\* The last transaction a connection was sent is the one before the one in hand.
LEMMA LastBeforeHand ==
    ASSUME TypeOK, StreamInv, NEW c \in todo
    PROVE  \E t \in 1..Len(log) :
              /\ hand = <<WholeOf(t, log)>>
              /\ inbox[c] # <<>> => t > 1 /\ inbox[c][Len(inbox[c])] = WholeOf(t - 1, log)
<1> DEFINE S == Seq(Event)
           w == (inbox[c] \o hand) \o queue
           n == Len(inbox[c])
           q == Len(queue)
           t == at - 1 - q
<1>1. /\ c \in Sockets /\ inbox[c] \in Seq(S) /\ hand \in Seq(S) /\ queue \in Seq(S)
      /\ at \in Nat /\ at <= Len(log) + 1 /\ Len(log) \in Nat /\ Len(hand) = 1
  <2>1. /\ c \in Sockets /\ inbox[c] \in Seq(S) /\ hand \in Seq(S) /\ queue \in Seq(S)
        /\ hand # <<>> /\ Len(hand) <= 1
      BY DEF TypeOK, Registered
  <2>2. at \in Nat /\ at <= Len(log) + 1 /\ Len(log) \in Nat
      BY LenProperties DEF TypeOK, StreamInv, PositionInv
  <2>3. Len(hand) = 1
    <3>1. Len(hand) \in Nat /\ Len(hand) > 0
      <4> HIDE DEF S
      <4> QED  BY <2>1, NotEmptyLen
    <3>2. Len(hand) <= 1
        BY <2>1
    <3> QED  BY <3>1, <3>2
  <2> QED  BY <2>1, <2>2, <2>3
<1>2. RunOf(w, at, log)
    BY <1>1, WayForms DEF StreamInv, OnWayInv
<1>3. n \in Nat /\ q \in Nat
    BY <1>1, LenProperties
<1>4. /\ Len(w) = n + 1 + q /\ w[n + 1] = hand[1] /\ (n > 0 => w[n] = inbox[c][n])
  <2>1. Around(inbox[c], hand, queue)
    <3> HIDE DEF S
    <3> QED  BY <1>1, AroundHand
  <2> QED  BY <2>1 DEF Around
<1> HIDE DEF w, n, q
<1>5. \A i \in 1..(n + 1 + q) : /\ at - 1 - (n + 1 + q) + i \in 1..(at - 1)
                                /\ w[i] = WholeOf(at - 1 - (n + 1 + q) + i, log)
    BY <1>2, <1>4 DEF RunOf
<1>6. t \in 1..(at - 1) /\ hand[1] = WholeOf(t, log)
  <2>1. n + 1 \in 1..(n + 1 + q) /\ at - 1 - (n + 1 + q) + (n + 1) = t
      BY <1>1, <1>3
  <2> QED  BY <1>4, <1>5, <2>1
<1>7. n > 0 => t - 1 \in 1..(at - 1) /\ inbox[c][n] = WholeOf(t - 1, log)
  <2>1. n > 0 => n \in 1..(n + 1 + q) /\ at - 1 - (n + 1 + q) + n = t - 1
      BY <1>1, <1>3
  <2> QED  BY <1>4, <1>5, <2>1
<1>8. hand = <<hand[1]>>
  <2> HIDE DEF S
  <2> QED  BY <1>1
<1>9. inbox[c] # <<>> => n > 0
    BY <1>1, <1>3, EmptySeq DEF n
<1>10. t \in 1..Len(log) /\ (n > 0 => t > 1)
    BY <1>1, <1>6, <1>7
<1> HIDE DEF t
<1> QED  BY <1>6, <1>7, <1>8, <1>9, <1>10 DEF n

\* Offering the transaction in hand to a connection sends it, to a POS server,
\* and otherwise changes nothing.
LEMMA OfferMaps ==
    ASSUME TypeOK, StreamInv, NEW c \in Sockets, Offered(c), UNCHANGED <<log, claims>>
    PROVE  [Feed!Next]_(Feed!vars)
<1>1. /\ c \in todo /\ log' = log /\ claims' = claims
      /\ inbox' = [inbox EXCEPT ![c] = IF claims[c] = "pos" THEN @ \o hand ELSE @]
    BY DEF Offered
<1>2. CASE claims[c] # "pos"
  <2>1. inbox' = inbox
      BY <1>1, <1>2 DEF TypeOK
  <2> QED  BY <1>1, <2>1, FeedMapping DEF Feed!vars
<1>3. CASE claims[c] = "pos"
  <2> DEFINE C == Committed(log)
  <2>1. PICK t \in 1..Len(log) :
            /\ hand = <<WholeOf(t, log)>>
            /\ inbox[c] # <<>> => t > 1 /\ inbox[c][Len(inbox[c])] = WholeOf(t - 1, log)
      BY <1>1, LastBeforeHand
  <2>2. Len(log) \in Nat /\ Len(C) = Len(log) /\ \A u \in 1..Len(log) : C[u] = WholeOf(u, log)
      BY LenProperties DEF Committed, TypeOK
  <2> HIDE DEF C
  <2>3. C[t] = WholeOf(t, log) /\ (inbox[c] # <<>> => C[t - 1] = WholeOf(t - 1, log))
      BY <2>1, <2>2
  <2>4. inbox[c] \o hand = Append(inbox[c], C[t])
    <3>1. inbox[c] \in Seq(Seq(Event)) /\ hand \in Seq(Seq(Event))
        BY DEF TypeOK
    <3>2. C[t] \in Seq(Event) /\ hand = <<C[t]>>
        BY <2>1, <2>3, <3>1
    <3> QED  BY <3>1, <3>2, AppendIsConcat
  <2>5. inbox' = [inbox EXCEPT ![c] = Append(@, C[t])]
      BY <1>1, <1>3, <2>4
  <2>6. inbox[c] # <<>> => t > 1 /\ inbox[c][Len(inbox[c])] = C[t - 1]
      BY <2>1, <2>3
  <2>7. Feed!Send(c, t)
      BY <1>1, <1>3, <2>5, <2>6, FeedMapping DEF Feed!Send, C
  <2>8. t \in 1..Len([u \in 1..Len(log) |-> Whole(u)])
      BY <2>2, FeedMapping DEF C
  <2> QED  BY <2>7, <2>8 DEF Feed!Next
<1> QED  BY <1>2, <1>3

\* A connection that comes, goes or logs in as someone else has been sent
\* nothing when it becomes a POS server, and has nothing when it is none.
LEMMA ChangeMaps ==
    ASSUME TypeOK, OnlyPosServers, claims' \in [Sockets -> Kinds \cup {"absent"}],
           inbox' \in [Sockets -> Seq(Seq(Event))], log' = log,
           \A c \in Sockets : \/ inbox'[c] = inbox[c] /\ (claims[c] = "pos" <=> claims'[c] = "pos")
                              \/ inbox'[c] = <<>> /\ ~(claims[c] = "pos" /\ claims'[c] = "pos")
    PROVE  \E now \in SUBSET Sockets : Feed!Change(now)
<1>1. PICK now \in SUBSET Sockets : now = PosServers(claims')
    BY DEF PosServers
<1> DEFINE g == [c \in Sockets |-> IF c \in PosServers(claims) \cap now THEN inbox[c] ELSE <<>>]
<1>2. \A c \in Sockets : inbox'[c] = g[c]
    BY <1>1 DEF OnlyPosServers, PosServers
<1>3. inbox' = g
    BY <1>2
<1>4. Committed(log') = Committed(log)
    OBVIOUS
<1>5. Feed!Change(now)
    BY <1>1, <1>3, <1>4, FeedMapping DEF Feed!Change
<1> QED  BY <1>5

\* Every step of the stream is a step of the feed or changes nothing of it.
LEMMA FeedNext ==
    ASSUME TypeOK, TypeOK', StreamInv, [Next]_vars PROVE [Feed!Next]_(Feed!vars)
<1> USE DEF slot, broadcast, session, ping
<1>1. ASSUME UNCHANGED <<log, claims, inbox>> PROVE [Feed!Next]_(Feed!vars)
    BY <1>1, FeedMapping DEF Feed!vars
<1>2. CASE DbCommit
    BY <1>2, CommitMaps DEF Feed!Next
<1>3. CASE \/ WatchRuns \/ KeepaliveAsks \/ WatchEnd \/ CastRecv \/ UNCHANGED vars
  <2>1. UNCHANGED <<log, claims, inbox>>
      BY <1>3
      DEF WatchRuns, Watch, WatchStart, WatchBegin, WatchEvent, WatchUnknown, WatchCommit,
          WatchKeepalive, KeepaliveAsks, WatchEnd, CastRecv, vars
  <2> QED  BY <1>1, <2>1
<1>4. ASSUME NEW c \in Sockets, CastNext(c) \/ CastFirst(c) \/ CastSecond(c)
      PROVE  [Feed!Next]_(Feed!vars)
  <2>1. UNCHANGED <<log, claims>> /\ (Offered(c) \/ UNCHANGED <<hand, todo, inbox>>)
      BY <1>4, CastForms DEF StreamInv
  <2> QED  BY <1>1, <2>1, OfferMaps
<1>5. /\ OnlyPosServers /\ claims' \in [Sockets -> Kinds \cup {"absent"}]
      /\ inbox' \in [Sockets -> Seq(Seq(Event))]
      /\ claims \in [Sockets -> Kinds \cup {"absent"}] /\ inbox \in [Sockets -> Seq(Seq(Event))]
    BY DEF TypeOK, StreamInv
<1>6. ASSUME NEW d \in Sockets, Register(d) \/ Remove(d) \/ WriterAsk(d) \/ WriterDone(d)
      PROVE  [Feed!Next]_(Feed!vars)
  <2> USE DEF Register, Remove, WriterAsk, WriterDone
  <2>1. log' = log
      BY <1>6
  <2>2. \A c \in Sockets : c # d => inbox'[c] = inbox[c] /\ claims'[c] = claims[c]
      BY <1>5, <1>6
  <2>3. \/ inbox'[d] = inbox[d] /\ claims'[d] = claims[d]
        \/ inbox'[d] = <<>> /\ ~(claims[d] = "pos" /\ claims'[d] = "pos")
      BY <1>5, <1>6 DEF OnlyPosServers
  <2> HIDE DEF Register, Remove, WriterAsk, WriterDone
  <2>4. \E now \in SUBSET Sockets : Feed!Change(now)
      BY <1>5, <2>1, <2>2, <2>3, ChangeMaps
  <2> QED  BY <2>4 DEF Feed!Next
<1>7. CASE Restart
  <2>1. /\ log' = log
        /\ \A c \in Sockets : inbox'[c] = <<>> /\ ~(claims[c] = "pos" /\ claims'[c] = "pos")
      BY <1>7 DEF Restart
  <2>2. \E now \in SUBSET Sockets : Feed!Change(now)
      BY <1>5, <2>1, ChangeMaps
  <2> QED  BY <2>2 DEF Feed!Next
<1> QED  BY <1>2, <1>3, <1>4, <1>6, <1>7 DEF Next, Cast

\* What the connections are sent is what ChangeFeed promises: step by step,
\* start_db_change_stream adds whole committed transactions one after the
\* other, and re-logins, removals and restarts start a connection from nothing.
THEOREM ImplementsChangeFeedCorrect == Spec => ImplementsChangeFeed
<1>1. Init => Feed!Init
  <2> SUFFICES ASSUME Init PROVE Feed!Init
      OBVIOUS
  <2>1. [t \in 1..Len(log) |-> Whole(t)] = <<>>
      BY DEF Init
  <2>2. {c \in Sockets : claims[c] = "pos"} = {}
      BY DEF Init
  <2> QED  BY <2>1, <2>2 DEF Init, Feed!Init
<1>2. TypeOK /\ TypeOK' /\ StreamInv /\ [Next]_vars => [Feed!Next]_(Feed!vars)
    BY FeedNext
<1> QED  BY <1>1, <1>2, StreamTypeCorrect, StreamInvariant, PTL
         DEF Spec, ImplementsChangeFeed, Feed!Spec
=============================================================================

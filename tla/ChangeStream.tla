---------------------------- MODULE ChangeStream ----------------------------
(***************************************************************************)
(* The change stream of one organization: the transactions its database    *)
(* commits go through a temporary logical replication slot (wal2json) to   *)
(* cdc::watch, which puts the events of each transaction together and      *)
(* sends them to start_db_change_stream over an unbounded channel; that    *)
(* task sends each transaction to every registered WebSocket of the        *)
(* organization whose claims are those of a POS server.                    *)
(*                                                                         *)
(* An event is <<t, k>>, the k-th of the t-th committed transaction, so    *)
(* that a property can tell where an event comes from; the code has no     *)
(* such name for it.                                                       *)
(***************************************************************************)
EXTENDS Integers, Sequences, FiniteSets

CONSTANTS
    Sockets,      \* WebSocket connections
    MaxTxns,      \* bound: transactions the database commits
    MaxEvents,    \* bound: events of a transaction
    MaxAsks,      \* bound: keepalives that ask for an answer
    MaxRestarts   \* bound: restarts of the server

ASSUME StreamBoundsAssumption ==
    MaxTxns \in Nat /\ MaxEvents \in Nat \ {0} /\ MaxAsks \in Nat /\ MaxRestarts \in Nat

VARIABLES
    log,       \* the committed transactions: how many events, and whether
               \* the last one is of a kind that Action does not know
    at,        \* what the slot sends next: the transaction ...
    offset,    \* ... and the message of it: 0 Begin, then events, then Commit
    watcher,   \* cdc::watch is setting its slot up, running, or has ended
    asked,     \* how often PostgreSQL asked for an answer, and ...
    pending,   \* ... whether it still waits for one
    partial,   \* its transaction: a sequence of at most one, of events
    queue,     \* the unbounded channel
    hand,      \* the transaction being broadcast: a sequence of at most one
    todo,      \* the registered connections it has still to be offered to
    stage,     \* what the broadcast does with each connection
    claims,    \* each connection: absent from WEBSOCKETS, or its kind
    writers,   \* the connections a handler asked the write guard of
    inbox,     \* what each connection was sent since it is a POS server
    restarts   \* how often the server was restarted

ping == <<asked, pending>>
vars == <<log, at, offset, watcher, ping, partial, queue, hand, todo, stage, claims, writers,
          inbox, restarts>>
slot == <<at, offset>>
broadcast == <<hand, todo, stage>>
session == <<claims, writers>>

Kinds == {"member", "pos", "foreign"}
Registered == {c \in Sockets : claims[c] # "absent"}

\* The transaction as a consumer should see it: all its events, in order.
Whole(t) == [k \in 1..log[t].events |-> <<t, k>>]

Init ==
    /\ log = <<>> /\ at = 1 /\ offset = 0
    /\ watcher = "starting" /\ asked = 0 /\ pending = FALSE /\ partial = <<>> /\ queue = <<>>
    /\ hand = <<>> /\ todo = {} /\ stage = [c \in Sockets |-> "none"]
    /\ claims = [c \in Sockets |-> "absent"] /\ writers = {}
    /\ inbox = [c \in Sockets |-> <<>>]
    /\ restarts = 0

-----------------------------------------------------------------------------
(* The database *)

\* A transaction is committed.  wal2json reports truncations and logical
\* messages too, with actions that the enum Action has no variant for.
DbCommit ==
    /\ Len(log) < MaxTxns
    /\ \E n \in 1..MaxEvents, unknown \in BOOLEAN :
           log' = Append(log, [events |-> n, unknown |-> unknown])
    /\ UNCHANGED <<slot, watcher, partial, queue, broadcast, session, inbox, ping, restarts>>

-----------------------------------------------------------------------------
(* cdc::watch: one action per message of the slot *)

\* CREATE_REPLICATION_SLOT: what is committed before it is not sent.  Then
\* START_REPLICATION, and a first status update.
WatchStart ==
    /\ watcher = "starting"
    /\ watcher' = "running" /\ at' = Len(log) + 1 /\ offset' = 0
    /\ UNCHANGED <<log, partial, queue, broadcast, session, inbox, ping, restarts>>

WatchBegin ==
    /\ watcher = "running" /\ at <= Len(log) /\ offset = 0
    /\ partial' = <<(<<>>)>> /\ offset' = 1
    /\ UNCHANGED <<log, at, watcher, queue, broadcast, session, inbox, ping, restarts>>

\* transaction.as_mut().unwrap(): Begin has always come before.
WatchEvent ==
    /\ watcher = "running" /\ at <= Len(log) /\ offset \in 1..log[at].events
    /\ ~(log[at].unknown /\ offset = log[at].events)
    /\ partial # <<>>
    /\ partial' = <<Append(partial[1], <<at, offset>>)>> /\ offset' = offset + 1
    /\ UNCHANGED <<log, at, watcher, queue, broadcast, session, inbox, ping, restarts>>

\* serde_json::from_slice::<Action>(..).unwrap() panics: the task and its
\* sender are gone.
WatchUnknown ==
    /\ watcher = "running" /\ at <= Len(log)
    /\ log[at].unknown /\ offset = log[at].events
    /\ watcher' = "ended" /\ partial' = <<>> /\ pending' = FALSE
    /\ UNCHANGED <<log, slot, asked, queue, broadcast, session, inbox, restarts>>

\* take() and tx.send(): the channel is unbounded, the send does not wait.
WatchCommit ==
    /\ watcher = "running" /\ at <= Len(log) /\ offset = log[at].events + 1
    /\ queue' = queue \o partial /\ partial' = <<>>
    /\ at' = at + 1 /\ offset' = 0
    /\ UNCHANGED <<log, watcher, broadcast, session, inbox, ping, restarts>>

\* A keepalive that asks for an answer; PostgreSQL sends it between two
\* messages, also in the middle of a transaction.
KeepaliveAsks ==
    /\ watcher = "running" /\ ~pending /\ asked < MaxAsks
    /\ pending' = TRUE /\ asked' = asked + 1
    /\ UNCHANGED <<log, slot, watcher, partial, queue, broadcast, session, inbox, restarts>>
\* Mutant: the answer to a keepalive starts the transaction over.
WatchKeepaliveResets ==
    /\ watcher = "running" /\ pending
    /\ pending' = FALSE /\ partial' = IF partial = <<>> THEN <<>> ELSE <<(<<>>)>>
    /\ UNCHANGED <<log, slot, watcher, asked, queue, broadcast, session, inbox, restarts>>

\* The status update; the transaction in progress is kept.
WatchKeepalive ==
    /\ watcher = "running" /\ pending
    /\ pending' = FALSE
    /\ UNCHANGED <<log, slot, watcher, asked, partial, queue, broadcast, session, inbox,
                   restarts>>

\* The replication connection ends (None), because PostgreSQL did not get its
\* answer in time or otherwise, or an unwrap fails while the slot is set up:
\* the task is over for good.
WatchEnd ==
    /\ watcher \in {"starting", "running"}
    /\ watcher' = "ended" /\ partial' = <<>> /\ pending' = FALSE
    /\ UNCHANGED <<log, slot, asked, queue, broadcast, session, inbox, restarts>>

-----------------------------------------------------------------------------
(* start_db_change_stream *)

\* The message is sent to, or not meant for, c: the loop goes on.
Leave(c) ==
    /\ todo' = todo \ {c}
    /\ hand' = IF todo = {c} THEN <<>> ELSE hand
    /\ stage' = [stage EXCEPT ![c] = "none"]
\* Mutant: the session is cloned and the first guard dropped with it.
GuardedClone(c) == stage[c] = "stuck"

\* `let session = &s.1.read().await.session` keeps the read guard to the end
\* of the loop's body: while the second guard is asked and while a send waits.
Guarded(c) == stage[c] \in {"second", "stuck"}

\* Mutant: the transaction is looked at and stays in the channel.
CastRecvPeek ==
    /\ hand = <<>> /\ queue # <<>>
    /\ todo' = Registered
    /\ hand' = IF Registered = {} THEN <<>> ELSE <<Head(queue)>>
    /\ UNCHANGED <<log, slot, watcher, partial, queue, stage, session, inbox, ping, restarts>>

\* The read lock of WEBSOCKETS is held from here until all were offered it.
CastRecv ==
    /\ hand = <<>> /\ queue # <<>>
    /\ queue' = Tail(queue)
    /\ todo' = Registered
    /\ hand' = IF Registered = {} THEN <<>> ELSE <<Head(queue)>>
    /\ UNCHANGED <<log, slot, watcher, partial, stage, session, inbox, ping, restarts>>

\* The next connection of the map's iterator, in an order of its own; the
\* task asks for its read guard.
CastNext(c) ==
    /\ c \in todo /\ \A d \in Sockets : stage[d] = "none"
    /\ stage' = [stage EXCEPT ![c] = "first"]
    /\ UNCHANGED <<log, slot, watcher, partial, queue, hand, todo, session, inbox, ping, restarts>>

\* The first guard is given, which a writer that came before holds up, and the
\* claims are looked at: only a POS server of the organization is sent the
\* message, and for it the guard is asked for once more.
CastFirst(c) ==
    /\ stage[c] = "first" /\ c \notin writers
    /\ IF claims[c] = "pos"
         THEN stage' = [stage EXCEPT ![c] = "second"] /\ UNCHANGED <<hand, todo>>
         ELSE Leave(c)
    /\ UNCHANGED <<log, slot, watcher, partial, queue, session, inbox, ping, restarts>>

\* The second guard is given, unless a writer stands in line, which waits for
\* the first one.  The send ends, or waits for ever on a bounded channel that
\* is full and whose client reads no more.
CastSecond(c) ==
    /\ stage[c] = "second" /\ c \notin writers
    /\ \/ inbox' = [inbox EXCEPT ![c] = @ \o hand] /\ Leave(c)
       \/ stage' = [stage EXCEPT ![c] = "stuck"] /\ UNCHANGED <<hand, todo, inbox>>
    /\ UNCHANGED <<log, slot, watcher, partial, queue, session, ping, restarts>>

-----------------------------------------------------------------------------
(* WEBSOCKETS: insert and remove need the write lock *)

Register(c) ==
    /\ claims[c] = "absent" /\ todo = {}
    /\ \E k \in Kinds : claims' = [claims EXCEPT ![c] = k]
    /\ UNCHANGED <<log, slot, watcher, partial, queue, broadcast, writers, inbox, ping, restarts>>

\* The connection's handlers have ended before it is removed.
Remove(c) ==
    /\ claims[c] # "absent" /\ c \notin writers /\ todo = {}
    /\ claims' = [claims EXCEPT ![c] = "absent"]
    /\ inbox' = [inbox EXCEPT ![c] = <<>>]
    /\ UNCHANGED <<log, slot, watcher, partial, queue, broadcast, writers, ping, restarts>>

-----------------------------------------------------------------------------
(* A handler of a registered connection that needs the write guard: login,  *)
(* authenticate, and what begins or ends the session's transaction          *)

\* tokio's lock is fair: from now on readers that come wait for the writer.
\* (One that comes while the broadcast asks for its first guard is behind it
\* in line; it is let ask once that guard is given.)
WriterAsk(c) ==
    /\ c \in Registered \ writers /\ stage[c] # "first"
    /\ writers' = writers \cup {c}
    /\ UNCHANGED <<log, slot, watcher, partial, queue, broadcast, claims, inbox, ping, restarts>>

\* The guard is given, used and dropped; the claims may be others then.
WriterDone(c) ==
    /\ c \in writers /\ ~Guarded(c)
    /\ writers' = writers \ {c}
    /\ \E k \in Kinds :
           /\ k = "foreign" <=> claims[c] = "foreign"
           /\ claims' = [claims EXCEPT ![c] = k]
           /\ inbox' = [inbox EXCEPT ![c] = IF k = claims[c] THEN @ ELSE <<>>]
    /\ UNCHANGED <<log, slot, watcher, partial, queue, broadcast, ping, restarts>>

\* The server restarts: the slot was temporary, and connections, channel and
\* transaction in progress are gone.
Restart ==
    /\ restarts < MaxRestarts
    /\ restarts' = restarts + 1
    /\ watcher' = "starting" /\ partial' = <<>> /\ pending' = FALSE /\ queue' = <<>>
    /\ hand' = <<>> /\ todo' = {} /\ stage' = [c \in Sockets |-> "none"]
    /\ claims' = [c \in Sockets |-> "absent"] /\ writers' = {}
    /\ inbox' = [c \in Sockets |-> <<>>]
    /\ UNCHANGED <<log, slot, asked>>

-----------------------------------------------------------------------------
Watch == WatchBegin \/ WatchEvent \/ WatchUnknown \/ WatchCommit
WatchRuns == WatchStart \/ Watch \/ WatchKeepalive
Cast == CastRecv \/ \E c \in Sockets : CastNext(c) \/ CastFirst(c) \/ CastSecond(c)

Next ==
    \/ DbCommit \/ WatchRuns \/ KeepaliveAsks \/ WatchEnd \/ Cast \/ Restart
    \/ \E c \in Sockets : Register(c) \/ Remove(c) \/ WriterAsk(c) \/ WriterDone(c)

\* The two tasks run as far as the locks and the channels let them;
\* connections, their handlers, the database and restarts need not.
Spec == Init /\ [][Next]_vars
FairSpec == Spec /\ WF_vars(WatchStart) /\ WF_vars(Watch) /\ WF_vars(WatchKeepalive) /\ WF_vars(Cast)

-----------------------------------------------------------------------------
(* Properties *)

Event == (1..MaxTxns) \X (1..MaxEvents)

\* Types; between Begin and Commit, and only then, there is a transaction.
TypeOK ==
    /\ log \in Seq([events : 1..MaxEvents, unknown : BOOLEAN]) /\ Len(log) <= MaxTxns
    /\ at \in 1..(MaxTxns + 1) /\ offset \in 0..(MaxEvents + 1)
    /\ watcher \in {"starting", "running", "ended"}
    /\ asked \in 0..MaxAsks /\ pending \in BOOLEAN
    /\ partial \in Seq(Seq(Event)) /\ queue \in Seq(Seq(Event)) /\ hand \in Seq(Seq(Event))
    /\ Len(hand) <= 1 /\ (hand = <<>> <=> todo = {})
    /\ Len(partial) = IF watcher = "running" /\ offset > 0 THEN 1 ELSE 0
    /\ todo \subseteq Registered /\ writers \subseteq Registered
    /\ stage \in [Sockets -> {"none", "first", "second", "stuck"}]
    /\ \A c \in Sockets : stage[c] # "none" =>
           c \in todo /\ \A d \in Sockets \ {c} : stage[d] = "none"
    /\ claims \in [Sockets -> Kinds \cup {"absent"}]
    /\ inbox \in [Sockets -> Seq(Seq(Event))]
    /\ restarts \in 0..MaxRestarts

\* From the slot to a connection: the transactions it was sent, those of the
\* broadcast that has still to reach it and those that wait in the channel.
Way(c) == inbox[c] \o (IF c \in todo THEN hand ELSE <<>>) \o queue

\* A POS server is sent whole transactions, in commit order, without a gap or
\* a repetition from the first one on; nothing that was committed before the
\* slot is read, or read before the connection was a POS server, gets mixed
\* in, and the last one on the way is the last one watch has completed.
WholeInOrderNoGap ==
    \A c \in Sockets : claims[c] = "pos" =>
        /\ \A i \in 1..Len(Way(c)) :
               LET t == at - 1 - Len(Way(c)) + i IN t \in 1..(at - 1) /\ Way(c)[i] = Whole(t)

\* No transaction reaches a connection that is not a POS server of the
\* organization, although its handlers may log it in as someone else at any
\* time, between the look at its claims and the send too.
OnlyPosServers == \A c \in Sockets : claims[c] # "pos" => inbox[c] = <<>>

\* Step by step, through restarts, re-logins, a broadcast in progress and the
\* end of watch, the connections see what ChangeFeed promises: whole committed
\* transactions are added one at a time, and nothing else happens to them.
Feed == INSTANCE ChangeFeed WITH committed <- [t \in 1..Len(log) |-> Whole(t)],
                                 pos <- {c \in Sockets : claims[c] = "pos"}, got <- inbox
ImplementsChangeFeed == Feed!Spec

Received(c, t) == t <= Len(log) /\ \E i \in 1..Len(inbox[c]) : inbox[c][i] = Whole(t)

\* The broadcast does not get on: its first guard is held up by a writer, its
\* second one by a writer that waits for the first, or its send by a channel
\* that stays full.  WEBSOCKETS is locked all the while.
CastStuck ==
    \E c \in Sockets : stage[c] = "stuck" \/ (stage[c] # "none" /\ c \in writers)

=============================================================================

----------------------------- MODULE ChangeFeed -----------------------------
(***************************************************************************)
(* What the change stream promises the POS servers of an organization, if  *)
(* it promises nothing of when: a connection that is one is sent whole     *)
(* committed transactions, one after the other in the order of the commits *)
(* from some transaction on; what it was sent is never taken back or       *)
(* changed while it stays one, and no other connection is sent anything.   *)
(* ChangeStream is shown to implement this.                                *)
(***************************************************************************)
EXTENDS Naturals, Sequences

CONSTANT Sockets

VARIABLES
    committed,  \* the transactions, in the order of the commits
    pos,        \* the connections that are POS servers
    got         \* what each was sent since it is one

vars == <<committed, pos, got>>

Init ==
    /\ committed = <<>> /\ pos = {}
    /\ got = [c \in Sockets |-> <<>>]

Commit ==
    /\ Len(committed') = Len(committed) + 1
    /\ \A t \in 1..Len(committed) : committed'[t] = committed[t]
    /\ UNCHANGED <<pos, got>>

Send(c, t) ==
    /\ c \in pos
    /\ got[c] # <<>> => t > 1 /\ got[c][Len(got[c])] = committed[t - 1]
    /\ got' = [got EXCEPT ![c] = Append(@, committed[t])]
    /\ UNCHANGED <<committed, pos>>

\* Connections come and go and log in as someone else, one at a time or, when
\* the server restarts, all at once.
Change(now) ==
    /\ pos' = now
    /\ got' = [c \in Sockets |-> IF c \in pos \cap now THEN got[c] ELSE <<>>]
    /\ UNCHANGED committed

Next ==
    \/ Commit
    \/ \E c \in Sockets, t \in 1..Len(committed) : Send(c, t)
    \/ \E now \in SUBSET Sockets : Change(now)

Spec == Init /\ [][Next]_vars
=============================================================================

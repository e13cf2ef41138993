----------------------------- MODULE RemoteCall -----------------------------
(***************************************************************************)
(* What TenantDB promises for query, login, authenticate and stream: a     *)
(* call is performed by the server once at most, and it returns once, with *)
(* success only if it was performed.  An error says nothing, nor does      *)
(* authenticate, which is always Ok: the server may have performed the     *)
(* call, or may perform it later.  ClientRouter and WasmRouter are shown   *)
(* to implement this.                                                      *)
(***************************************************************************)
EXTENDS Naturals

CONSTANT Calls

VARIABLES
    status,     \* the caller's view of each call
    performed   \* how often the server performed it

vars == <<status, performed>>

Init ==
    /\ status = [c \in Calls |-> "idle"]
    /\ performed = [c \in Calls |-> 0]

Issue(c) ==
    /\ status[c] = "idle"
    /\ status' = [status EXCEPT ![c] = "waiting"]
    /\ UNCHANGED performed

Perform(c) ==
    /\ status[c] # "idle" /\ performed[c] = 0
    /\ performed' = [performed EXCEPT ![c] = 1]
    /\ UNCHANGED status

Succeed(c) ==
    /\ status[c] = "waiting" /\ performed[c] = 1
    /\ status' = [status EXCEPT ![c] = "ok"]
    /\ UNCHANGED performed

\* Calls whose fate their callers do not learn.  Losing a connection ends
\* several at once, and the server may still perform some of what it had
\* received.
Fail(lost, late) ==
    /\ \A c \in lost : status[c] = "waiting"
    /\ \A c \in late : status[c] # "idle" /\ performed[c] = 0
    /\ status' = [c \in Calls |-> IF c \in lost THEN "unknown" ELSE status[c]]
    /\ performed' = [c \in Calls |-> IF c \in late THEN 1 ELSE performed[c]]

Next ==
    \/ \E c \in Calls : Issue(c) \/ Perform(c) \/ Succeed(c)
    \/ \E lost, late \in SUBSET Calls : Fail(lost, late)

Spec == Init /\ [][Next]_vars
=============================================================================

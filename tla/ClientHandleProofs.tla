------------------------- MODULE ClientHandleProofs -------------------------
(* Theorems about ClientHandle, for any set of tasks and any number of     *)
(* calls.                                                                  *)
EXTENDS ClientHandle, TLAPS

\* Every step keeps the types.
LEMMA TypeStep == TypeOK /\ [Next]_vars => TypeOK'
<1> SUFFICES ASSUME TypeOK, [Next]_vars PROVE TypeOK'
    OBVIOUS
<1> USE HandleAssumption DEF TypeOK
<1>1. ASSUME NEW t \in Tasks, MakeInit(t) \/ MakeNew(t) \/ Drop(t) PROVE TypeOK'
    BY <1>1 DEF MakeInit, MakeNew, Drop
<1>2. ASSUME NEW t \in Tasks, ConnectCheck(t) \/ ConnectOpen(t) \/ ConnectSet(t)
      PROVE TypeOK'
    BY <1>2 DEF ConnectCheck, ConnectOpen, ConnectSet
<1>3. ASSUME NEW t \in Tasks, CallDone(t) PROVE TypeOK'
    BY <1>3 DEF CallDone, Panic
<1>4. ASSUME NEW t \in Tasks, RouterQuit(t) PROVE TypeOK'
    BY <1>4 DEF RouterQuit
<1>5. ASSUME NEW t \in Tasks, NEW u \in Tasks, Clone(t, u) PROVE TypeOK'
    BY <1>5 DEF Clone
<1>6. ASSUME NEW t \in Tasks, NEW k \in Kinds, Call(t, k) PROVE TypeOK'
    BY <1>6 DEF Call, Panic
<1>7. CASE UNCHANGED vars
    BY <1>7 DEF vars
<1> QED  BY <1>1, <1>2, <1>3, <1>4, <1>5, <1>6, <1>7 DEF Next

\* The state of the handle is always of its types.
THEOREM HandleTypeCorrect == Spec => []TypeOK
<1>1. Init => TypeOK
    BY HandleAssumption DEF Init, TypeOK
<1> QED  BY <1>1, TypeStep, PTL DEF Spec

-----------------------------------------------------------------------------
(* What makes the unwraps safe. *)

\* Before it is made there is no handle, and so no connect and no operation.
NothingYet ==
    made = "none" =>
        /\ cell = None /\ holders = {} /\ panicked = {}
        /\ \A t \in Tasks : future[t] = "none" /\ result[t] = "none"

\* An operation borrows the handle of its task.
CallerHolds == \A t \in Tasks : calling[t] # "none" => t \in holders

\* A handle made by new() has its router for as long as somebody has a clone.
NewHasRouter ==
    made = "new" =>
        /\ cell \in Tasks
        /\ holders # {} => router[cell] = "running"

\* The inductive invariant: what the connects leave in the OnceLock, and what
\* an operation of a handle made by new() finds.
HandleInv == NothingYet /\ CallerHolds /\ NewHasRouter /\ OkIsInUse /\ NewNeverPanics

\* Every step keeps it.
LEMMA HandleStep == TypeOK /\ HandleInv /\ [Next]_vars => HandleInv'
<1> SUFFICES ASSUME TypeOK, HandleInv, [Next]_vars PROVE HandleInv'
    OBVIOUS
<1> USE HandleAssumption
        DEF TypeOK, HandleInv, NothingYet, CallerHolds, NewHasRouter, OkIsInUse, NewNeverPanics
<1>1. ASSUME NEW t \in Tasks, MakeInit(t) PROVE HandleInv'
    BY <1>1 DEF MakeInit
<1>2. ASSUME NEW t \in Tasks, MakeNew(t) PROVE HandleInv'
    BY <1>2 DEF MakeNew
<1>3. ASSUME NEW t \in Tasks, Drop(t) PROVE HandleInv'
    BY <1>3 DEF Drop
<1>4. ASSUME NEW t \in Tasks, ConnectCheck(t) PROVE HandleInv'
    BY <1>4 DEF ConnectCheck
<1>5. ASSUME NEW t \in Tasks, ConnectOpen(t) PROVE HandleInv'
    BY <1>5 DEF ConnectOpen
<1>6. ASSUME NEW t \in Tasks, ConnectSet(t) PROVE HandleInv'
    BY <1>6 DEF ConnectSet
<1>7. ASSUME NEW t \in Tasks, CallDone(t) PROVE HandleInv'
    BY <1>7 DEF CallDone, Panic, ParamSent
<1>8. ASSUME NEW t \in Tasks, RouterQuit(t) PROVE HandleInv'
    BY <1>8 DEF RouterQuit, RouterHeld, CellHeld
<1>9. ASSUME NEW t \in Tasks, NEW u \in Tasks, Clone(t, u) PROVE HandleInv'
    BY <1>9 DEF Clone
<1>10. ASSUME NEW t \in Tasks, NEW k \in Kinds, Call(t, k) PROVE HandleInv'
    BY <1>10 DEF Call, Panic, ParamSent
<1>11. CASE UNCHANGED vars
    BY <1>11 DEF vars
<1> QED
    BY <1>1, <1>2, <1>3, <1>4, <1>5, <1>6, <1>7, <1>8, <1>9, <1>10, <1>11 DEF Next

\* The invariant holds from the start.
LEMMA HandleInvariant == Spec => []HandleInv
<1>1. Init => HandleInv
    BY HandleAssumption DEF Init, HandleInv, NothingYet, CallerHolds, NewHasRouter, OkIsInUse,
                            NewNeverPanics
<1> QED  BY <1>1, HandleTypeCorrect, HandleStep, PTL DEF Spec

\* Of all the connects that ran at once at most one returned Ok, and it is
\* its connection that every clone uses.
THEOREM OkIsInUseCorrect == Spec => []OkIsInUse
<1>1. HandleInv => OkIsInUse
    BY DEF HandleInv
<1> QED  BY <1>1, HandleInvariant, PTL

\* No operation of a handle made by new() panics in its unwraps, whatever
\* clones are dropped meanwhile.
THEOREM NewNeverPanicsCorrect == Spec => []NewNeverPanics
<1>1. HandleInv => NewNeverPanics
    BY DEF HandleInv
<1> QED  BY <1>1, HandleInvariant, PTL
=============================================================================

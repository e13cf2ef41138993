---------------------------- MODULE ServerProofs ----------------------------
(* Theorems about Server, for any sets of organizations, calls and clients *)
(* and any number of restarts.                                             *)
EXTENDS Server, TLAPS

\* Every step keeps the types.
LEMMA TypeStep == TypeOK /\ [Next]_vars => TypeOK'
<1> SUFFICES ASSUME TypeOK, [Next]_vars PROVE TypeOK'
    OBVIOUS
<1> USE ServerAssumption
        DEF TypeOK, Busy, storage, registry, sockets, stopping
<1>1. CASE MainList
    BY <1>1 DEF MainList
<1>2. CASE MainServe
    BY <1>2 DEF MainServe
<1>3. ASSUME NEW o \in Orgs, MainConnect(o) PROVE TypeOK'
    BY <1>3 DEF MainConnect
<1>4. ASSUME NEW how \in {"stopped", "crashed"}, ProcessEnds(how) PROVE TypeOK'
    BY <1>4 DEF ProcessEnds
<1>5. CASE Signal \/ SecondSignal \/ Graceful
    BY <1>5 DEF Signal, SecondSignal, Graceful, GracefulHttp, GracefulLock, GracefulCancel,
                GracefulDone
<1>6. ASSUME NEW i \in Inits, InitCreate(i) PROVE TypeOK'
    BY <1>6 DEF InitCreate, To
<1>7. ASSUME NEW i \in Inits, InitFill(i) PROVE TypeOK'
    BY <1>7 DEF InitFill, To
<1>8. ASSUME NEW i \in Inits, InitFails(i) PROVE TypeOK'
    BY <1>8 DEF InitFails, To
<1>9. ASSUME NEW i \in Inits, InitRegister(i) PROVE TypeOK'
    BY <1>9, ZenonT(30) DEF InitRegister
<1>10. ASSUME NEW i \in Inits, NEW o \in Orgs, InitCheck(i, o) PROVE TypeOK'
    BY <1>10 DEF InitCheck
<1>11. ASSUME NEW s \in Sockets,
              SocketRequest(s) \/ SocketUpgrade(s) \/ SocketRegister(s) \/ SocketEnd(s)
       PROVE TypeOK'
    BY <1>11 DEF SocketRequest, SocketUpgrade, SocketRegister, SocketEnd
<1>12. CASE UNCHANGED vars
    BY <1>12 DEF vars
<1> QED
    BY <1>1, <1>2, <1>3, <1>4, <1>5, <1>6, <1>7, <1>8, <1>9, <1>10, <1>11, <1>12
    DEF Next, Main, InitStep, Crash, ServeReturns

\* The state of the server is always of its types.
THEOREM ServerTypeCorrect == Spec => []TypeOK
<1>1. Init => TypeOK
  <2> SUFFICES ASSUME Init PROVE TypeOK
      OBVIOUS
  <2> DEFINE any == CHOOSE o \in Orgs : TRUE
  <2>1. any \in Orgs
      BY ServerAssumption
  <2>2. init = [i \in Inits |-> [at |-> "idle", org |-> any, since |-> 0]]
      BY DEF Init
  <2>3. /\ database = [o \in Orgs |-> "absent"] /\ process = "stopped" /\ starts = 0
        /\ listed = {} /\ pools = {} /\ streams = {}
        /\ socket = [s \in Sockets |-> "none"] /\ websockets = {} /\ cancelled = {}
        /\ graceful = "idle" /\ forced = FALSE
      BY DEF Init
  <2> HIDE DEF any
  <2>4. init \in [Inits -> [at : Busy \cup {"idle", "ok", "error"}, org : Orgs,
                            since : 0..MaxStarts]]
      BY <2>1, <2>2, ServerAssumption
  <2>5. database \in [Orgs -> {"absent", "empty", "filled"}]
      BY <2>3
  <2>6. socket \in [Sockets -> {"none", "http", "upgraded", "open", "gone"}]
      BY <2>3
  <2>7. starts \in 0..MaxStarts
      BY <2>3, ServerAssumption
  <2> QED  BY <2>3, <2>4, <2>5, <2>6, <2>7, Zenon DEF TypeOK
<1> QED  BY <1>1, TypeStep, PTL DEF Spec

-----------------------------------------------------------------------------
(* What relates PostgreSQL, the calls of /org-init and the registry. *)

\* A call is only at work while the process serves: it ends with it.
BusyIsServing == \A i \in Inits : init[i].at \in Busy => process = "serving"

\* Only databases that exist are listed, have a pool, or are reported.
KnownExists ==
    /\ \A o \in listed \cup pools : database[o] # "absent"
    /\ \A i \in Inits : init[i].at \in {"register", "ok"} => database[init[i].org] # "absent"

\* Every empty database has the call that created it, which still fills it or
\* left it behind.
EmptyHasFiller ==
    \A o \in Orgs : database[o] = "empty" =>
        \E i \in Inits : init[i].org = o /\ init[i].at \in {"fill", "error"}

\* While main starts, what an earlier process reported has its change stream
\* or is still on the list.
StartCoversOk ==
    \A i \in Inits : init[i].at = "ok" =>
        /\ init[i].since <= starts
        /\ process = "starting" =>
               init[i].since < starts /\ init[i].org \in listed \cup streams

\* The inductive invariant.
RegistryInv ==
    /\ BusyIsServing /\ KnownExists /\ EmptyHasFiller /\ StartCoversOk
    /\ OneFiller /\ OkIsServed

\* Every step keeps it.
LEMMA RegistryStep == TypeOK /\ RegistryInv /\ [Next]_vars => RegistryInv'
<1> SUFFICES ASSUME TypeOK, RegistryInv, [Next]_vars PROVE RegistryInv'
    OBVIOUS
<1> USE ServerAssumption
        DEF TypeOK, RegistryInv, BusyIsServing, KnownExists, EmptyHasFiller, StartCoversOk,
            OneFiller, OkIsServed, Busy, storage, registry, sockets, stopping
<1>1. CASE MainList
    BY <1>1 DEF MainList, Down
<1>2. CASE MainServe
    BY <1>2 DEF MainServe
<1>3. ASSUME NEW o \in Orgs, MainConnect(o) PROVE RegistryInv'
    BY <1>3 DEF MainConnect
<1>4. ASSUME NEW how \in {"stopped", "crashed"}, ProcessEnds(how) PROVE RegistryInv'
    BY <1>4 DEF ProcessEnds
<1>5. CASE Signal \/ SecondSignal \/ Graceful
    BY <1>5 DEF Signal, SecondSignal, Graceful, GracefulHttp, GracefulLock, GracefulCancel,
                GracefulDone
<1>6. ASSUME NEW i \in Inits, InitCreate(i) PROVE RegistryInv'
    BY <1>6 DEF InitCreate, To
<1>7. ASSUME NEW i \in Inits, InitFill(i) PROVE RegistryInv'
    BY <1>7 DEF InitFill, To
<1>8. ASSUME NEW i \in Inits, InitFails(i) PROVE RegistryInv'
    BY <1>8 DEF InitFails, To
<1>9. ASSUME NEW i \in Inits, InitRegister(i) PROVE RegistryInv'
    BY <1>9 DEF InitRegister
<1>10. ASSUME NEW i \in Inits, NEW o \in Orgs, InitCheck(i, o) PROVE RegistryInv'
    BY <1>10 DEF InitCheck, Accepting
<1>11. ASSUME NEW s \in Sockets,
              SocketRequest(s) \/ SocketUpgrade(s) \/ SocketRegister(s) \/ SocketEnd(s)
       PROVE RegistryInv'
    BY <1>11 DEF SocketRequest, SocketUpgrade, SocketRegister, SocketEnd
<1>12. CASE UNCHANGED vars
    BY <1>12 DEF vars
<1> QED
    BY <1>1, <1>2, <1>3, <1>4, <1>5, <1>6, <1>7, <1>8, <1>9, <1>10, <1>11, <1>12
    DEF Next, Main, InitStep, Crash, ServeReturns

\* The invariant holds from the start.
LEMMA RegistryInvariant == Spec => []RegistryInv
<1>1. Init => RegistryInv
    BY ServerAssumption
    DEF Init, RegistryInv, BusyIsServing, KnownExists, EmptyHasFiller, StartCoversOk, OneFiller,
        OkIsServed, Busy
<1> QED  BY <1>1, ServerTypeCorrect, RegistryStep, PTL DEF Spec

\* An organization that was reported as created is served for as long as the
\* process serves, and again, with its change stream, after every restart.
THEOREM OkIsServedCorrect == Spec => []OkIsServed
<1>1. RegistryInv => OkIsServed
    BY DEF RegistryInv
<1> QED  BY <1>1, RegistryInvariant, PTL

\* The scripts run at most once over a database, and only over an empty one.
THEOREM OneFillerCorrect == Spec => []OneFiller
<1>1. RegistryInv => OneFiller
    BY DEF RegistryInv
<1> QED  BY <1>1, RegistryInvariant, PTL

\* Only a database whose creation is not finished, or was cut off, is ever
\* served empty.
THEOREM EmptyIsUnfinishedCorrect == Spec => []EmptyIsUnfinished
<1>1. TypeOK /\ RegistryInv => EmptyIsUnfinished
    BY DEF TypeOK, RegistryInv, KnownExists, EmptyHasFiller, EmptyIsUnfinished
<1> QED  BY <1>1, ServerTypeCorrect, RegistryInvariant, PTL
=============================================================================

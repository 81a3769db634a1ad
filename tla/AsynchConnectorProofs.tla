------------------------- MODULE AsynchConnectorProofs -------------------------
(***************************************************************************)
(* Proofs about AsynchConnector, for any sets of clients and descriptors.  *)
(***************************************************************************)
EXTENDS AsynchConnector, TLAPS

(***************************************************************************)
(* Nobody has called the connector: every conjunct of IInv holds.          *)
(***************************************************************************)
LEMMA InitIInv == Init => IInv
BY ConstantsAssumption
   DEF Init, IInv, TypeOK, ResultKnown, SocketsOwned, EntriesCurrent, NothingLeftPending,
       Sockets, Steps, Connecting, Blocked, Results

(***************************************************************************)
(* Every step keeps the types: a client that is not idle has a descriptor. *)
(***************************************************************************)
LEMMA TypeStep ==
  ASSUME TypeOK, ResultKnown, [Next]_vars
  PROVE  TypeOK'
<1> USE DEF TypeOK, Go, Become, Results, Dispatched, Sockets, Connecting, Blocked, Steps
<1>1. ASSUME NEW c \in Clients, NEW h \in Descriptors, Socket(c, h)
      PROVE  TypeOK'
  BY <1>1 DEF Socket
<1>2. ASSUME NEW c \in Clients, SetOptionFails(c)
      PROVE  TypeOK'
  BY <1>2 DEF SetOptionFails
<1>3. ASSUME NEW c \in Clients, Insert(c)
      PROVE  TypeOK'
  BY <1>3 DEF Insert
<1>4. ASSUME NEW c \in Clients, Connect(c)
      PROVE  TypeOK'
  BY <1>4 DEF Connect
<1>5. ASSUME NEW c \in Clients, ConnectFails(c)
      PROVE  TypeOK'
  BY <1>5 DEF ConnectFails
<1>6. ASSUME NEW c \in Clients, CloseSocket(c)
      PROVE  TypeOK'
  BY <1>6 DEF CloseSocket
<1>7. ASSUME NEW c \in Clients, Erase(c)
      PROVE  TypeOK'
  BY <1>7 DEF Erase
<1>8. ASSUME NEW c \in Clients, NEW timed \in BOOLEAN, Wait(c, timed)
      PROVE  TypeOK'
  BY <1>8 DEF Wait
<1>9. ASSUME NEW c \in Clients, TimesOut(c)
      PROVE  TypeOK'
  BY <1>9 DEF TimesOut
<1>10. ASSUME NEW c \in Clients, ReadResult(c)
       PROVE  TypeOK'
  BY <1>10 DEF ReadResult
<1>11. ASSUME NEW c \in Clients, Forget(c)
       PROVE  TypeOK'
  BY <1>11 DEF Forget
<1>12. ASSUME NEW h \in Descriptors, Dispatch(h)
       PROVE  TypeOK'
  <2>1. CASE Complete(h)
    BY <2>1 DEF Complete
  <2>2. CASE Record(h)
    BY <2>2 DEF Record, ResultKnown
  <2>3. CASE Broadcast(h)
    BY <2>3 DEF Broadcast
  <2>4. CASE OpenHandler(h) \/ CloseFailed(h) \/ HandlerCloses(h)
    BY <2>4 DEF OpenHandler, CloseFailed, HandlerCloses
  <2> QED
    BY <1>12, <2>1, <2>2, <2>3, <2>4 DEF Dispatch
<1>13. CASE Abort
  BY <1>13 DEF Abort
<1>14. CASE UNCHANGED vars
  BY <1>14 DEF vars
<1> QED
  BY <1>1, <1>2, <1>3, <1>4, <1>5, <1>6, <1>7, <1>8, <1>9, <1>10, <1>11, <1>12, <1>13, <1>14
     DEF Next, Call

(***************************************************************************)
(* connect(): a new socket goes to one client, and leaves it again when the*)
(* kernel takes it or when the error path closes it.  What that path leaves*)
(* in the map it erases next.                                              *)
(***************************************************************************)
LEMMA ConnectStep ==
  ASSUME IInv, TypeOK', NEW c \in Clients,
         \/ \E h \in Descriptors : Socket(c, h)
         \/ SetOptionFails(c) \/ Insert(c) \/ Connect(c) \/ ConnectFails(c)
         \/ CloseSocket(c) \/ Erase(c)
  PROVE  IInv'
<1> USE DEF IInv, TypeOK, Go, Become, Connecting, Results
<1>1. ASSUME NEW h \in Descriptors, Socket(c, h)
      PROVE  IInv'
  <2> USE <1>1 DEF Socket
  <2>1. ResultKnown'
    BY DEF ResultKnown
  <2>2. SocketsOwned'
    BY DEF SocketsOwned
  <2>3. EntriesCurrent'
    BY DEF EntriesCurrent
  <2>4. NothingLeftPending'
    BY DEF NothingLeftPending
  <2> QED
    BY <2>1, <2>2, <2>3, <2>4
<1>2. CASE SetOptionFails(c) \/ ConnectFails(c)
  <2> USE <1>2 DEF SetOptionFails, ConnectFails
  <2>1. ResultKnown'
    BY DEF ResultKnown
  <2>2. SocketsOwned'
    BY DEF SocketsOwned
  <2>3. EntriesCurrent'
    BY DEF EntriesCurrent
  <2>4. NothingLeftPending'
    BY DEF NothingLeftPending
  <2> QED
    BY <2>1, <2>2, <2>3, <2>4
<1>3. CASE Insert(c)
  <2> USE <1>3 DEF Insert
  <2>1. ResultKnown'
    BY DEF ResultKnown
  <2>2. SocketsOwned'
    BY DEF SocketsOwned
  <2>3. EntriesCurrent'
    BY DEF EntriesCurrent, SocketsOwned
  <2>4. NothingLeftPending'
    BY DEF NothingLeftPending, SocketsOwned
  <2> QED
    BY <2>1, <2>2, <2>3, <2>4
<1>4. CASE Connect(c)
  <2> USE <1>4 DEF Connect
  <2>1. ResultKnown'
    BY DEF ResultKnown
  <2>2. SocketsOwned'
    BY DEF SocketsOwned
  <2>3. EntriesCurrent'
    BY DEF EntriesCurrent
  <2>4. NothingLeftPending'
    BY DEF NothingLeftPending
  <2> QED
    BY <2>1, <2>2, <2>3, <2>4
<1>5. CASE CloseSocket(c)
  <2> USE <1>5 DEF CloseSocket
  <2>1. ResultKnown'
    BY DEF ResultKnown
  <2>2. SocketsOwned'
    BY DEF SocketsOwned
  <2>3. EntriesCurrent'
    BY DEF EntriesCurrent
  <2>4. NothingLeftPending'
    BY DEF NothingLeftPending
  <2> QED
    BY <2>1, <2>2, <2>3, <2>4
<1>6. CASE Erase(c)
  <2> USE <1>6 DEF Erase
  <2>1. ResultKnown'
    BY DEF ResultKnown
  <2>2. SocketsOwned'
    BY DEF SocketsOwned
  <2>3. EntriesCurrent'
    BY DEF EntriesCurrent
  <2>4. NothingLeftPending'
    BY DEF NothingLeftPending
  <2> QED
    BY <2>1, <2>2, <2>3, <2>4
<1> QED
  BY <1>1, <1>2, <1>3, <1>4, <1>5, <1>6

(***************************************************************************)
(* wait() changes neither the sockets nor the map.                         *)
(***************************************************************************)
LEMMA WaitStep ==
  ASSUME IInv, TypeOK', NEW c \in Clients,
         \/ \E timed \in BOOLEAN : Wait(c, timed)
         \/ TimesOut(c) \/ ReadResult(c) \/ Forget(c)
  PROVE  IInv'
<1>0. TypeOK
  BY DEF IInv
<1>1. UNCHANGED <<socket, disposition, entry>>
  BY DEF Wait, TimesOut, ReadResult, Forget
<1>2. step[c] \in {"connected", "waiting_timed", "awake", "answered"}
  BY DEF Wait, TimesOut, ReadResult, Forget, Go
<1>3. \E to \in {"idle", "answered"} \cup Blocked : step' = [step EXCEPT ![c] = to]
  BY DEF Wait, TimesOut, ReadResult, Forget, Go, Blocked
<1>4. handle' = [handle EXCEPT ![c] = handle'[c]]
  BY <1>0 DEF TypeOK, Wait, TimesOut, ReadResult, Forget
<1>5. ASSUME NEW d \in Clients
      PROVE  /\ step'[d] \in Connecting <=> step[d] \in Connecting
             /\ step'[d] = "erasing" <=> step[d] = "erasing"
             /\ step[d] \in Connecting \cup {"erasing"} => handle'[d] = handle[d]
  <2>1. CASE d = c
    BY <1>0, <1>2, <1>3, <2>1 DEF TypeOK, Connecting, Blocked
  <2>2. CASE d # c
    BY <1>0, <1>3, <1>4, <2>2 DEF TypeOK
  <2> QED
    BY <2>1, <2>2
<1>6. ResultKnown' /\ EntriesCurrent'
  BY <1>1 DEF IInv, ResultKnown, EntriesCurrent
<1>7. SocketsOwned'
  BY <1>1, <1>5 DEF IInv, SocketsOwned
<1>8. NothingLeftPending'
  BY <1>1, <1>5 DEF IInv, NothingLeftPending
<1> QED
  BY <1>6, <1>7, <1>8 DEF IInv

(***************************************************************************)
(* handle_connect(), the kernel and abort(): a result is recorded before   *)
(* the descriptor can be given out again, in the place of what is there.   *)
(***************************************************************************)
LEMMA DispatchStep ==
  ASSUME IInv, TypeOK', (\E h \in Descriptors : Dispatch(h)) \/ Abort
  PROVE  IInv'
<1> USE DEF IInv, TypeOK, Become, Connecting, Blocked, Results
<1>1. ASSUME NEW h \in Descriptors, Complete(h)
      PROVE  IInv'
  <2> USE <1>1 DEF Complete
  <2>1. ResultKnown'
    BY DEF ResultKnown
  <2>2. SocketsOwned'
    BY DEF SocketsOwned
  <2>3. EntriesCurrent'
    BY DEF EntriesCurrent
  <2>4. NothingLeftPending'
    BY DEF NothingLeftPending
  <2> QED
    BY <2>1, <2>2, <2>3, <2>4
<1>2. ASSUME NEW h \in Descriptors, Record(h)
      PROVE  IInv'
  <2> USE <1>2 DEF Record
  <2>1. ResultKnown'
    BY DEF ResultKnown
  <2>2. SocketsOwned'
    BY DEF SocketsOwned
  <2>3. EntriesCurrent'
    BY DEF EntriesCurrent
  <2>4. NothingLeftPending'
    BY DEF NothingLeftPending, ResultKnown
  <2> QED
    BY <2>1, <2>2, <2>3, <2>4
<1>3. ASSUME NEW h \in Descriptors, Broadcast(h)
      PROVE  IInv'
  <2> USE <1>3 DEF Broadcast
  <2>1. ResultKnown'
    BY DEF ResultKnown
  <2>2. SocketsOwned'
    BY DEF SocketsOwned
  <2>3. EntriesCurrent'
    BY DEF EntriesCurrent
  <2>4. NothingLeftPending'
    BY DEF NothingLeftPending
  <2> QED
    BY <2>1, <2>2, <2>3, <2>4
<1>4. ASSUME NEW h \in Descriptors, OpenHandler(h) \/ CloseFailed(h) \/ HandlerCloses(h)
      PROVE  IInv'
  <2> USE <1>4 DEF OpenHandler, CloseFailed, HandlerCloses
  <2>1. ResultKnown'
    BY DEF ResultKnown
  <2>2. SocketsOwned'
    BY DEF SocketsOwned
  <2>3. EntriesCurrent'
    BY DEF EntriesCurrent
  <2>4. NothingLeftPending'
    BY DEF NothingLeftPending
  <2> QED
    BY <2>1, <2>2, <2>3, <2>4
<1>5. CASE Abort
  <2> USE <1>5 DEF Abort
  <2>1. ResultKnown'
    BY DEF ResultKnown
  <2>2. SocketsOwned'
    BY DEF SocketsOwned
  <2>3. EntriesCurrent'
    BY DEF EntriesCurrent
  <2>4. NothingLeftPending'
    BY DEF NothingLeftPending
  <2> QED
    BY <2>1, <2>2, <2>3, <2>4
<1> QED
  BY <1>1, <1>2, <1>3, <1>4, <1>5 DEF Dispatch

(***************************************************************************)
(* IInv is an inductive invariant.                                         *)
(***************************************************************************)
THEOREM InductiveInvariant == Spec => []IInv
<1>1. ASSUME IInv, [Next]_vars
      PROVE  IInv'
  <2>1. TypeOK'
    BY <1>1, TypeStep DEF IInv
  <2>2. CASE UNCHANGED vars
    BY <1>1, <2>2 DEF vars, IInv, TypeOK, ResultKnown, SocketsOwned, EntriesCurrent,
       NothingLeftPending
  <2>3. CASE \E c \in Clients : Call(c)
    BY <1>1, <2>1, <2>3, ConnectStep, WaitStep DEF Call
  <2>4. CASE (\E h \in Descriptors : Dispatch(h)) \/ Abort
    BY <1>1, <2>1, <2>4, DispatchStep
  <2> QED
    BY <1>1, <2>2, <2>3, <2>4 DEF Next
<1> QED
  BY InitIInv, <1>1, PTL DEF Spec

(***************************************************************************)
(* The types, in particular: whoever is not idle has a descriptor.         *)
(***************************************************************************)
THEOREM TypeCorrect == Spec => []TypeOK
BY InductiveInvariant, PTL DEF IInv

(***************************************************************************)
(* connect() leaks no socket and closes only its own.                      *)
(***************************************************************************)
THEOREM NoSocketLeaks == Spec => []SocketsOwned
BY InductiveInvariant, PTL DEF IInv

(***************************************************************************)
(* What the map holds for a connection that was announced is its result or *)
(* nothing, though insert() does not replace what an earlier connect with  *)
(* the same number left there.                                             *)
(***************************************************************************)
THEOREM ResultsAreCurrent == Spec => []EntriesCurrent
BY InductiveInvariant, PTL DEF IInv

(***************************************************************************)
(* No error path of connect() leaves an entry without a result behind.     *)
(***************************************************************************)
THEOREM NoEntryLeftPending == Spec => []NothingLeftPending
BY InductiveInvariant, PTL DEF IInv

=============================================================================

------------------------- MODULE SessionControlProofs ------------------------
(***************************************************************************)
(* Safety of SessionControl for all sets of sessions, connections and      *)
(* users, whatever they call and whether or not the tracker answers.       *)
(***************************************************************************)
EXTENDS SessionControl, TLAPS

(* Every connection belongs to a session. *)
LEMMA SessionType ==
  ASSUME NEW c \in Connections
  PROVE  Session(c) \in Sessions
  BY DEF Connections, Session

(* A woken thread is in a state of its own. *)
LEMMA AwakenType ==
  ASSUME user \in [Users -> Tasks], Awaken
  PROVE  user' \in [Users -> Tasks]
  BY DEF Awaken, Tasks

-----------------------------------------------------------------------------
(***************************************************************************)
(* The kinds of steps.                                                     *)
(***************************************************************************)

(* request() and the users change neither the streams nor a session's lock. *)
LEMMA OtherStep ==
  ASSUME IInv,
         \/ \E s \in Sessions : Request(s) \/ RequestSent(s) \/ RequestFails(s)
         \/ \E u \in Users : Use(u)
         \/ UNCHANGED vars
  PROVE  TypeOK' /\ UNCHANGED <<lock, connections, stream>>
  <1>1. TypeOK
    BY DEF IInv
  <1>2. ASSUME NEW s \in Sessions, Request(s) \/ RequestSent(s) \/ RequestFails(s)
        PROVE  TypeOK' /\ UNCHANGED <<lock, connections, stream>>
    BY <1>1, <1>2 DEF TypeOK, Request, RequestSent, RequestFails
  <1>3. ASSUME NEW u \in Users, Use(u)
        PROVE  TypeOK' /\ UNCHANGED <<lock, connections, stream>>
    <2> USE <1>1 DEF TypeOK, Tasks, Become
    <2>1. CASE \E wait \in BOOLEAN : Stop(u, wait)
      BY <2>1 DEF Stop
    <2>2. CASE StopCloses(u)
      BY <2>2 DEF StopCloses
    <2>3. CASE StopUnlocks(u)
      BY <2>3 DEF StopUnlocks
    <2>4. CASE StopClears(u)
      BY <2>4 DEF StopClears
    <2>5. CASE Wait(u)
      BY <2>5 DEF Wait
    <2>6. CASE WakeUp(u)
      BY <2>6 DEF WakeUp
    <2>7. CASE \E s \in Sessions, wait \in BOOLEAN : SessionClose(u, s, wait)
      BY <2>7 DEF SessionClose
    <2>. QED
      BY <1>3, <2>1, <2>2, <2>3, <2>4, <2>5, <2>6, <2>7 DEF Use
  <1>4. CASE UNCHANGED vars
    BY <1>1, <1>4 DEF TypeOK, vars
  <1>. QED
    BY <1>2, <1>3, <1>4

(* connect(id): it takes the lock, so nobody notifies for this session. *)
LEMMA ConnectStep ==
  ASSUME IInv, NEW c \in Connections, Connect(c)
  PROVE  IInv'
  <1>1. Session(c) \in Sessions
    BY SessionType
  <1>2. TypeOK'
    BY <1>1 DEF IInv, TypeOK, Streams, Connect, Step
  <1>3. \A d \in Connections :
          stream'[d] = "notifying" => stream[d] = "notifying" /\ Session(d) # Session(c)
    BY NoOneAssumption DEF IInv, TypeOK, NotifierHoldsLock, Connect, Step
  <1>4. NotifierHoldsLock'
    BY <1>3 DEF IInv, NotifierHoldsLock, Connect
  <1>5. CancelledIsUnused'
    BY <1>1, <1>3, SessionType DEF IInv, TypeOK, CancelledIsUnused, Connect
  <1>6. ConnectionsFollowStreams'
    BY <1>1 DEF IInv, TypeOK, ConnectionsFollowStreams, Connect, Step
  <1>. QED
    BY <1>2, <1>4, <1>5, <1>6 DEF IInv

(* disconnect(id) of the base class: the set of the session only shrinks. *)
LEMMA DisconnectStep ==
  ASSUME IInv, NEW c \in Connections, Disconnect(c)
  PROVE  IInv'
  <1>1. Session(c) \in Sessions
    BY SessionType
  <1>2. TypeOK'
    BY <1>1 DEF IInv, TypeOK, Streams, Disconnect, Step
  <1>3. \A d \in Connections : stream'[d] = "notifying" => stream[d] = "notifying"
    BY DEF IInv, TypeOK, Disconnect, Step
  <1>4. NotifierHoldsLock'
    BY <1>3 DEF IInv, NotifierHoldsLock, Disconnect
  <1>5. CancelledIsUnused'
    BY <1>1, <1>3, SessionType DEF IInv, TypeOK, CancelledIsUnused, Disconnect
  <1>6. ConnectionsFollowStreams'
    BY <1>1 DEF IInv, TypeOK, ConnectionsFollowStreams, Disconnect, Step
  <1>. QED
    BY <1>2, <1>4, <1>5, <1>6 DEF IInv

(* The rest of disconnect(id): the lock is free, and kept for the notification. *)
LEMMA ExamineStep ==
  ASSUME IInv, NEW c \in Connections, Examine(c)
  PROVE  IInv'
  <1>1. Session(c) \in Sessions
    BY SessionType
  <1>2. TypeOK'
    BY <1>1 DEF IInv, TypeOK, Streams, Examine, Step
  <1>3. \A d \in Connections :
          stream[d] = "notifying" => Session(d) # Session(c)
    BY NoOneAssumption DEF IInv, TypeOK, NotifierHoldsLock, Examine
  <1>4. NotifierHoldsLock'
    BY <1>1, <1>3, SessionType DEF IInv, TypeOK, NotifierHoldsLock, Examine, Step
  <1>5. CancelledIsUnused'
    BY <1>1, SessionType DEF IInv, TypeOK, CancelledIsUnused, Examine, Step
  <1>6. ConnectionsFollowStreams'
    BY <1>1 DEF IInv, TypeOK, ConnectionsFollowStreams, Examine, Step
  <1>. QED
    BY <1>2, <1>4, <1>5, <1>6 DEF IInv

(* The notification itself: the lock it held was that of its session. *)
LEMMA NotifyStep ==
  ASSUME IInv, NEW c \in Connections, Notify(c)
  PROVE  IInv'
  <1>1. Session(c) \in Sessions
    BY SessionType
  <1>2. TypeOK'
    <2>1. user' \in [Users -> Tasks]
      BY AwakenType DEF IInv, TypeOK, Notify
    <2>. QED BY <1>1, <2>1 DEF IInv, TypeOK, Streams, Notify, Step
  <1>3. \A d \in Connections :
          stream'[d] = "notifying" => stream[d] = "notifying" /\ Session(d) # Session(c)
    BY DEF IInv, TypeOK, NotifierHoldsLock, Notify, Step
  <1>4. NotifierHoldsLock'
    BY <1>1, <1>3, SessionType DEF IInv, TypeOK, NotifierHoldsLock, Notify
  <1>5. CancelledIsUnused'
    BY <1>3 DEF IInv, CancelledIsUnused, Notify
  <1>6. ConnectionsFollowStreams'
    BY <1>1 DEF IInv, TypeOK, ConnectionsFollowStreams, Notify, Step
  <1>. QED
    BY <1>2, <1>4, <1>5, <1>6 DEF IInv

-----------------------------------------------------------------------------
(* No session, connection or user is there in the beginning. *)
LEMMA InitInvariant == Init => IInv
  <1> SUFFICES ASSUME Init PROVE IInv
    OBVIOUS
  <1>1. TypeOK
    BY DEF Init, TypeOK, Streams, Tasks
  <1>2. NotifierHoldsLock /\ CancelledIsUnused
    BY DEF Init, NotifierHoldsLock, CancelledIsUnused
  <1>3. ConnectionsFollowStreams
    BY DEF Init, ConnectionsFollowStreams
  <1>. QED
    BY <1>1, <1>2, <1>3 DEF IInv

(* The inductive invariant: the locks, the sets of connections and the streams
   agree, whatever the order in which connections begin and end. *)
THEOREM InductiveInvariant == Spec => []IInv
  <1>1. Init => IInv
    BY InitInvariant
  <1>2. ASSUME IInv, [Next]_vars PROVE IInv'
    <2>1. CASE \/ \E s \in Sessions : Request(s) \/ RequestSent(s) \/ RequestFails(s)
               \/ \E u \in Users : Use(u)
               \/ UNCHANGED vars
      <3>1. TypeOK' /\ UNCHANGED <<lock, connections, stream>>
        BY <1>2, <2>1, OtherStep
      <3>. QED
        BY <1>2, <3>1 DEF IInv, NotifierHoldsLock, ConnectionsFollowStreams, CancelledIsUnused
    <2>2. CASE \E c \in Connections : Callback(c)
      BY <1>2, <2>2, ConnectStep, DisconnectStep, ExamineStep, NotifyStep DEF Callback
    <2>. QED
      BY <1>2, <2>1, <2>2 DEF Next
  <1>. QED
    BY <1>1, <1>2, PTL DEF Spec

(* Type correctness, for all sets of sessions, numbers and users. *)
THEOREM TypeCorrect == Spec => []TypeOK
  <1>1. IInv => TypeOK
    BY DEF IInv
  <1>. QED
    BY <1>1, InductiveInvariant, PTL

(* disconnect(id) reports a session only while it has no connection, and none
   can connect before the controller has dropped it. *)
THEOREM CancelledWhileUnused == Spec => []CancelledIsUnused
  <1>1. IInv => CancelledIsUnused
    BY DEF IInv
  <1>. QED
    BY <1>1, InductiveInvariant, PTL

-----------------------------------------------------------------------------
(***************************************************************************)
(* Without stop() and without failing requests only notify() empties the   *)
(* map, and users are idle or in one of the waits.                         *)
(***************************************************************************)
NobodyStops == {"stop", "stop_and_wait"} \cap Calls = {}

OnlyWaits == \A u \in Users : user[u] \in {"idle", "waiting", "awake", "waiting_for_session"}

(* notify() wakes whoever waits: nobody does afterwards. *)
LEMMA NotifyWakes ==
  ASSUME TypeOK, OnlyWaits, NEW c \in Connections, Notify(c)
  PROVE  OnlyWaits' /\ WaitersAwakened'
  BY DEF TypeOK, OnlyWaits, WaitersAwakened, Notify, Awaken

(* The users neither stop, nor wait while the map is empty. *)
LEMMA UseWaits ==
  ASSUME NobodyStops, TypeOK, OnlyWaits, WaitersAwakened, NEW u \in Users, Use(u)
  PROVE  OnlyWaits' /\ WaitersAwakened'
  <1> USE DEF TypeOK, OnlyWaits, WaitersAwakened, Become
  <1>1. CASE \E wait \in BOOLEAN : Stop(u, wait)
    BY <1>1 DEF NobodyStops, Stop
  <1>2. CASE StopCloses(u)
    BY <1>2 DEF StopCloses
  <1>3. CASE StopUnlocks(u)
    BY <1>3 DEF StopUnlocks
  <1>4. CASE StopClears(u)
    BY <1>4 DEF StopClears
  <1>5. CASE Wait(u)
    BY <1>5 DEF Wait
  <1>6. CASE WakeUp(u)
    BY <1>6 DEF WakeUp
  <1>7. CASE \E s \in Sessions, wait \in BOOLEAN : SessionClose(u, s, wait)
    BY <1>7 DEF SessionClose
  <1>. QED
    BY <1>1, <1>2, <1>3, <1>4, <1>5, <1>6, <1>7 DEF Use

(***************************************************************************)
(* Where nobody calls stop() and every request reaches its tracker, whoever *)
(* is in wait() when the last session leaves the map has been woken, for   *)
(* any number of sessions and waiters: the broadcast of notify() suffices. *)
(***************************************************************************)
THEOREM LastSessionWakes ==
  ASSUME NobodyStops, ~RequestsFail
  PROVE  Spec => []WaitersAwakened
  <1> DEFINE Inv == OnlyWaits /\ WaitersAwakened
  <1>1. Init => Inv
    BY DEF Init, OnlyWaits, WaitersAwakened
  <1>2. IInv /\ Inv /\ [Next]_vars => Inv'
    <2> SUFFICES ASSUME IInv, Inv, [Next]_vars
                 PROVE  Inv'
      OBVIOUS
    <2>0. TypeOK
      BY DEF IInv
    <2>1. ASSUME NEW s \in Sessions, Request(s) \/ RequestSent(s) \/ RequestFails(s)
          PROVE  Inv'
      BY <2>1, <2>0 DEF TypeOK, OnlyWaits, WaitersAwakened, Request, RequestSent, RequestFails
    <2>2. ASSUME NEW c \in Connections, Connect(c) \/ Disconnect(c) \/ Examine(c)
          PROVE  Inv'
      BY <2>2 DEF OnlyWaits, WaitersAwakened, Connect, Disconnect, Examine
    <2>3. ASSUME NEW c \in Connections, Notify(c)
          PROVE  Inv'
      BY <2>0, <2>3, NotifyWakes
    <2>4. ASSUME NEW u \in Users, Use(u)
          PROVE  Inv'
      BY <2>0, <2>4, UseWaits
    <2>5. CASE UNCHANGED vars
      BY <2>5 DEF OnlyWaits, WaitersAwakened, vars
    <2>. QED
      BY <2>1, <2>2, <2>3, <2>4, <2>5 DEF Next, Callback
  <1>. QED
    BY <1>1, <1>2, InductiveInvariant, PTL DEF Spec

=============================================================================

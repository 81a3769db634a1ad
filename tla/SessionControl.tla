---------------------------- MODULE SessionControl ---------------------------
(***************************************************************************)
(* The BitTorrent controller (BitTorrent_Control_T) and its sessions       *)
(* (BitTorrent_Session_T over Net_SessionBase_T).                          *)
(*                                                                         *)
(* request() adds a session to the controller's map and connects to the    *)
(* tracker.  The streams of the tracker's and of the peers' connections    *)
(* call the session back: connect(id) when they start, disconnect(id) when *)
(* they end.  The disconnect(id) that finds no connection left tells the   *)
(* controller, which drops the session from its map.  stop() closes all    *)
(* sessions, wait() waits until the map is empty.                          *)
(*                                                                         *)
(* Controller and sessions have a mutex each; disconnect() calls the       *)
(* controller with the session's mutex held, stop() calls the sessions     *)
(* with the controller's.  The connections themselves are the subject of   *)
(* ConnectionManager.                                                      *)
(***************************************************************************)
EXTENDS Naturals, FiniteSets

CONSTANTS
  Sessions,      \* the torrents that are requested, each once
  Numbers,       \* distinguish the connections of a session
  Users,         \* the threads that call the controller
  Calls,         \* what they call
  RequestsFail,  \* the tracker may be out of reach
  NoOne          \* nobody holds the lock

ASSUME ConstantsAssumption ==
  /\ Calls \subseteq {"stop", "stop_and_wait", "wait", "close", "close_and_wait"}
  /\ RequestsFail \in BOOLEAN

Connections == Sessions \X Numbers

Session(c) == c[1]

ASSUME NoOneAssumption == NoOne \notin Users \cup Connections

VARIABLES
  sessions,     \* controller: sessions_
  control,      \* controller: who holds lock_
  request,      \* session: how far request() has come
  lock,         \* session: who holds lock_
  connections,  \* session: state_.connections
  stream,       \* connection: what its stream is doing
  shut,         \* the connections that were closed locally
  user,         \* user: what it is doing
  todo          \* user: the sessions stop() has not closed yet

vars == <<sessions, control, request, lock, connections, stream, shut, user, todo>>

Streams ==
  {"none",       \* not connected
   "connected",  \* between connect(id) and disconnect(id)
   "erased",     \* disconnect(id) of the base class has returned
   "notifying",  \* about to call the controller, with the session's lock held
   "done"}

Tasks == {"idle", "stopping", "stopping_and_waiting", "waiting", "awake",
          "waiting_to_clear", "awake_to_clear", "clearing", "waiting_for_session"}

(***************************************************************************)
(* The type of every variable.                                             *)
(***************************************************************************)
TypeOK ==
  /\ sessions \subseteq Sessions
  /\ control \in Users \cup {NoOne}
  /\ request \in [Sessions -> {"none", "running", "failed", "done"}]
  /\ lock \in [Sessions -> Connections \cup {NoOne}]
  /\ connections \in [Sessions -> SUBSET Connections]
  /\ stream \in [Connections -> Streams]
  /\ shut \subseteq Connections
  /\ user \in [Users -> Tasks]
  /\ todo \in [Users -> SUBSET Sessions]

Init ==
  /\ sessions = {}
  /\ control = NoOne
  /\ request = [s \in Sessions |-> "none"]
  /\ lock = [s \in Sessions |-> NoOne]
  /\ connections = [s \in Sessions |-> {}]
  /\ stream = [c \in Connections |-> "none"]
  /\ shut = {}
  /\ user = [u \in Users |-> "idle"]
  /\ todo = [u \in Users |-> {}]

-----------------------------------------------------------------------------
(***************************************************************************)
(* request()                                                               *)
(***************************************************************************)

Request(s) ==
  /\ control = NoOne
  /\ request[s] = "none"
  /\ request' = [request EXCEPT ![s] = "running"]
  /\ sessions' = sessions \cup {s}
  /\ UNCHANGED <<control, lock, connections, stream, shut, user, todo>>

Absent(s) == \A n \in Numbers : stream[<<s, n>>] \in {"none", "done"}

(* The connection to the tracker is found, and the request sent. *)
RequestSent(s) ==
  /\ request[s] = "running"
  /\ ~Absent(s)
  /\ request' = [request EXCEPT ![s] = "done"]
  /\ UNCHANGED <<sessions, control, lock, connections, stream, shut, user, todo>>

(* It is not: the session is removed again, and deleted. *)
RequestFails(s) ==
  /\ RequestsFail
  /\ control = NoOne
  /\ request[s] = "running"
  /\ Absent(s)
  /\ request' = [request EXCEPT ![s] = "failed"]
  /\ sessions' = sessions \ {s}
  /\ UNCHANGED <<control, lock, connections, stream, shut, user, todo>>

-----------------------------------------------------------------------------
(***************************************************************************)
(* The callbacks of the streams.                                           *)
(***************************************************************************)

Step(c, from, to) == stream[c] = from /\ stream' = [stream EXCEPT ![c] = to]

(* Faulty: records the id of the session, not that of the connection. *)
ConnectForeign(c) ==
  /\ request[Session(c)] \in {"running", "done"}
  /\ lock[Session(c)] = NoOne
  /\ Step(c, "none", "connected")
  /\ connections' = [connections EXCEPT ![Session(c)] = @ \cup {Session(c)}]
  /\ UNCHANGED <<sessions, control, request, lock, shut, user, todo>>

(* connect(id): the tracker's connection, or a peer the tracker named. *)
Connect(c) ==
  /\ request[Session(c)] \in {"running", "done"}
  /\ lock[Session(c)] = NoOne
  /\ Step(c, "none", "connected")
  /\ connections' = [connections EXCEPT ![Session(c)] = @ \cup {c}]
  /\ UNCHANGED <<sessions, control, request, lock, shut, user, todo>>

(* disconnect(id) of the base class. *)
Disconnect(c) ==
  /\ lock[Session(c)] = NoOne
  /\ Step(c, "connected", "erased")
  /\ connections' = [connections EXCEPT ![Session(c)] = @ \ {c}]
  /\ UNCHANGED <<sessions, control, request, lock, shut, user, todo>>

(* Faulty: the controller is called without the lock. *)
ExamineUnlocked(c) ==
  /\ lock[Session(c)] = NoOne
  /\ Step(c, "erased", IF connections[Session(c)] = {} THEN "notifying" ELSE "done")
  /\ UNCHANGED <<sessions, control, request, lock, connections, shut, user, todo>>

(* Faulty: allows for the connection that has been erased already. *)
ExamineOffByOne(c) ==
  /\ lock[Session(c)] = NoOne
  /\ \/ /\ Cardinality(connections[Session(c)]) = 1
        /\ Step(c, "erased", "notifying")
        /\ lock' = [lock EXCEPT ![Session(c)] = c]
     \/ /\ Cardinality(connections[Session(c)]) # 1
        /\ Step(c, "erased", "done")
        /\ UNCHANGED lock
  /\ UNCHANGED <<sessions, control, request, connections, shut, user, todo>>

(* The rest of disconnect(id), with the lock taken anew: is this the last one? *)
Examine(c) ==
  /\ lock[Session(c)] = NoOne
  /\ \/ /\ connections[Session(c)] = {}
        /\ Step(c, "erased", "notifying")
        /\ lock' = [lock EXCEPT ![Session(c)] = c]
     \/ /\ connections[Session(c)] # {}
        /\ Step(c, "erased", "done")
        /\ UNCHANGED lock
  /\ UNCHANGED <<sessions, control, request, connections, shut, user, todo>>

(* broadcast() *)
Awaken ==
  user' = [u \in Users |-> CASE user[u] = "waiting" -> "awake"
                             [] user[u] = "waiting_to_clear" -> "awake_to_clear"
                             [] OTHER -> user[u]]

(* Faulty: does not awaken the waiters. *)
NotifySilently(c) ==
  /\ control = NoOne
  /\ Step(c, "notifying", "done")
  /\ sessions' = sessions \ {Session(c)}
  /\ lock' = [lock EXCEPT ![Session(c)] = NoOne]
  /\ UNCHANGED <<control, request, connections, shut, user, todo>>

(* notify(CANCELLED) of the controller; back in the session, its lock is released.
   The assertion that the session is found is the subject of NotifyFinds. *)
Notify(c) ==
  /\ control = NoOne
  /\ Step(c, "notifying", "done")
  /\ sessions' = sessions \ {Session(c)}
  /\ Awaken
  /\ lock' = [lock EXCEPT ![Session(c)] = NoOne]
  /\ UNCHANGED <<control, request, connections, shut, todo>>

Callback(c) == Connect(c) \/ Disconnect(c) \/ Examine(c) \/ Notify(c)

-----------------------------------------------------------------------------
(***************************************************************************)
(* The users: stop(), wait(), and close() of a session.                    *)
(***************************************************************************)

Become(u, from, to) == user[u] = from /\ user' = [user EXCEPT ![u] = to]

(* stop() takes the controller's lock ... *)
Stop(u, wait) ==
  /\ (IF wait THEN "stop_and_wait" ELSE "stop") \in Calls
  /\ control = NoOne
  /\ control' = u
  /\ Become(u, "idle", IF wait THEN "stopping_and_waiting" ELSE "stopping")
  /\ todo' = [todo EXCEPT ![u] = sessions]
  /\ UNCHANGED <<sessions, request, lock, connections, stream, shut>>

(* ... and closes one session after the other, each under its own lock; ... *)
StopCloses(u) ==
  \E s \in todo[u] :
    /\ user[u] \in {"stopping", "stopping_and_waiting"}
    /\ lock[s] = NoOne
    /\ todo' = [todo EXCEPT ![u] = @ \ {s}]
    /\ shut' = shut \cup connections[s]
    /\ UNCHANGED <<sessions, control, request, lock, connections, stream, user>>

(* ... waits, ... *)
StopUnlocks(u) ==
  /\ control = u
  /\ todo[u] = {}
  /\ control' = NoOne
  /\ \/ Become(u, "stopping", "clearing")
     \/ Become(u, "stopping_and_waiting", "awake_to_clear")
  /\ UNCHANGED <<sessions, request, lock, connections, stream, shut, todo>>

(* ... and clears the map. *)
StopClears(u) ==
  /\ control = NoOne
  /\ Become(u, "clearing", "idle")
  /\ sessions' = {}
  /\ UNCHANGED <<control, request, lock, connections, stream, shut, todo>>

Wait(u) ==
  /\ "wait" \in Calls
  /\ control = NoOne
  /\ sessions # {}
  /\ Become(u, "idle", "waiting")
  /\ UNCHANGED <<sessions, control, request, lock, connections, stream, shut, todo>>

(* The loop of wait(): look again. *)
WakeUp(u) ==
  /\ control = NoOne
  /\ \/ Become(u, "awake", IF sessions = {} THEN "idle" ELSE "waiting")
     \/ Become(u, "awake_to_clear", IF sessions = {} THEN "clearing" ELSE "waiting_to_clear")
  /\ UNCHANGED <<sessions, control, request, lock, connections, stream, shut, todo>>

(* close() of a session.  Nobody ever signals the condition it waits for. *)
SessionClose(u, s, wait) ==
  /\ (IF wait THEN "close_and_wait" ELSE "close") \in Calls
  /\ s \in sessions
  /\ lock[s] = NoOne
  /\ shut' = shut \cup connections[s]
  /\ user[u] = "idle"
  /\ user' = IF wait THEN [user EXCEPT ![u] = "waiting_for_session"] ELSE user
  /\ UNCHANGED <<sessions, control, request, lock, connections, stream, todo>>

Use(u) ==
  \/ \E wait \in BOOLEAN : Stop(u, wait)
  \/ StopCloses(u) \/ StopUnlocks(u) \/ StopClears(u)
  \/ Wait(u) \/ WakeUp(u)
  \/ \E s \in Sessions, wait \in BOOLEAN : SessionClose(u, s, wait)

Next ==
  \/ \E s \in Sessions : Request(s) \/ RequestSent(s) \/ RequestFails(s)
  \/ \E c \in Connections : Callback(c)
  \/ \E u \in Users : Use(u)

Spec == Init /\ [][Next]_vars

(***************************************************************************)
(* Fairness: a request comes to its end; a connection that was closed      *)
(* locally ends; a callback that has begun, and a user that is inside of   *)
(* the controller, go on when they can.  The controller's lock may be      *)
(* taken again and again by others: whoever waits for it gets it once it   *)
(* has become free often enough.                                           *)
(***************************************************************************)
Fairness ==
  /\ \A s \in Sessions : WF_vars(RequestSent(s) \/ RequestFails(s))
  /\ \A c \in Connections :
       /\ WF_vars(c \in shut /\ Disconnect(c))
       /\ WF_vars(Examine(c))
       /\ SF_vars(Notify(c))
  /\ \A u \in Users :
       /\ WF_vars(StopCloses(u) \/ StopUnlocks(u))
       /\ SF_vars(StopClears(u) \/ WakeUp(u))

FairSpec == Spec /\ Fairness

-----------------------------------------------------------------------------
(***************************************************************************)
(* A session is reported as cancelled only while it has no connection: the *)
(* lock is held from the look at state_.connections until the controller   *)
(* has dropped the session.                                                *)
(***************************************************************************)
CancelledIsUnused ==
  \A c \in Connections : stream[c] = "notifying" => connections[Session(c)] = {}

(***************************************************************************)
(* What makes it inductive: the connection that notifies holds the lock of *)
(* its session, and the session's set follows the streams.                 *)
(***************************************************************************)
NotifierHoldsLock ==
  \A c \in Connections : stream[c] = "notifying" => lock[Session(c)] = c

ConnectionsFollowStreams ==
  \A s \in Sessions :
    connections[s] = {c \in Connections : Session(c) = s /\ stream[c] = "connected"}

IInv ==
  /\ TypeOK
  /\ NotifierHoldsLock
  /\ ConnectionsFollowStreams
  /\ CancelledIsUnused

(***************************************************************************)
(* ACE_ASSERT (iterator != sessions_.end ()) in notify(): the session that *)
(* is reported as cancelled is in the map.  It may have been reported, or  *)
(* dropped by stop(), before.                                              *)
(***************************************************************************)
NotifyFinds ==
  [][\A c \in Connections : Notify(c) => Session(c) \in sessions]_vars

(***************************************************************************)
(* "awaken any waiter(s)": whenever the map has become empty, every thread *)
(* in wait() has been woken.  stop() and request() empty it silently.      *)
(***************************************************************************)
WaitersAwakened ==
  sessions = {} => \A u \in Users : user[u] \notin {"waiting", "waiting_to_clear"}

(***************************************************************************)
(* stop(false) does not wait for anything but locks, so it returns.        *)
(***************************************************************************)
StopReturns ==
  \A u \in Users : user[u] = "stopping" ~> user[u] = "idle"

(***************************************************************************)
(* close(true) of a session returns once all its connections are gone; the *)
(* assertion behind the wait says that this is what it waits for.          *)
(***************************************************************************)
CloseReturns ==
  \A u \in Users : user[u] = "waiting_for_session" ~> user[u] = "idle"

(***************************************************************************)
(* The last of the connections of a session, in whichever order and however*)
(* concurrently they end, reports it: it does not stay in the map.         *)
(***************************************************************************)
SessionEnds ==
  \A s \in Sessions :
    (s \in sessions /\ [](\A n \in Numbers : stream[<<s, n>>] \in {"erased", "notifying", "done"}))
      ~> s \notin sessions

(***************************************************************************)
(* wait() returns when all sessions that were in the map are cancelled and *)
(* no others are requested.                                                *)
(***************************************************************************)
WaitReturns ==
  \A u \in Users :
    (user[u] \in {"waiting", "awake"} /\ [](sessions = {})) ~> user[u] = "idle"

=============================================================================

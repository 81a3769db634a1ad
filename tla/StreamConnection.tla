--------------------------- MODULE StreamConnection --------------------------
(***************************************************************************)
(* One TCP connection dispatched by the reactor (Net_TCPConnectionBase_T   *)
(* over Net_StreamConnectionBase_T and Net_TCPSocketHandler_T).            *)
(*                                                                         *)
(* handle_close() is invoked by whoever notices that the connection is     *)
(* over: the reactor, after handle_input() failed; the reactor, after      *)
(* handle_output(), which answers a notification, failed; the connector or *)
(* acceptor, after open() failed.  Several of them may be at it at once,   *)
(* each of them gives up one reference: that of the constructor, or that   *)
(* of its notification.                                                    *)
(*                                                                         *)
(* ACE is external: remove_handler(DONT_CALL) and ACE_Svc_Handler::        *)
(* shutdown() take the connection out of the reactor without a callback    *)
(* and close the socket, a failed handle_input() is answered with          *)
(* handle_close() only while the connection is in the reactor, a failed    *)
(* notification always is; send_n() sends all or fails.                    *)
(***************************************************************************)
EXTENDS Integers, FiniteSets

CONSTANTS
  Users,              \* threads that look the connection up and use it
  Worker,             \* the thread of the processing stream
  Notified,           \* reactor threads that dispatch notifications
  Reader,             \* the reactor thread that dispatches the socket
  Connector,          \* the connector or acceptor that runs open()
  MaxNotifications,   \* bound: notifications in the reactor's queue
  ConcurrentDispatch  \* events are dispatched while open() runs

ASSUME ConstantsAssumption ==
  /\ IsFiniteSet(Users)
  /\ IsFiniteSet(Notified)
  /\ Worker \notin Users
  /\ Reader # Connector
  /\ {Reader, Connector} \cap Notified = {}
  /\ MaxNotifications \in Nat
  /\ ConcurrentDispatch \in BOOLEAN

VARIABLES
  opener,        \* how far open() has come
  pc,            \* what each caller of handle_close() is doing
  sampled,       \* handle_close(): the values of count and deregister
  party,         \* what each user is doing
  status,        \* state_.status
  running,       \* the processing stream runs
  armed,         \* the reactor dispatches the socket
  queued,        \* notifications in the reactor's queue
  listed,        \* in the manager's list
  isRegistered,  \* the flag isRegistered_
  count,         \* the reference counter
  socketOpen,    \* the socket is open
  shut,          \* the socket was shut down by a user
  destroyed      \* the object has deleted itself

manager == <<listed, isRegistered>>
references == <<count, destroyed>>
socket == <<socketOpen, shut>>
reactor == <<armed, queued>>
vars == <<opener, pc, sampled, party, status, running, reactor, manager, references, socket>>

Callers == Notified \cup {Reader, Connector}

Openers == {"starting", "arming", "registering", "assigning", "finishing", "failed", "done"}

Steps ==
  {"none",
   "failing",     \* handle_input() has failed
   "sending",     \* handle_output() holds sendLock_
   "unlocking",   \* handle_output() has dropped its reference, not sendLock_
   "entered", "marking", "stopping", "sampling", "shutting", "leaving",
   "unlisting", "releasing"}

Statuses == {"INVALID", "OK", "INITIALIZATION_FAILED", "CLOSED", "PEER_CLOSED"}

(***************************************************************************)
(* The type of every variable.                                             *)
(***************************************************************************)
TypeOK ==
  /\ opener \in Openers
  /\ pc \in [Callers -> Steps]
  /\ sampled \in [Callers -> [count : Nat, registered : BOOLEAN]]
  /\ party \in [Users -> {"away", "holding", "closing"}]
  /\ status \in Statuses
  /\ running \in BOOLEAN
  /\ armed \in BOOLEAN
  /\ queued \in 0 .. MaxNotifications
  /\ listed \in BOOLEAN
  /\ isRegistered \in BOOLEAN
  /\ count \in Nat
  /\ socketOpen \in BOOLEAN
  /\ shut \in BOOLEAN
  /\ destroyed \in BOOLEAN

Init ==
  /\ opener = "starting"
  /\ pc = [c \in Callers |-> "none"]
  /\ sampled = [c \in Callers |-> [count |-> 0, registered |-> FALSE]]
  /\ party = [u \in Users |-> "away"]
  /\ status = "INVALID"
  /\ running = FALSE
  /\ armed = FALSE
  /\ queued = 0
  /\ listed = FALSE
  /\ isRegistered = FALSE
  /\ count = 1
  /\ socketOpen = TRUE
  /\ shut = FALSE
  /\ destroyed = FALSE

Decrease ==
  /\ count' = count - 1
  /\ destroyed' = (destroyed \/ count = 1)

-----------------------------------------------------------------------------
(***************************************************************************)
(* open(), and close(NORMAL_CLOSE_OPERATION) by its caller when it fails.  *)
(* (Bound: open() is not followed into an object that is gone.)            *)
(***************************************************************************)

Opener(from, to) == opener = from /\ opener' = to /\ ~destroyed

(* The socket, or the stream, cannot be set up. *)
StartFails ==
  /\ Opener("starting", "failed")
  /\ status' = "INITIALIZATION_FAILED"
  /\ UNCHANGED <<pc, sampled, party, running, reactor, manager, references, socket>>

StartStream ==
  /\ Opener("starting", "arming")
  /\ running' = TRUE
  /\ UNCHANGED <<pc, sampled, party, status, reactor, manager, references, socket>>

RegisterWithReactor ==
  /\ Opener("arming", "registering")
  /\ armed' = TRUE
  /\ UNCHANGED <<pc, sampled, party, status, running, queued, manager, references, socket>>

(* The manager's critical section ... *)
Register ==
  /\ Opener("registering", "assigning")
  /\ listed' = TRUE
  /\ count' = count + 1
  /\ UNCHANGED <<pc, sampled, party, status, running, reactor, isRegistered, destroyed, socket>>

(* ... and the assignment of its answer. *)
AssignRegistered ==
  /\ Opener("assigning", "finishing")
  /\ isRegistered' = TRUE
  /\ UNCHANGED <<pc, sampled, party, status, running, reactor, listed, references, socket>>

(* The error path: out of the reactor again, if it was in there, and stop the
   stream. *)
RegisterFails ==
  /\ \/ Opener("arming", "failed") /\ UNCHANGED socketOpen
     \/ Opener("registering", "failed") /\ socketOpen' = FALSE
  /\ armed' = FALSE
  /\ running' = FALSE
  /\ status' = "INITIALIZATION_FAILED"
  /\ UNCHANGED <<pc, sampled, party, queued, manager, references, shut>>

Opened ==
  /\ Opener("finishing", "done")
  /\ status' = "OK"
  /\ UNCHANGED <<pc, sampled, party, running, reactor, manager, references, socket>>

OpenFailed ==
  /\ Opener("failed", "done")
  /\ pc' = [pc EXCEPT ![Connector] = "entered"]
  /\ UNCHANGED <<sampled, party, status, running, reactor, manager, references, socket>>

Open ==
  \/ StartFails \/ StartStream \/ RegisterWithReactor \/ RegisterFails
  \/ Register \/ AssignRegistered \/ Opened \/ OpenFailed

-----------------------------------------------------------------------------
(***************************************************************************)
(* The callbacks of the reactor.                                           *)
(***************************************************************************)

Step(c, from, to) == pc[c] = from /\ pc' = [pc EXCEPT ![c] = to]

PeerClosed == IF status = "OK" THEN "PEER_CLOSED" ELSE status

(* handle_input() finds the end of the stream, or an error, or cannot pass the
   data on: then the status is left alone.  Reading data changes nothing here. *)
InputFails ==
  /\ armed
  /\ ConcurrentDispatch \/ opener = "done"
  /\ Step(Reader, "none", "failing")
  /\ status' \in {PeerClosed, status}
  /\ UNCHANGED <<opener, sampled, party, running, reactor, manager, references, socket>>

(* The reactor removes the connection, if it is still there, and then only calls
   handle_close(). *)
InputRemoved ==
  /\ Step(Reader, "failing", IF armed THEN "entered" ELSE "none")
  /\ armed' = FALSE
  /\ UNCHANGED <<opener, sampled, party, status, running, queued, manager, references, socket>>

(* Faulty: a notification does not count. *)
SendUnreferenced(s) ==
  /\ running
  /\ queued < MaxNotifications
  /\ s \in Users => party[s] = "holding"
  /\ queued' = queued + 1
  /\ UNCHANGED <<opener, pc, sampled, party, status, running, armed, manager, references, socket>>

(* A message reaches the head of the stream: notify(). *)
Send(s) ==
  /\ running
  /\ queued < MaxNotifications
  /\ s \in Users => party[s] = "holding"
  /\ count' = count + 1
  /\ queued' = queued + 1
  /\ UNCHANGED <<opener, pc, sampled, party, status, running, armed, manager, destroyed, socket>>

(* handle_output(): one at a time, by virtue of sendLock_ ... *)
OutputBegins(c) ==
  /\ queued > 0
  /\ ConcurrentDispatch \/ opener = "done"
  /\ \A d \in Notified : pc[d] \notin {"sending", "unlocking"}
  /\ Step(c, "none", "sending")
  /\ queued' = queued - 1
  /\ UNCHANGED <<opener, sampled, party, status, running, armed, manager, references, socket>>

(* ... sends the message and gives its reference back, ... *)
OutputSent(c) ==
  /\ socketOpen /\ ~shut
  /\ Step(c, "sending", "unlocking")
  /\ Decrease
  /\ UNCHANGED <<opener, sampled, party, status, running, reactor, manager, socket>>

(* ... and finally releases the lock, a member of the connection. *)
OutputReturns(c) ==
  /\ Step(c, "unlocking", "none")
  /\ UNCHANGED <<opener, sampled, party, status, running, reactor, manager, references, socket>>

(* Faulty: the reference is given back here, and by handle_close() again. *)
OutputFailsReleasing(c) ==
  /\ Step(c, "sending", "entered")
  /\ Decrease
  /\ UNCHANGED <<opener, sampled, party, status, running, reactor, manager, socket>>

(* The message cannot be sent, or the stream was stopped and there is none: the
   reactor calls handle_close(). *)
OutputFails(c) ==
  /\ Step(c, "sending", "entered")
  /\ \/ status' = PeerClosed
     \/ ~running /\ UNCHANGED status
  /\ UNCHANGED <<opener, sampled, party, running, reactor, manager, references, socket>>

Dispatch(c) == OutputBegins(c) \/ OutputSent(c) \/ OutputReturns(c) \/ OutputFails(c)

-----------------------------------------------------------------------------
(***************************************************************************)
(* handle_close()                                                          *)
(***************************************************************************)

(* The status is read and written without its lock. *)
CloseBegin(c) ==
  /\ Step(c, "entered", IF status \in {"INITIALIZATION_FAILED", "CLOSED"}
                          THEN "stopping" ELSE "marking")
  /\ UNCHANGED <<opener, sampled, party, status, running, reactor, manager, references, socket>>

CloseMark(c) ==
  /\ Step(c, "marking", "stopping")
  /\ status' = "PEER_CLOSED"
  /\ UNCHANGED <<opener, sampled, party, running, reactor, manager, references, socket>>

CloseStop(c) ==
  /\ Step(c, "stopping", "sampling")
  /\ running' = FALSE
  /\ UNCHANGED <<opener, sampled, party, status, reactor, manager, references, socket>>

(* count and deregister are read before the socket is closed. *)
CloseSample(c) ==
  /\ Step(c, "sampling", "shutting")
  /\ sampled' = [sampled EXCEPT ![c] = [count |-> count, registered |-> isRegistered]]
  /\ UNCHANGED <<opener, party, status, running, reactor, manager, references, socket>>

(* handle_close() of the socket handler. *)
CloseShutDown(c) ==
  /\ Step(c, "shutting", "leaving")
  /\ armed' = FALSE
  /\ socketOpen' = FALSE
  /\ UNCHANGED <<opener, sampled, party, status, running, queued, manager, references, shut>>

(* Faulty: a connection that is still in use stays in the list. *)
CloseLeaveUnused(c) ==
  /\ Step(c, "leaving", IF sampled[c].registered /\ isRegistered /\ sampled[c].count <= 2
                          THEN "unlisting" ELSE "releasing")
  /\ UNCHANGED <<opener, sampled, party, status, running, reactor, manager, references, socket>>

(* deregister(): the flag is looked at again, ... *)
CloseLeave(c) ==
  /\ Step(c, "leaving", IF sampled[c].registered /\ isRegistered
                          THEN "unlisting" ELSE "releasing")
  /\ UNCHANGED <<opener, sampled, party, status, running, reactor, manager, references, socket>>

(* Faulty: the reference of the list is dropped by everyone who gets here. *)
CloseUnlistTwice(c) ==
  /\ Step(c, "unlisting", "releasing")
  /\ isRegistered' = FALSE
  /\ listed' = FALSE
  /\ Decrease
  /\ UNCHANGED <<opener, sampled, party, status, running, reactor, socket>>

(* ... reset, and the manager unlinks the connection, unless another thread has
   come here first. *)
CloseUnlist(c) ==
  /\ Step(c, "unlisting", "releasing")
  /\ isRegistered' = FALSE
  /\ listed' = FALSE
  /\ \/ listed /\ Decrease
     \/ ~listed /\ UNCHANGED references
  /\ UNCHANGED <<opener, sampled, party, status, running, reactor, socket>>

(* Faulty: forgets the connection that never was registered. *)
OwnedRegistered(s) == s.count > 1

(* What is left to the caller, going by what was read before. *)
Owned(s) == s.count > 1 \/ (s.count = 1 /\ ~s.registered)

(* The decrease() depends on it. *)
CloseRelease(c) ==
  /\ Step(c, "releasing", "none")
  /\ \/ Owned(sampled[c]) /\ Decrease
     \/ ~Owned(sampled[c]) /\ UNCHANGED references
  /\ UNCHANGED <<opener, sampled, party, status, running, reactor, manager, socket>>

HandleClose(c) ==
  \/ CloseBegin(c) \/ CloseMark(c) \/ CloseStop(c) \/ CloseSample(c)
  \/ CloseShutDown(c) \/ CloseLeave(c) \/ CloseUnlist(c) \/ CloseRelease(c)

-----------------------------------------------------------------------------
(***************************************************************************)
(* The users: a lookup, close(), and decrease().                           *)
(***************************************************************************)

Become(u, from, to) == party[u] = from /\ party' = [party EXCEPT ![u] = to]

(* Faulty: finds a connection that is not in the list. *)
GetUnlisted(u) ==
  /\ ~destroyed
  /\ Become(u, "away", "holding")
  /\ count' = count + 1
  /\ UNCHANGED <<opener, pc, sampled, status, running, reactor, manager, destroyed, socket>>

Get(u) ==
  /\ listed
  /\ Become(u, "away", "holding")
  /\ count' = count + 1
  /\ UNCHANGED <<opener, pc, sampled, status, running, reactor, manager, destroyed, socket>>

Close(u) ==
  /\ Become(u, "holding", "closing")
  /\ status' = IF status = "OK" THEN "CLOSED" ELSE status
  /\ UNCHANGED <<opener, pc, sampled, running, reactor, manager, references, socket>>

(* shutdown() and closesocket(). *)
CloseHandle(u) ==
  /\ Become(u, "closing", "holding")
  /\ shut' = TRUE
  /\ socketOpen' = FALSE
  /\ UNCHANGED <<opener, pc, sampled, status, running, reactor, manager, references>>

Release(u) ==
  /\ Become(u, "holding", "away")
  /\ Decrease
  /\ UNCHANGED <<opener, pc, sampled, status, running, reactor, manager, socket>>

Use(u) == Get(u) \/ Close(u) \/ CloseHandle(u) \/ Release(u)

Next ==
  \/ Open
  \/ InputFails \/ InputRemoved
  \/ \E s \in Users \cup {Worker} : Send(s)
  \/ \E c \in Notified : Dispatch(c)
  \/ \E c \in Callers : HandleClose(c)
  \/ \E u \in Users : Use(u)

Spec == Init /\ [][Next]_vars

(***************************************************************************)
(* Fairness: open(), handle_close() and handle_output() are straight-line  *)
(* code; the reactor notices the end of a socket that was shut down and    *)
(* dispatches its notifications.  Nobody has to get, send or close.        *)
(***************************************************************************)
Fairness ==
  /\ WF_vars(Open)
  /\ WF_vars(shut /\ InputFails)
  /\ WF_vars(InputRemoved)
  /\ \A c \in Notified : WF_vars(Dispatch(c))
  /\ \A c \in Callers : WF_vars(HandleClose(c))
  /\ \A u \in Users : WF_vars(CloseHandle(u)) /\ SF_vars(Release(u))

FairSpec == Spec /\ Fairness

-----------------------------------------------------------------------------
Boole(p) == IF p THEN 1 ELSE 0

Closing(c) ==
  pc[c] \in {"entered", "marking", "stopping", "sampling", "shutting", "leaving",
            "unlisting", "releasing"}

(* The callers that own the reference of a notification. *)
Output == {c \in Notified : pc[c] = "sending" \/ Closing(c)}

Holding == {u \in Users : party[u] # "away"}

(* What the other owners leave over. *)
Constructor == count - Boole(listed) - queued - Cardinality(Output) - Cardinality(Holding)

(***************************************************************************)
(* Every reference has an owner: the manager's list, a notification or the *)
(* callback that answers it, a user.  What is left over is the reference   *)
(* of the constructor, which is the last to go: it is dropped once, by the *)
(* handle_close() of the socket or of a failed open().                     *)
(***************************************************************************)
ReferencesAccounted ==
  /\ Constructor \in 0 .. 1
  /\ armed \/ opener # "done" \/ Closing(Reader) \/ Closing(Connector) => Constructor = 1

(***************************************************************************)
(* The connection is deleted only when nobody will touch it any more:      *)
(* neither open(), nor a callback, nor the reactor, nor the manager's list,*)
(* nor a user.  (What handle_output() does after its decrease() is the     *)
(* subject of OutputKeepsConnection.)                                      *)
(***************************************************************************)
NoUseAfterDelete ==
  destroyed =>
    /\ opener = "done"
    /\ ~armed /\ queued = 0
    /\ \A c \in Callers : ~Closing(c) /\ pc[c] \notin {"failing", "sending"}
    /\ ~listed /\ ~isRegistered
    /\ Holding = {}

(***************************************************************************)
(* What makes them inductive when nothing is dispatched during open().     *)
(***************************************************************************)

(* Callbacks follow open(), each on its own thread.  The connector closes what
   was never opened, the reader what the reactor has let go. *)
InSequence ==
  /\ opener # "done" => \A c \in Callers : pc[c] = "none"
  /\ \A c \in Notified : pc[c] # "failing"
  /\ pc[Reader] \notin {"sending", "unlocking"}
  /\ pc[Connector] \notin {"failing", "sending", "unlocking"}
  /\ armed \/ pc[Reader] # "none" => pc[Connector] = "none"
  /\ armed => ~Closing(Reader) /\ opener \notin {"starting", "arming", "failed"}

RegistrationFollows ==
  /\ isRegistered => listed
  /\ opener \in {"starting", "arming", "registering"} => ~listed
  /\ opener \in {"assigning", "finishing"} => listed

Decided == {"shutting", "leaving", "unlisting", "releasing"}

(* Nothing is sent any more once somebody has got so far. *)
StreamStopped ==
  \A c \in Callers : pc[c] \in Decided \cup {"sampling"} => ~running

(* Whoever has looked at the counter has found a reference to give up. *)
SamplesOwned == \A c \in Callers : pc[c] \in Decided => Owned(sampled[c])

(* What still needs the reference of the constructor. *)
ConstructorNeeded == running \/ pc[Reader] = "failing" => Constructor = 1

DeletedAtZero == destroyed <=> count = 0

IInv ==
  /\ TypeOK
  /\ InSequence
  /\ RegistrationFollows
  /\ StreamStopped
  /\ SamplesOwned
  /\ ReferencesAccounted
  /\ ConstructorNeeded
  /\ DeletedAtZero

-----------------------------------------------------------------------------
(***************************************************************************)
(* The connection as the registry knows it.  The notifications, those in   *)
(* the queue and those that are being answered, are interchangeable: they  *)
(* hold it by their number.                                                *)
(***************************************************************************)
Creation == <<"creation", 0>>
Notification(i) == <<"notification", i>>
User(u) == <<"user", u>>
Manager == <<"manager", 0>>

Pending == queued + Cardinality(Output)

Holders ==
  (IF Constructor = 1 THEN {Creation} ELSE {})
    \cup (IF listed THEN {Manager} ELSE {})
    \cup {Notification(i) : i \in 1 .. Pending}
    \cup {User(u) : u \in Holding}

Notifications == {Notification(i) : i \in 1 .. MaxNotifications + Cardinality(Notified)}

Agents == {Creation} \cup Notifications \cup {User(u) : u \in Users}

Connection == "connection"

Registry ==
  INSTANCE ConnectionRegistry WITH
    Objects <- {Connection},
    Sharers <- Notifications,
    Registrar <- Manager,
    Capacity <- 1,
    accepting <- TRUE,
    holders <- [o \in {Connection} |-> Holders],
    reclaimed <- {o \in {Connection} : destroyed}

(***************************************************************************)
(* The connection keeps the rules of the registry, whatever calls of       *)
(* handle_close() overlap: it is reclaimed at once when the last of its    *)
(* holders lets go, and by nobody else, and never held again; users get    *)
(* hold of it while it is listed.  A message may be sent before that, or   *)
(* after: its notification gets its reference from another holder.         *)
(***************************************************************************)
ImplementsRegistry == Registry!Spec

(***************************************************************************)
(* The comment on notify(): its reference "prevents the connection from    *)
(* going away when still registered with the reactor for writing".         *)
(* handle_output() gives the reference back while it holds sendLock_, which*)
(* is a member of the connection.                                          *)
(***************************************************************************)
OutputKeepsConnection ==
  destroyed => \A c \in Notified : pc[c] # "unlocking"

(***************************************************************************)
(* The note in handle_close(): the socket handle is retained "until        *)
(* deregistered from the manager", where it is the connection's identity.  *)
(* The code closes it first.                                               *)
(***************************************************************************)
HandleRetained == opener = "done" /\ listed => socketOpen

(***************************************************************************)
(* doc/test_cases.txt: the memory is "reclaimed at the end of (final)      *)
(* handle_close".  The code loses the constructor's reference when a       *)
(* notification that failed takes the socket out of the reactor.           *)
(***************************************************************************)
Reclaimed ==
  /\ opener = "done" /\ ~armed /\ queued = 0 /\ Holding = {}
  /\ \A c \in Callers : pc[c] = "none"
  => destroyed

(***************************************************************************)
(* Once the connection was closed by a user, or is being closed by any     *)
(* callback, it leaves the manager's list: wait() depends on it.           *)
(***************************************************************************)
ClosedLeaves == (shut \/ \E c \in Callers : Closing(c)) ~> ~listed

(***************************************************************************)
(* An open() that fails hands the connection over to the connector, whose  *)
(* close() deletes it: nobody else knows of it.                            *)
(***************************************************************************)
FailedIsReclaimed == opener = "failed" ~> destroyed

=============================================================================

--------------------------- MODULE AsynchConnection ---------------------------
(***************************************************************************)
(* One TCP connection dispatched by the proactor                           *)
(* (Net_AsynchTCPConnectionBase_T over Net_AsynchStreamConnectionBase_T    *)
(* and Net_AsynchTCPSocketHandler_T): open(), the read operation, any      *)
(* number of write operations, close() by its users and handle_close().    *)
(*                                                                         *)
(* References: one for the read operation (that of the constructor; it is  *)
(* dropped after handle_close()), one for the connection manager, one for  *)
(* each write operation, one for each user that looked the connection up.  *)
(* The lookups themselves are the subject of ConnectionManager.            *)
(***************************************************************************)
EXTENDS Integers, FiniteSets

CONSTANTS
  Users,               \* threads that look the connection up and use it
  Worker,              \* the thread of the processing stream; it holds no reference
  MaxWrites,           \* bound: write operations in flight
  PartialWrites,       \* the kernel may accept part of a buffer only
  ConcurrentDispatch   \* completions are dispatched while open() runs

ASSUME ConstantsAssumption ==
  /\ IsFiniteSet(Users)
  /\ Worker \notin Users
  /\ MaxWrites \in Nat
  /\ PartialWrites \in BOOLEAN
  /\ ConcurrentDispatch \in BOOLEAN

VARIABLES
  opener,        \* how far open() has come
  reader,        \* the read operation, and what its completion found
  closer,        \* how far handle_close() has come
  party,         \* what each user, and the worker, is doing
  status,        \* state_.status
  stream,        \* the processing stream
  isRegistered,  \* registered with the connection manager
  count,         \* the reference counter
  counter,       \* counter_, the number of pending operations
  writes,        \* the write operations in flight
  cancelled,     \* those of them that were cancelled
  shut,          \* the socket has been shut down locally
  socketOpen,    \* the socket handle is open
  cancel,        \* handle_close(): cancel_b
  closeSocket,   \* handle_close(): close_socket_b
  destroyed      \* the object has deleted itself

references == <<isRegistered, count, destroyed>>
output == <<counter, writes, cancelled>>
socket == <<shut, socketOpen, cancel, closeSocket>>
vars == <<opener, reader, closer, party, status, stream, references, output, socket>>

Senders == Users \cup {Worker}

Openers ==
  {"registering", "starting", "checking", "initiating", "asserting", "failed", "done"}

(* "data": bytes were read and the connection was not closed when the handler
   looked ("last": it was); "eof": the end of the stream, or an error. *)
Readers == {"none", "pending", "data", "last", "eof"}

Closers ==
  {"none", "entered", "marking", "stopping", "joining", "counting", "deregistering",
   "closing", "releasing", "done"}

Parties == {"away", "holding", "sending", "closed", "shut"}

Statuses == {"INVALID", "OK", "INITIALIZATION_FAILED", "CLOSED", "PEER_CLOSED"}

(***************************************************************************)
(* The type of every variable.                                             *)
(***************************************************************************)
TypeOK ==
  /\ opener \in Openers
  /\ reader \in Readers
  /\ closer \in Closers
  /\ party \in [Senders -> Parties]
  /\ status \in Statuses
  /\ stream \in {"initial", "running", "stopped"}
  /\ isRegistered \in BOOLEAN
  /\ count \in Nat
  /\ counter \in Nat
  /\ writes \in 0 .. MaxWrites
  /\ cancelled \in 0 .. writes
  /\ shut \in BOOLEAN
  /\ socketOpen \in BOOLEAN
  /\ cancel \in BOOLEAN
  /\ closeSocket \in BOOLEAN
  /\ destroyed \in BOOLEAN

Sending == {s \in Senders : party[s] = "sending"}

Holding == {u \in Users : party[u] # "away"}

Init ==
  /\ opener = "registering"
  /\ reader = "none"
  /\ closer = "none"
  /\ party = [s \in Senders |-> "away"]
  /\ status = "INVALID"
  /\ stream = "initial"
  /\ isRegistered = FALSE
  /\ count = 1
  /\ counter = 0
  /\ writes = 0
  /\ cancelled = 0
  /\ shut = FALSE
  /\ socketOpen = TRUE
  /\ cancel = FALSE
  /\ closeSocket = FALSE
  /\ destroyed = FALSE

Decrease ==
  /\ count' = count - 1
  /\ destroyed' = (destroyed \/ count = 1)

(* cancel(): of the write operations, those that the kernel has not begun.  (The
   read operation may come to an end at any time, see ReadCompletes.) *)
Cancel == cancelled' \in cancelled .. writes

-----------------------------------------------------------------------------
(***************************************************************************)
(* open()                                                                  *)
(***************************************************************************)

Opener(from, to) == opener = from /\ opener' = to

Register ==
  /\ Opener("registering", "starting")
  /\ isRegistered' = TRUE
  /\ count' = count + 1
  /\ UNCHANGED <<reader, closer, party, status, stream, destroyed, output, socket>>

RegisterFails ==
  /\ Opener("registering", "failed")
  /\ status' = "INITIALIZATION_FAILED"
  /\ UNCHANGED <<reader, closer, party, stream, references, output, socket>>

(* The stream runs and the state is OK, whatever it was. *)
StartStream ==
  /\ Opener("starting", "checking")
  /\ stream' = "running"
  /\ status' = "OK"
  /\ UNCHANGED <<reader, closer, party, references, output, socket>>

(* Faulty: the caller is not told that the stream did not start. *)
StartFailsUnnoticed ==
  /\ Opener("starting", "initiating")
  /\ isRegistered' = FALSE
  /\ Decrease
  /\ UNCHANGED <<reader, closer, party, status, stream, output, socket>>

(* The stream does not start: deregister again. *)
StartFails ==
  /\ Opener("starting", "failed")
  /\ status' = "INITIALIZATION_FAILED"
  /\ isRegistered' = FALSE
  /\ Decrease
  /\ UNCHANGED <<reader, closer, party, stream, output, socket>>

(* Back in Net_AsynchTCPConnectionBase_T::open(): a user may have closed the
   connection meanwhile. *)
CheckStatus ==
  /\ Opener("checking", IF status = "OK" THEN "initiating" ELSE "failed")
  /\ UNCHANGED <<reader, closer, party, status, stream, references, output, socket>>

InitiateRead ==
  /\ Opener("initiating", "asserting")
  /\ reader' = "pending"
  /\ UNCHANGED <<closer, party, status, stream, references, output, socket>>

InitiateReadFails ==
  /\ Opener("initiating", "failed")
  /\ UNCHANGED <<reader, closer, party, status, stream, references, output, socket>>

(* The assertion at the end of open(): see OpenAssertion. *)
Opened ==
  /\ Opener("asserting", "done")
  /\ UNCHANGED <<reader, closer, party, status, stream, references, output, socket>>

(* The error path of open() ends in handle_close() and decrease(). *)
OpenFailed ==
  /\ Opener("failed", "done")
  /\ closer' = "entered"
  /\ UNCHANGED <<reader, party, status, stream, references, output, socket>>

Open ==
  \/ Register \/ RegisterFails \/ StartStream \/ StartFails \/ CheckStatus
  \/ InitiateRead \/ InitiateReadFails \/ Opened \/ OpenFailed

-----------------------------------------------------------------------------
(***************************************************************************)
(* The read operation: handle_read_stream().                               *)
(***************************************************************************)

(* The handler notes first whether the connection was closed; there is no more
   data once the socket was shut down. *)
ReadCompletes ==
  /\ reader = "pending"
  /\ ConcurrentDispatch \/ opener = "done"
  /\ \/ reader' = "eof"
     \/ ~shut /\ reader' = IF status = "CLOSED" THEN "last" ELSE "data"
  /\ UNCHANGED <<opener, closer, party, status, stream, references, output, socket>>

ReadAgain ==
  /\ reader = "data"
  /\ reader' = "pending"
  /\ UNCHANGED <<opener, closer, party, status, stream, references, output, socket>>

(* Also when the stream rejects the data, or the next read fails to start. *)
ReadEnds ==
  /\ reader \in {"data", "last", "eof"}
  /\ reader' = "none"
  /\ closer' = "entered"
  /\ UNCHANGED <<opener, party, status, stream, references, output, socket>>

Read == ReadCompletes \/ ReadAgain \/ ReadEnds

-----------------------------------------------------------------------------
(***************************************************************************)
(* handle_close(), and the decrease() that follows it.                     *)
(***************************************************************************)

Closer(from, to) == closer = from /\ closer' = to

(* The status is read and written without its lock. *)
CloseBegin ==
  /\ Closer("entered", IF status \in {"INITIALIZATION_FAILED", "CLOSED"}
                         THEN "stopping" ELSE "marking")
  /\ UNCHANGED <<opener, reader, party, status, stream, references, output, socket>>

CloseMark ==
  /\ Closer("marking", "stopping")
  /\ status' = "PEER_CLOSED"
  /\ cancel' = TRUE
  /\ UNCHANGED <<opener, reader, party, stream, references, output, shut, socketOpen, closeSocket>>

(* The stream's queue is shut down: nothing more is sent. *)
CloseStop ==
  /\ Closer("stopping", "joining")
  /\ stream' = "stopped"
  /\ UNCHANGED <<opener, reader, party, status, references, output, socket>>

(* stop() waits for the worker of the stream, not for the users.  After the peer
   has closed, what is still to be written is cancelled. *)
CloseJoin ==
  /\ Closer("joining", "counting")
  /\ party[Worker] # "sending"
  /\ \/ cancel /\ Cancel
     \/ ~cancel /\ cancelled' = cancelled
  /\ UNCHANGED <<opener, reader, party, status, stream, references, counter, writes, socket>>

(* Faulty: one reference too many is allowed for. *)
CloseCountOffByOne ==
  /\ Closer("counting", "deregistering")
  /\ closeSocket' = (count <= 3)
  /\ UNCHANGED <<opener, reader, party, status, stream, references, output, shut, socketOpen,
                 cancel>>

(* The socket will be closed if nobody but the manager and this read operation is
   left: a write that was cancelled is there until its completion is dispatched. *)
CloseCount ==
  /\ Closer("counting", "deregistering")
  /\ closeSocket' = (count <= 2)
  /\ UNCHANGED <<opener, reader, party, status, stream, references, output, shut, socketOpen,
                 cancel>>

(* Faulty: a connection that is still in use stays registered. *)
CloseDeregisterUnused ==
  /\ Closer("deregistering", "closing")
  /\ \/ isRegistered /\ closeSocket /\ isRegistered' = FALSE /\ Decrease
     \/ ~(isRegistered /\ closeSocket) /\ UNCHANGED references
  /\ UNCHANGED <<opener, reader, party, status, stream, output, socket>>

CloseDeregister ==
  /\ Closer("deregistering", "closing")
  /\ \/ isRegistered /\ isRegistered' = FALSE /\ Decrease
     \/ ~isRegistered /\ UNCHANGED references
  /\ UNCHANGED <<opener, reader, party, status, stream, output, socket>>

CloseSocket ==
  /\ Closer("closing", "releasing")
  /\ socketOpen' = (socketOpen /\ ~closeSocket)
  /\ UNCHANGED <<opener, reader, party, status, stream, references, output, shut, cancel,
                 closeSocket>>

CloseRelease ==
  /\ Closer("releasing", "done")
  /\ Decrease
  /\ UNCHANGED <<opener, reader, party, status, stream, isRegistered, output, socket>>

HandleClose ==
  \/ CloseBegin \/ CloseMark \/ CloseStop \/ CloseJoin \/ CloseCount
  \/ CloseDeregister \/ CloseSocket \/ CloseRelease

-----------------------------------------------------------------------------
(***************************************************************************)
(* The write operations: handle_output(), run by whoever pushes a message  *)
(* down the stream, and handle_write_stream().                             *)
(***************************************************************************)

Become(s, from, to) == party[s] = from /\ party' = [party EXCEPT ![s] = to]

Resting(s) == IF s = Worker THEN "away" ELSE "holding"

(* Faulty: the operation is not counted as pending. *)
SendUncounted(s) ==
  /\ stream = "running"
  /\ writes + Cardinality(Sending) < MaxWrites
  /\ Become(s, Resting(s), "sending")
  /\ count' = count + 1
  /\ UNCHANGED <<opener, reader, closer, status, stream, isRegistered, destroyed, output, socket>>

(* Faulty: the write operation has no reference of its own. *)
SendUnreferenced(s) ==
  /\ stream = "running"
  /\ writes + Cardinality(Sending) < MaxWrites
  /\ Become(s, Resting(s), "sending")
  /\ counter' = counter + 1
  /\ UNCHANGED <<opener, reader, closer, status, stream, references, writes, cancelled, socket>>

(* Both counters are incremented before the operation starts.  Nothing is sent
   through a stream that was stopped: its queue is shut down. *)
Send(s) ==
  /\ stream = "running"
  /\ writes + Cardinality(Sending) < MaxWrites
  /\ Become(s, Resting(s), "sending")
  /\ count' = count + 1
  /\ counter' = counter + 1
  /\ UNCHANGED <<opener, reader, closer, status, stream, isRegistered, destroyed, writes, cancelled,
                 socket>>

WriteStarts(s) ==
  /\ Become(s, "sending", Resting(s))
  /\ writes' = writes + 1
  /\ UNCHANGED <<opener, reader, closer, status, stream, references, counter, cancelled, socket>>

(* Faulty: the reference is kept. *)
WriteFailsKeeping(s) ==
  /\ Become(s, "sending", Resting(s))
  /\ counter' = counter - 1
  /\ UNCHANGED <<opener, reader, closer, status, stream, references, writes, cancelled, socket>>

WriteFails(s) ==
  /\ Become(s, "sending", Resting(s))
  /\ Decrease
  /\ counter' = counter - 1
  /\ UNCHANGED <<opener, reader, closer, status, stream, isRegistered, writes, cancelled, socket>>

(* Faulty: the pending operations are decremented twice. *)
WriteCompletesTwice ==
  /\ writes > 0
  /\ writes' = writes - 1
  /\ cancelled' \in 0 .. writes'
  /\ counter' = counter - 2
  /\ Decrease
  /\ UNCHANGED <<opener, reader, closer, party, status, stream, isRegistered, socket>>

(* The buffer was written, or the operation failed, as those do that were cancelled:
   then everything else is cancelled, too. *)
WriteCompletes ==
  /\ writes > 0
  /\ writes' = writes - 1
  /\ \/ cancelled < writes /\ cancelled' \in cancelled .. writes'
     \/ cancelled > 0 /\ cancelled' \in cancelled - 1 .. writes'
  /\ counter' = counter - 1
  /\ Decrease
  /\ UNCHANGED <<opener, reader, closer, party, status, stream, isRegistered, socket>>

(* Part of the buffer was written: the rest is a new operation, which does not
   increment the counters, but both are decremented.  (Bound: what happens after
   the object is gone is not followed.) *)
WriteContinues ==
  /\ PartialWrites
  /\ ~destroyed
  /\ writes > cancelled
  /\ counter' = counter - 1
  /\ Decrease
  /\ UNCHANGED <<opener, reader, closer, party, status, stream, isRegistered, writes, cancelled,
                 socket>>

Write ==
  \/ \E s \in Senders : Send(s) \/ WriteStarts(s) \/ WriteFails(s)
  \/ WriteCompletes
  \/ WriteContinues

-----------------------------------------------------------------------------
(***************************************************************************)
(* The users: lookup, close() in its three steps, decrease().              *)
(***************************************************************************)

(* Faulty: finds a connection that is not registered. *)
GetUnregistered(u) ==
  /\ ~destroyed
  /\ Become(u, "away", "holding")
  /\ count' = count + 1
  /\ UNCHANGED <<opener, reader, closer, status, stream, isRegistered, destroyed, output, socket>>

Get(u) ==
  /\ isRegistered
  /\ Become(u, "away", "holding")
  /\ count' = count + 1
  /\ UNCHANGED <<opener, reader, closer, status, stream, isRegistered, destroyed, output, socket>>

Close(u) ==
  /\ Become(u, "holding", "closed")
  /\ status' = IF status = "OK" THEN "CLOSED" ELSE status
  /\ UNCHANGED <<opener, reader, closer, stream, references, output, socket>>

(* cancel() and shutdown(); the handle is gone after open() has failed. *)
CloseShut(u) ==
  /\ Become(u, "closed", "shut")
  /\ Cancel
  /\ shut' = (shut \/ status # "INITIALIZATION_FAILED")
  /\ UNCHANGED <<opener, reader, closer, status, stream, references, counter, writes, socketOpen,
                 cancel, closeSocket>>

CloseHandle(u) ==
  /\ Become(u, "shut", "holding")
  /\ socketOpen' = (socketOpen /\ status = "INITIALIZATION_FAILED")
  /\ UNCHANGED <<opener, reader, closer, status, stream, references, output, shut, cancel,
                 closeSocket>>

Release(u) ==
  /\ Become(u, "holding", "away")
  /\ Decrease
  /\ UNCHANGED <<opener, reader, closer, status, stream, isRegistered, output, socket>>

Use(u) == Get(u) \/ Close(u) \/ CloseShut(u) \/ CloseHandle(u) \/ Release(u)

Next == Open \/ Read \/ HandleClose \/ Write \/ \E u \in Users : Use(u)

Spec == Init /\ [][Next]_vars

(***************************************************************************)
(* Fairness: open() and handle_close() are straight-line code, the kernel  *)
(* completes every write operation and the read operation of a socket that *)
(* was shut down, and a user drops its reference sometime, as the warning  *)
(* on get() demands; nobody has to get, send or close.                     *)
(***************************************************************************)
Fairness ==
  /\ WF_vars(Open)
  /\ WF_vars(shut /\ ReadCompletes)
  /\ WF_vars(ReadAgain \/ ReadEnds)
  /\ WF_vars(HandleClose)
  /\ WF_vars(WriteCompletes)
  /\ \A s \in Senders : WF_vars(WriteStarts(s) \/ WriteFails(s))
  /\ \A u \in Users :
       /\ WF_vars(CloseShut(u) \/ CloseHandle(u))
       /\ SF_vars(Release(u))

FairSpec == Spec /\ Fairness

-----------------------------------------------------------------------------
Boole(p) == IF p THEN 1 ELSE 0

(***************************************************************************)
(* The reference counts of the documentation ("+1 connection manager, +1   *)
(* read operation", "-n write operations"): every operation in flight and  *)
(* every user accounts for exactly one reference.                          *)
(***************************************************************************)
ReferencesAccounted ==
  count = Boole(closer # "done") + Boole(isRegistered) + writes
            + Cardinality(Sending) + Cardinality(Holding)

(***************************************************************************)
(* The object is deleted only after the read operation has ended, every    *)
(* write operation has completed and every user has gone.                  *)
(***************************************************************************)
NoUseAfterDelete ==
  destroyed => /\ opener = "done" /\ closer = "done" /\ reader = "none"
               /\ writes = 0 /\ Sending = {} /\ Holding = {} /\ ~isRegistered

(***************************************************************************)
(* ACE_ASSERT (this->count () >= 2) at the end of open().                  *)
(***************************************************************************)
OpenAssertion == opener = "asserting" => count >= 2 /\ ~destroyed

(***************************************************************************)
(* waitForIdleState() waits for counter_ to drop to zero: all data has been*)
(* dispatched to the kernel by then.                                       *)
(***************************************************************************)
IdleMeansWritten == counter = 0 => writes = 0

(***************************************************************************)
(* handle_close() does not close the descriptor under a write operation,   *)
(* one that was cancelled included, as long as its completion is to come:  *)
(* the number may soon be another file's.  That the operations write what  *)
(* they should is another question (OutputFlushed).                        *)
(***************************************************************************)
WritesKeepSocket ==
  [][CloseSocket /\ socketOpen /\ ~socketOpen' => writes = 0 /\ Sending = {}]_vars

(***************************************************************************)
(* handle_close(): "flush all remaining outbound data".  It cancels what   *)
(* the kernel has not written yet, also what the worker has just sent.     *)
(***************************************************************************)
OutputFlushed == [][HandleClose => cancelled' = cancelled]_vars

(***************************************************************************)
(* Whatever the kernel takes of a buffer, and whenever completions are     *)
(* dispatched: a reference beyond those of the read operation, the manager *)
(* and the users is one that counter_ counts as pending, so that the two   *)
(* never drift apart.                                                      *)
(***************************************************************************)
CountersAgree ==
  count = counter + Boole(closer # "done") + Boole(isRegistered) + Cardinality(Holding)

(***************************************************************************)
(* What makes these inductive while the kernel takes whole buffers: both   *)
(* counters are exact, the three programs run in their order, the stream   *)
(* passes nothing on unless the connection is registered or has just left, *)
(* and the decision to close the socket is only made when nothing is left. *)
(***************************************************************************)
PendingCounted ==
  /\ counter = writes + Cardinality(Sending)
  /\ counter <= MaxWrites

DeletedAtZero == destroyed <=> count = 0

InSequence ==
  /\ opener \notin {"asserting", "done"} => reader = "none" /\ closer = "none"
  /\ closer # "none" => reader = "none"
  /\ ~ConcurrentDispatch /\ opener # "done" => reader \in {"none", "pending"} /\ closer = "none"

Left == closer \in {"closing", "releasing", "done"}

RegistrationFollows ==
  /\ opener = "registering" => ~isRegistered /\ stream = "initial"
  /\ opener = "starting" => isRegistered /\ stream = "initial"
  /\ opener \in {"checking", "initiating"} => isRegistered
  /\ opener = "asserting" /\ closer = "none" => isRegistered
  /\ Left => ~isRegistered

OutputFollows ==
  /\ stream = "initial" \/ (~isRegistered /\ ~Left) => writes = 0 /\ Sending = {}
  /\ Left \/ ~isRegistered \/ closer \in {"joining", "counting", "deregistering"}
       => stream # "running"

SocketFollows ==
  closeSocket => /\ Left \/ closer = "deregistering"
                 /\ writes = 0 /\ Sending = {}

IInv ==
  /\ TypeOK
  /\ ReferencesAccounted
  /\ PendingCounted
  /\ DeletedAtZero
  /\ InSequence
  /\ RegistrationFollows
  /\ OutputFollows
  /\ SocketFollows

-----------------------------------------------------------------------------
(***************************************************************************)
(* The connection as the registry knows it: who holds it, whether it is a  *)
(* member, whether it is gone.  The operations are interchangeable: they   *)
(* hold it by their number.                                                *)
(***************************************************************************)
ReadOperation == <<"read", 0>>
WriteOperation(i) == <<"write", i>>
User(u) == <<"user", u>>
Manager == <<"manager", 0>>

Pending == writes + Cardinality(Sending)

Holders ==
  (IF closer # "done" THEN {ReadOperation} ELSE {})
    \cup (IF isRegistered THEN {Manager} ELSE {})
    \cup {WriteOperation(i) : i \in 1 .. Pending}
    \cup {User(u) : u \in Holding}

Agents ==
  {ReadOperation} \cup {WriteOperation(i) : i \in 1 .. MaxWrites} \cup {User(u) : u \in Users}

Connection == "connection"

Registry ==
  INSTANCE ConnectionRegistry WITH
    Objects <- {Connection},
    Sharers <- {},
    Registrar <- Manager,
    Capacity <- 1,
    accepting <- TRUE,
    holders <- [o \in {Connection} |-> Holders],
    reclaimed <- {o \in {Connection} : destroyed}

(***************************************************************************)
(* The connection keeps the rules of the registry: only a registered one is*)
(* handed out, to a user or to a write operation, it is reclaimed at once  *)
(* when the last of its holders lets go, and by nobody else, and never held*)
(* again.                                                                  *)
(***************************************************************************)
ImplementsRegistry == Registry!Spec

(***************************************************************************)
(* No handle is left for the destructor, which warns "closing write handle *)
(* in dtor --> check implementation !": handle_close() has released the    *)
(* socket.  The code does not when anybody else held a reference then.     *)
(***************************************************************************)
SocketReleased == destroyed => ~socketOpen

(***************************************************************************)
(* Once it was shut down locally, or handle_close() was called, the        *)
(* connection is reclaimed ("heap memory reclaimed at the end of (final)   *)
(* handle_close").                                                         *)
(***************************************************************************)
ClosedIsReclaimed == (shut \/ closer # "none") ~> destroyed

=============================================================================

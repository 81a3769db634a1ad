---------------------------- MODULE AsynchConnector ----------------------------
(***************************************************************************)
(* Net_Client_AsynchConnector_T: threads connect() and wait() for what     *)
(* becomes of it; the proactor calls handle_connect() with the result of   *)
(* each connect operation, on as many threads as it has.                   *)
(*                                                                         *)
(* The connector keeps a map, handles_, from the descriptor of each connect*)
(* to its result, and one condition for all who wait.  The map is guarded  *)
(* by lock_; each of its critical sections is one action.                  *)
(***************************************************************************)
EXTENDS Integers

CONSTANTS
  Clients,      \* threads that call connect() and wait()
  Descriptors,  \* socket handles; the system gives each out again once it was closed
  NoDescriptor  \* ACE_INVALID_HANDLE

ASSUME ConstantsAssumption == NoDescriptor \notin Descriptors

VARIABLES
  socket,       \* what has become of each descriptor
  disposition,  \* the result of the connect operation on it
  entry,        \* handles_
  step,         \* what each client is doing
  handle,       \* the descriptor it is doing this with
  answer        \* what its wait() returned

vars == <<socket, disposition, entry, step, handle, answer>>

Results == {"success", "failure"}

(* The connect operation is with the kernel ("pending"), or handle_connect()
   runs: "completed", "recorded" in the map, "signalled". *)
Dispatched == {"pending", "completed", "recorded", "signalled"}

Sockets == {"unused", "created", "established"} \cup Dispatched

Connecting == {"created", "inserted", "closing"}

Blocked == {"waiting", "waiting_timed"}

Steps == {"idle", "erasing", "connected", "awake", "answered"} \cup Connecting \cup Blocked

(***************************************************************************)
(* The type of every variable.                                             *)
(***************************************************************************)
TypeOK ==
  /\ socket \in [Descriptors -> Sockets]
  /\ disposition \in [Descriptors -> Results \cup {"none"}]
  /\ entry \in [Descriptors -> Results \cup {"absent", "pending"}]
  /\ step \in [Clients -> Steps]
  /\ handle \in [Clients -> Descriptors \cup {NoDescriptor}]
  /\ \A c \in Clients : step[c] # "idle" => handle[c] \in Descriptors
  /\ answer \in [Clients -> Results \cup {"none", "pending", "timeout", "dangling"}]

Init ==
  /\ socket = [h \in Descriptors |-> "unused"]
  /\ disposition = [h \in Descriptors |-> "none"]
  /\ entry = [h \in Descriptors |-> "absent"]
  /\ step = [c \in Clients |-> "idle"]
  /\ handle = [c \in Clients |-> NoDescriptor]
  /\ answer = [c \in Clients |-> "none"]

Go(c, from, to) == step[c] = from /\ step' = [step EXCEPT ![c] = to]

Become(h, from, to) == socket[h] = from /\ socket' = [socket EXCEPT ![h] = to]

-----------------------------------------------------------------------------
(***************************************************************************)
(* connect()                                                               *)
(***************************************************************************)

(* Faulty: does not keep the handle. *)
SocketForgotten(c, h) ==
  /\ Go(c, "idle", "created")
  /\ Become(h, "unused", "created")
  /\ disposition' = [disposition EXCEPT ![h] = "none"]
  /\ handle' = [handle EXCEPT ![c] = NoDescriptor]
  /\ UNCHANGED <<entry, answer>>

Socket(c, h) ==
  /\ Go(c, "idle", "created")
  /\ Become(h, "unused", "created")
  /\ disposition' = [disposition EXCEPT ![h] = "none"]
  /\ handle' = [handle EXCEPT ![c] = h]
  /\ UNCHANGED <<entry, answer>>

(* Faulty: returns without closing the socket. *)
SetOptionFailsLeaking(c) ==
  /\ Go(c, "created", "idle")
  /\ handle' = [handle EXCEPT ![c] = NoDescriptor]
  /\ UNCHANGED <<socket, disposition, entry, answer>>

SetOptionFails(c) ==
  /\ Go(c, "created", "closing")
  /\ UNCHANGED <<socket, disposition, entry, handle, answer>>

(* std::map::insert does not replace an entry that is there already: that of an
   earlier connect with the same number. *)
Insert(c) ==
  /\ Go(c, "created", "inserted")
  /\ entry' = [entry EXCEPT ![handle[c]] = IF @ = "absent" THEN "pending" ELSE @]
  /\ UNCHANGED <<socket, disposition, handle, answer>>

Connect(c) ==
  /\ Go(c, "inserted", "connected")
  /\ Become(handle[c], "created", "pending")
  /\ UNCHANGED <<disposition, entry, handle, answer>>

ConnectFails(c) ==
  /\ Go(c, "inserted", "closing")
  /\ UNCHANGED <<socket, disposition, entry, handle, answer>>

(* Faulty: returns without a look at the map. *)
CloseSocketOnly(c) ==
  /\ Go(c, "closing", "idle")
  /\ Become(handle[c], "created", "unused")
  /\ handle' = [handle EXCEPT ![c] = NoDescriptor]
  /\ UNCHANGED <<disposition, entry, answer>>

CloseSocket(c) ==
  /\ Go(c, "closing", "erasing")
  /\ Become(handle[c], "created", "unused")
  /\ UNCHANGED <<disposition, entry, handle, answer>>

(* The socket is closed by now, the entry is found by its number. *)
Erase(c) ==
  /\ Go(c, "erasing", "idle")
  /\ entry' = [entry EXCEPT ![handle[c]] = "absent"]
  /\ handle' = [handle EXCEPT ![c] = NoDescriptor]
  /\ UNCHANGED <<socket, disposition, answer>>

-----------------------------------------------------------------------------
(***************************************************************************)
(* wait()                                                                  *)
(***************************************************************************)

(* Without an entry there is "nothing to do": wait() returns 0.  With one it
   waits for the condition, whatever the entry says. *)
Wait(c, timed) ==
  /\ \/ /\ Go(c, "connected", "answered")
        /\ entry[handle[c]] = "absent"
        /\ answer' = [answer EXCEPT ![c] = "success"]
     \/ /\ Go(c, "connected", IF timed THEN "waiting_timed" ELSE "waiting")
        /\ entry[handle[c]] # "absent"
        /\ answer' = answer
  /\ UNCHANGED <<socket, disposition, entry, handle>>

TimesOut(c) ==
  /\ Go(c, "waiting_timed", "answered")
  /\ answer' = [answer EXCEPT ![c] = "timeout"]
  /\ UNCHANGED <<socket, disposition, entry, handle>>

(* The iterator was obtained before the wait. *)
ReadResult(c) ==
  /\ Go(c, "awake", "answered")
  /\ answer' = [answer EXCEPT ![c] =
                  IF entry[handle[c]] = "absent" THEN "dangling" ELSE entry[handle[c]]]
  /\ UNCHANGED <<socket, disposition, entry, handle>>

(* The caller is done, whether it has waited or not. *)
Forget(c) ==
  /\ \/ Go(c, "connected", "idle")
     \/ Go(c, "answered", "idle")
  /\ handle' = [handle EXCEPT ![c] = NoDescriptor]
  /\ answer' = [answer EXCEPT ![c] = "none"]
  /\ UNCHANGED <<socket, disposition, entry>>

-----------------------------------------------------------------------------
(***************************************************************************)
(* The kernel, abort() and handle_connect()                                *)
(***************************************************************************)

Complete(h) ==
  /\ Become(h, "pending", "completed")
  /\ \E r \in Results : disposition' = [disposition EXCEPT ![h] = r]
  /\ UNCHANGED <<entry, step, handle, answer>>

(* cancel(): every connect that is with the kernel fails. *)
Abort ==
  /\ socket' = [h \in Descriptors |-> IF socket[h] = "pending" THEN "completed" ELSE socket[h]]
  /\ disposition' =
       [h \in Descriptors |-> IF socket[h] = "pending" THEN "failure" ELSE disposition[h]]
  /\ UNCHANGED <<entry, step, handle, answer>>

(* Faulty: does not replace an entry either. *)
RecordOnce(h) ==
  /\ Become(h, "completed", "recorded")
  /\ entry' = [entry EXCEPT ![h] = IF @ = "pending" THEN disposition[h] ELSE @]
  /\ UNCHANGED <<disposition, step, handle, answer>>

Record(h) ==
  /\ Become(h, "completed", "recorded")
  /\ entry' = [entry EXCEPT ![h] = IF @ = "absent" THEN @ ELSE disposition[h]]
  /\ UNCHANGED <<disposition, step, handle, answer>>

(* Faulty: signal() for broadcast(). *)
Signal(h) ==
  /\ Become(h, "recorded", "signalled")
  /\ IF \E c \in Clients : step[c] \in Blocked
     THEN \E c \in Clients : step[c] \in Blocked /\ step' = [step EXCEPT ![c] = "awake"]
     ELSE step' = step
  /\ UNCHANGED <<disposition, entry, handle, answer>>

Broadcast(h) ==
  /\ Become(h, "recorded", "signalled")
  /\ step' = [c \in Clients |-> IF step[c] \in Blocked THEN "awake" ELSE step[c]]
  /\ UNCHANGED <<disposition, entry, handle, answer>>

(* From now on the socket is the handler's. *)
OpenHandler(h) ==
  /\ disposition[h] = "success"
  /\ Become(h, "signalled", "established")
  /\ UNCHANGED <<disposition, entry, step, handle, answer>>

(* The connect failed, or it succeeded but the socket cannot be made blocking
   or no handler can be allocated. *)
CloseFailed(h) ==
  /\ Become(h, "signalled", "unused")
  /\ UNCHANGED <<disposition, entry, step, handle, answer>>

(* The connection ends. *)
HandlerCloses(h) ==
  /\ Become(h, "established", "unused")
  /\ UNCHANGED <<disposition, entry, step, handle, answer>>

Call(c) ==
  \/ \E h \in Descriptors : Socket(c, h)
  \/ SetOptionFails(c) \/ Insert(c) \/ Connect(c) \/ ConnectFails(c)
  \/ CloseSocket(c) \/ Erase(c)
  \/ \E timed \in BOOLEAN : Wait(c, timed)
  \/ TimesOut(c) \/ ReadResult(c) \/ Forget(c)

Dispatch(h) ==
  \/ Complete(h) \/ Record(h) \/ Broadcast(h)
  \/ OpenHandler(h) \/ CloseFailed(h) \/ HandlerCloses(h)

Next ==
  \/ \E c \in Clients : Call(c)
  \/ \E h \in Descriptors : Dispatch(h)
  \/ Abort

Spec == Init /\ [][Next]_vars

(***************************************************************************)
(* Fairness: connect() goes on; the kernel completes a connect sometime;   *)
(* handle_connect() goes on; time passes; a thread that was woken gets the *)
(* lock, which nobody keeps.  Nobody has to connect, wait, forget or abort,*)
(* and no connection has to end.                                           *)
(***************************************************************************)
Fairness ==
  /\ \A c \in Clients :
       /\ WF_vars(SetOptionFails(c) \/ Insert(c) \/ Connect(c) \/ ConnectFails(c))
       /\ WF_vars(CloseSocket(c) \/ Erase(c))
       /\ WF_vars(TimesOut(c))
       /\ WF_vars(ReadResult(c))
  /\ \A h \in Descriptors :
       /\ WF_vars(Complete(h))
       /\ WF_vars(Record(h) \/ Broadcast(h) \/ OpenHandler(h) \/ CloseFailed(h))

FairSpec == Spec /\ Fairness

-----------------------------------------------------------------------------
(***************************************************************************)
(* No socket leaks from connect(): one that is not yet, or no longer, the  *)
(* kernel's is held by exactly one thread in connect(), also on the error  *)
(* paths, and that thread closes no other.                                 *)
(***************************************************************************)
SocketsOwned ==
  /\ \A c \in Clients : step[c] \in Connecting => socket[handle[c]] = "created"
  /\ \A c, d \in Clients :
       step[c] \in Connecting /\ step[d] \in Connecting /\ handle[c] = handle[d] => c = d
  /\ \A h \in Descriptors :
       socket[h] = "created" => \E c \in Clients : step[c] \in Connecting /\ handle[c] = h

(***************************************************************************)
(* Once handle_connect() has recorded a result, and until the connection   *)
(* ends, the map holds this result or none: neither that of an earlier     *)
(* connect with the same number, which nobody erased, nor -1.  Hence who is*)
(* awakened by the broadcast that follows does not read an old result.  It *)
(* may be none, see EntryKept.                                             *)
(***************************************************************************)
EntriesCurrent ==
  \A h \in Descriptors :
    socket[h] \in {"recorded", "signalled", "established"} =>
      entry[h] \in {disposition[h], "absent"}

(***************************************************************************)
(* An entry without a result (-1) belongs to a connect whose result is to  *)
(* come, or is about to be erased: no error path of connect() leaves one   *)
(* behind, over which somebody would wait for ever, whoever else is given  *)
(* the number meanwhile.                                                   *)
(***************************************************************************)
NothingLeftPending ==
  \A h \in Descriptors :
    entry[h] = "pending" =>
      \/ socket[h] \in {"created", "pending", "completed"}
      \/ \E c \in Clients : step[c] = "erasing" /\ handle[c] = h

(***************************************************************************)
(* What makes them inductive.                                              *)
(***************************************************************************)

(* A completed operation has a result. *)
ResultKnown ==
  \A h \in Descriptors :
    socket[h] \in {"completed", "recorded", "signalled"} => disposition[h] \in Results

IInv ==
  /\ TypeOK
  /\ ResultKnown
  /\ SocketsOwned
  /\ EntriesCurrent
  /\ NothingLeftPending

(***************************************************************************)
(* wait() returns: with a time limit always, without one if it began before*)
(* the end of the connect was announced.  The broadcast wakes all of them, *)
(* so that nobody takes another one's turn.                                *)
(***************************************************************************)
WaitReturns ==
  \A c \in Clients :
    /\ step[c] = "waiting_timed" ~> step[c] # "waiting_timed"
    /\ (step[c] = "waiting" /\ socket[handle[c]] \in {"pending", "completed", "recorded"})
         ~> step[c] # "waiting"

(***************************************************************************)
(* "prevent race condition in wait()": whoever waits learns the result,    *)
(* also when it is in the map before the wait begins.                      *)
(***************************************************************************)
WaitLearns ==
  \A c \in Clients : step[c] = "waiting" ~> step[c] # "waiting"

(***************************************************************************)
(* A result that wait() returns is that of the connect it was asked about. *)
(* It is not when the map still held an earlier one and somebody else's    *)
(* broadcast ended the wait.  (To be checked with one client only: with    *)
(* several, the number may have passed on when the answer is looked at.)   *)
(***************************************************************************)
AnswerIsOwn ==
  \A c \in Clients :
    step[c] = "answered" /\ answer[c] \in Results => disposition[handle[c]] = answer[c]

(***************************************************************************)
(* The iterator wait() keeps while it sleeps stays valid.  It does not when*)
(* a connect that had the number before erases its entry, after it closed  *)
(* the socket and somebody else was given the number.                      *)
(***************************************************************************)
IteratorStays ==
  \A c \in Clients : step[c] \in {"awake"} \cup Blocked => entry[handle[c]] # "absent"

(***************************************************************************)
(* "*TODO*: when does this fail ?": the entry of a connect is there when   *)
(* its result is recorded.  It is not when the number belonged to a connect*)
(* that closed its socket and had yet to erase its entry.                  *)
(***************************************************************************)
EntryKept ==
  \A h \in Descriptors : socket[h] = "completed" => entry[h] # "absent"

=============================================================================

----------------------------- MODULE AsynchListener -----------------------------
(***************************************************************************)
(* Net_Server_AsynchListener_T: a server's listener for the proactor.  It  *)
(* keeps as many accept operations with the kernel as its backlog says:    *)
(* start() issues them, and handle_accept(), which the proactor calls with *)
(* the result of each, on as many threads as it has, issues another.       *)
(*                                                                         *)
(* The listener has no lock.  ACE's accept operations are external: close()*)
(* and cancel() fail those that are with the kernel with ECANCELED, and the*)
(* results still arrive; accept() fails once they were closed.             *)
(***************************************************************************)
EXTENDS Integers, FiniteSets

CONSTANTS
  Operations,  \* accept operations, from when they are issued to the end of handle_accept()
  Backlog      \* how many start() issues: ACE_DEFAULT_ASYNCH_BACKLOG

ASSUME OperationsAssumption ==
  /\ IsFiniteSet(Operations)
  /\ Backlog \in 1..Cardinality(Operations)

VARIABLES
  isInitialized,  \* isInitialized_
  isListening,    \* isListening_
  step,           \* what the controlling thread is doing
  issued,         \* open(): the operations it has issued
  handle,         \* handle () is valid
  accepting,      \* accept operations can be issued
  operation,      \* what has become of each operation
  lost            \* since start(), how often handle_accept() could not issue another

control == <<isInitialized, isListening, step, issued, handle, accepting>>

vars == <<control, operation, lost>>

(* With the kernel, or completed: handle_accept() will be called. *)
Completed == {"success", "failure", "cancelled"}

(* handle_accept() runs, and will issue another one or not. *)
Handled == {"reissuing", "ending"}

(***************************************************************************)
(* The type of every variable.                                             *)
(***************************************************************************)
TypeOK ==
  /\ isInitialized \in BOOLEAN
  /\ isListening \in BOOLEAN
  /\ step \in {"idle", "opening", "failed", "destroyed"}
  /\ issued \in 0..Backlog
  /\ handle \in BOOLEAN
  /\ accepting \in BOOLEAN
  /\ operation \in [Operations -> {"free", "waiting"} \cup Completed \cup Handled]
  /\ lost \in Nat

Init ==
  /\ isInitialized = FALSE
  /\ isListening = FALSE
  /\ step = "idle"
  /\ issued = 0
  /\ handle = FALSE
  /\ accepting = FALSE
  /\ operation = [o \in Operations |-> "free"]
  /\ lost = 0

Become(o, from, to) == operation[o] = from /\ operation' = [operation EXCEPT ![o] = to]

(* cancel(): the results are dispatched later. *)
CancelWaiting ==
  operation' =
    [o \in Operations |-> IF operation[o] = "waiting" THEN "cancelled" ELSE operation[o]]

-----------------------------------------------------------------------------
(***************************************************************************)
(* initialize(), start() and stop()                                        *)
(***************************************************************************)

Initialize ==
  /\ step = "idle"
  /\ isInitialized' = TRUE
  /\ UNCHANGED <<isListening, step, issued, handle, accepting, operation, lost>>

(* start() and open(), up to the first accept(). *)
Start ==
  /\ step = "idle"
  /\ isInitialized /\ ~isListening
  /\ step' = "opening"
  /\ issued' = 0
  /\ lost' = 0
  /\ handle' = TRUE
  /\ accepting' = TRUE
  /\ UNCHANGED <<isInitialized, isListening, operation>>

(* Faulty: issues one more. *)
IssueAcceptOneMore(o) ==
  /\ step = "opening"
  /\ issued <= Backlog
  /\ Become(o, "free", "waiting")
  /\ issued' = issued + 1
  /\ UNCHANGED <<isInitialized, isListening, step, handle, accepting, lost>>

IssueAccept(o) ==
  /\ step = "opening"
  /\ issued < Backlog
  /\ Become(o, "free", "waiting")
  /\ issued' = issued + 1
  /\ UNCHANGED <<isInitialized, isListening, step, handle, accepting, lost>>

(* bind(), listen() or accept() fails.  Those that were issued are cancelled. *)
OpenFails ==
  /\ step = "opening"
  /\ issued < Backlog
  /\ CancelWaiting
  /\ step' = "failed"
  /\ UNCHANGED <<isInitialized, isListening, issued, handle, accepting, lost>>

CloseListenSocket ==
  /\ step = "failed"
  /\ handle' = FALSE
  /\ accepting' = FALSE
  /\ step' = "idle"
  /\ UNCHANGED <<isInitialized, isListening, issued, operation, lost>>

Started ==
  /\ step = "opening"
  /\ issued = Backlog
  /\ isListening' = TRUE
  /\ step' = "idle"
  /\ UNCHANGED <<isInitialized, issued, handle, accepting, operation, lost>>

(* handle () keeps the number of the socket. *)
Stop ==
  /\ step = "idle"
  /\ isListening
  /\ CancelWaiting
  /\ accepting' = FALSE
  /\ isListening' = FALSE
  /\ UNCHANGED <<isInitialized, step, issued, handle, lost>>

(* (Bound: results that are dispatched after the destructor are not followed.) *)
Destroy ==
  /\ step = "idle"
  /\ step' = "destroyed"
  /\ IF isListening THEN CancelWaiting ELSE operation' = operation
  /\ UNCHANGED <<isInitialized, isListening, issued, handle, accepting, lost>>

-----------------------------------------------------------------------------
(***************************************************************************)
(* The kernel and handle_accept()                                          *)
(***************************************************************************)

Complete(o) ==
  /\ \/ Become(o, "waiting", "success")
     \/ Become(o, "waiting", "failure")
  /\ UNCHANGED <<control, lost>>

(* Faulty: returns when the accept has failed. *)
HandleAcceptOrReturn(o) ==
  /\ step # "destroyed"
  /\ operation[o] \in Completed
  /\ operation' = [operation EXCEPT ![o] =
                     IF handle /\ @ = "success" THEN "reissuing" ELSE "ending"]
  /\ UNCHANGED <<control, lost>>

(* The socket becomes that of a new connection, or is closed when it is not
   valid or none can be made.  Whether to issue another one is decided by the
   handle at the begin. *)
HandleAccept(o) ==
  /\ step # "destroyed"
  /\ operation[o] \in Completed
  /\ operation' = [operation EXCEPT ![o] =
                     IF handle /\ @ # "cancelled" THEN "reissuing" ELSE "ending"]
  /\ UNCHANGED <<control, lost>>

(* accept(): the operation stands for the next one, too. *)
Reissue(o) ==
  /\ accepting
  /\ Become(o, "reissuing", "waiting")
  /\ UNCHANGED <<control, lost>>

(* No memory, or the acceptor was closed: nobody looks at what accept() returns. *)
ReissueFails(o) ==
  /\ Become(o, "reissuing", "free")
  /\ lost' = IF accepting THEN lost + 1 ELSE lost
  /\ UNCHANGED control

EndHandling(o) ==
  /\ Become(o, "ending", "free")
  /\ UNCHANGED <<control, lost>>

Control ==
  \/ Initialize \/ Start \/ OpenFails \/ CloseListenSocket \/ Started \/ Stop \/ Destroy
  \/ \E o \in Operations : IssueAccept(o)

Proactor(o) ==
  Complete(o) \/ HandleAccept(o) \/ Reissue(o) \/ ReissueFails(o) \/ EndHandling(o)

Next == Control \/ \E o \in Operations : Proactor(o)

Spec == Init /\ [][Next]_vars

-----------------------------------------------------------------------------
(* They are, or will be, with the kernel. *)
Active == {o \in Operations : operation[o] \in {"waiting", "success", "failure", "reissuing"}}

(***************************************************************************)
(* A listener that listens is heard: it has as many accepts under way as it*)
(* was started with, whatever became of earlier ones and however often it  *)
(* was stopped and started, but for those it could not issue again.        *)
(***************************************************************************)
NotDeaf == isListening /\ step = "idle" => Cardinality(Active) + lost >= Backlog

(***************************************************************************)
(* What makes it inductive: it holds for those that open() has issued, and *)
(* handle_accept() finds the acceptor open as long as that counts.         *)
(***************************************************************************)
Open == step = "opening" \/ (isListening /\ step = "idle")

OpenIsReady ==
  /\ Open => handle /\ accepting
  /\ step \in {"opening", "failed"} => ~isListening
  /\ isListening => issued = Backlog

IssuedCounted == Open => Cardinality(Active) + lost >= issued

IInv == TypeOK /\ OpenIsReady /\ IssuedCounted /\ NotDeaf

(***************************************************************************)
(* "numberOfInitialAccepts": never more accepts than those.  A client that *)
(* was accepted right before stop() leaves one more to the next start().   *)
(***************************************************************************)
AtMostBacklog == Cardinality(Active) <= Backlog

(***************************************************************************)
(* isListening_: while it is set somebody who connects will be accepted.   *)
(* Whoever reissues does not look whether that has failed.                 *)
(***************************************************************************)
Listens == isListening /\ step = "idle" => Active # {}

=============================================================================

-------------------------------- MODULE Listener --------------------------------
(***************************************************************************)
(* Net_Server_Listener_T: a server's listener for the reactor.  One thread *)
(* controls it with initialize(), start() and stop(); the reactor, on a    *)
(* thread of its own, accepts who has connected.  The listener remembers   *)
(* in four flags what it did to the acceptor it is derived from.           *)
(***************************************************************************)
CONSTANTS
  Addresses,    \* local addresses a configuration can name
  Clients,      \* peers that connect
  NoAddress     \* not configured, not bound

VARIABLES
  configuration,  \* the address in *configuration_; isInitialized_ is that there is one
  hasChanged,     \* hasChanged_: initialize() was called since the last start()
  isOpen,         \* isOpen_
  isSuspended,    \* isSuspended_
  isListening,    \* isListening_
  step,           \* what the controlling thread is doing
  acceptor,       \* the listening socket and its registration with the reactor
  bound,          \* the address it was opened with
  backlog         \* clients the system has connected and nobody has accepted

flags == <<hasChanged, isOpen, isSuspended, isListening>>

vars == <<configuration, flags, step, acceptor, bound, backlog>>

(***************************************************************************)
(* The type of every variable.                                             *)
(***************************************************************************)
TypeOK ==
  /\ configuration \in Addresses \cup {NoAddress}
  /\ hasChanged \in BOOLEAN
  /\ isOpen \in BOOLEAN
  /\ isSuspended \in BOOLEAN
  /\ isListening \in BOOLEAN
  /\ step \in {"idle", "starting", "destroying", "destroyed"}
  /\ acceptor \in {"closed", "registered", "suspended"}
  /\ bound \in Addresses \cup {NoAddress}
  /\ backlog \subseteq Clients

Init ==
  /\ configuration = NoAddress
  /\ hasChanged = FALSE /\ isOpen = FALSE /\ isSuspended = FALSE /\ isListening = FALSE
  /\ step = "idle"
  /\ acceptor = "closed"
  /\ bound = NoAddress
  /\ backlog = {}

(* The acceptor's close(): the system resets who has not been accepted.  The
   socket is gone even when close() says that it failed. *)
CloseAcceptor ==
  /\ acceptor' = "closed"
  /\ bound' = NoAddress
  /\ backlog' = {}

-----------------------------------------------------------------------------
(***************************************************************************)
(* initialize(), start() and stop()                                        *)
(***************************************************************************)

(* Faulty: takes a change for none while it is not listening. *)
InitializeListening(a) ==
  /\ step = "idle"
  /\ configuration' = a
  /\ hasChanged' = isListening
  /\ UNCHANGED <<isOpen, isSuspended, isListening, step, acceptor, bound, backlog>>

Initialize(a) ==
  /\ step = "idle"
  /\ configuration' = a
  /\ hasChanged' = TRUE
  /\ UNCHANGED <<isOpen, isSuspended, isListening, step, acceptor, bound, backlog>>

(* Faulty: isOpen_ survives a close() that failed. *)
StartKeepingOpen ==
  /\ step = "idle"
  /\ configuration # NoAddress
  /\ ~isListening
  /\ hasChanged' = FALSE
  /\ IF hasChanged /\ isOpen
     THEN /\ CloseAcceptor
          /\ step' \in {"starting", "idle"}
          /\ isOpen' = (step' = "idle")
     ELSE /\ step' = "starting"
          /\ UNCHANGED <<isOpen, acceptor, bound, backlog>>
  /\ UNCHANGED <<configuration, isSuspended, isListening>>

(* start() up to where it opens or resumes.  The stop() it calls for a changed
   configuration does nothing: it is not listening. *)
Start ==
  /\ step = "idle"
  /\ configuration # NoAddress
  /\ ~isListening
  /\ hasChanged' = FALSE
  /\ IF hasChanged /\ isOpen
     THEN /\ CloseAcceptor
          /\ isOpen' = FALSE
          /\ step' \in {"starting", "idle"}  \* close() fails: start() returns
     ELSE /\ step' = "starting"
          /\ UNCHANGED <<isOpen, acceptor, bound, backlog>>
  /\ UNCHANGED <<configuration, isSuspended, isListening>>

Resume ==
  /\ step = "starting"
  /\ isOpen
  /\ acceptor' = IF acceptor = "suspended" THEN "registered" ELSE acceptor
  /\ isSuspended' = FALSE
  /\ isListening' = TRUE
  /\ step' = "idle"
  /\ UNCHANGED <<configuration, hasChanged, isOpen, bound, backlog>>

Open ==
  /\ step = "starting"
  /\ ~isOpen
  /\ acceptor' = "registered"
  /\ bound' = configuration
  /\ isOpen' = TRUE
  /\ isListening' = TRUE
  /\ step' = "idle"
  /\ UNCHANGED <<configuration, hasChanged, isSuspended, backlog>>

(* resume() or open() fails. *)
StartFails ==
  /\ step = "starting"
  /\ step' = "idle"
  /\ UNCHANGED <<configuration, flags, acceptor, bound, backlog>>

(* When suspend() fails nothing has happened. *)
Stop ==
  /\ step = "idle"
  /\ isListening
  /\ acceptor' = IF acceptor = "registered" THEN "suspended" ELSE acceptor
  /\ isSuspended' = TRUE
  /\ isListening' = FALSE
  /\ UNCHANGED <<configuration, hasChanged, isOpen, step, bound, backlog>>

(* The destructor resumes what it is about to close. *)
Destroy ==
  /\ step = "idle"
  /\ step' = "destroying"
  /\ acceptor' = IF isSuspended /\ acceptor = "suspended" THEN "registered" ELSE acceptor
  /\ UNCHANGED <<configuration, flags, bound, backlog>>

DestroyAcceptor ==
  /\ step = "destroying"
  /\ step' = "destroyed"
  /\ IF isOpen THEN CloseAcceptor ELSE UNCHANGED <<acceptor, bound, backlog>>
  /\ UNCHANGED <<configuration, flags>>

-----------------------------------------------------------------------------
(***************************************************************************)
(* The clients and the reactor                                             *)
(***************************************************************************)

Arrive(c) ==
  /\ acceptor # "closed"
  /\ backlog' = backlog \cup {c}
  /\ UNCHANGED <<configuration, flags, step, acceptor, bound>>

(* "always accept ALL pending connections" *)
Accept ==
  /\ acceptor = "registered"
  /\ backlog # {}
  /\ backlog' = {}
  /\ UNCHANGED <<configuration, flags, step, acceptor, bound>>

(* Faulty: returns -1, which takes the acceptor out of the reactor. *)
AcceptErrorFatal(c) ==
  /\ acceptor = "registered"
  /\ c \in backlog
  /\ backlog' \in {backlog, backlog \ {c}}
  /\ acceptor' = "suspended"
  /\ UNCHANGED <<configuration, flags, step, bound>>

(* accept() fails: the client has gone, or no descriptor is left and it stays in
   the backlog.  handle_accept_error() keeps the acceptor registered with the
   reactor. *)
AcceptError(c) ==
  /\ acceptor = "registered"
  /\ c \in backlog
  /\ backlog' \in {backlog, backlog \ {c}}
  /\ UNCHANGED <<configuration, flags, step, acceptor, bound>>

Control ==
  \/ \E a \in Addresses : Initialize(a)
  \/ Start \/ Resume \/ Open \/ StartFails \/ Stop \/ Destroy \/ DestroyAcceptor

Reactor == Accept \/ \E c \in Clients : Arrive(c) \/ AcceptError(c)

Next == Control \/ Reactor

Spec == Init /\ [][Next]_vars

(***************************************************************************)
(* Fairness: a call goes on, and the reactor dispatches what is ready.     *)
(* WF(Accept) says besides that accept() does not fail for ever for want of*)
(* descriptors: other connections end sometime.                            *)
(***************************************************************************)
Fairness ==
  /\ WF_vars(Resume \/ Open \/ StartFails)
  /\ WF_vars(DestroyAcceptor)
  /\ WF_vars(Accept)

FairSpec == Spec /\ Fairness

-----------------------------------------------------------------------------
(***************************************************************************)
(* The flags say what the acceptor does, after whatever calls came before, *)
(* also those that failed: it accepts exactly while isListening_, and is   *)
(* suspended, not closed, while isOpen_ and not isListening_, which is what*)
(* start() asserts before it resumes ("ACE_ASSERT (isSuspended_)") and     *)
(* stop() before it suspends ("ACE_ASSERT (isOpen_)").  isSuspended_ alone *)
(* says nothing: a changed configuration leaves it set.                    *)
(***************************************************************************)
FlagsTruthful ==
  step \in {"idle", "starting"} =>
    /\ isListening <=> acceptor = "registered"
    /\ isOpen <=> acceptor # "closed"
    /\ isOpen /\ ~isListening => isSuspended

(***************************************************************************)
(* Whenever start() makes the listener listen it is at the address of the  *)
(* last initialize(): an acceptor that was opened for an earlier one is    *)
(* never resumed.                                                          *)
(***************************************************************************)
NewAddress ==
  [][~isListening /\ isListening' => bound' = configuration]_vars

(***************************************************************************)
(* Who has connected is accepted, unless the listener is stopped before.   *)
(***************************************************************************)
Served ==
  \A c \in Clients : c \in backlog ~> c \notin backlog \/ ~isListening \/ step # "idle"

=============================================================================

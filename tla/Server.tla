--------------------------------- MODULE Server ---------------------------------
(***************************************************************************)
(* The listener of a server: that of the proactor or that of the reactor,  *)
(* by how the program dispatches its events.  The one that was chosen is   *)
(* controlled with initialize(), start() and stop().                       *)
(***************************************************************************)
EXTENDS AsynchListener

CONSTANTS Addresses, Clients, NoAddress  \* see Listener

VARIABLES
  useReactor,  \* how the program dispatches its events
  configuration, hasChanged, isOpen, isSuspended, reactorListening, reactorStep, acceptor, bound,
  backlog

Reactor == INSTANCE Listener WITH isListening <- reactorListening, step <- reactorStep

reactorVars ==
  <<configuration, hasChanged, isOpen, isSuspended, reactorListening, reactorStep, acceptor, bound,
    backlog>>

ServerInit == useReactor \in BOOLEAN /\ Init /\ Reactor!Init

Reactive == useReactor /\ Reactor!Next /\ UNCHANGED <<useReactor, vars>>

Proactive == ~useReactor /\ Next /\ UNCHANGED <<useReactor, reactorVars>>

ServerNext == Reactive \/ Proactive

(* Of the proactor's listener nothing is demanded. *)
ServerSpec ==
  /\ ServerInit
  /\ [][ServerNext]_<<useReactor, vars, reactorVars>>
  /\ Reactor!Fairness

(***************************************************************************)
(* The types of both listeners.                                            *)
(***************************************************************************)
TypesOK == TypeOK /\ Reactor!TypeOK

(***************************************************************************)
(* The flags of the reactor's listener say what its acceptor does.         *)
(***************************************************************************)
FlagsTruthful == Reactor!FlagsTruthful

(***************************************************************************)
(* What start() makes it listen at is the address of the last initialize().*)
(***************************************************************************)
NewAddress == Reactor!NewAddress

(***************************************************************************)
(* Who has connected to it is accepted, unless it is stopped before.       *)
(***************************************************************************)
Served == Reactor!Served

=============================================================================

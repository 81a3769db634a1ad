----------------------------- MODULE ListenerProofs -----------------------------
(***************************************************************************)
(* What the flags of Net_Server_Listener_T say, for every number of        *)
(* addresses and clients and every sequence of calls.                      *)
(***************************************************************************)
EXTENDS Listener, TLAPS

(***************************************************************************)
(* The acceptor is open exactly when it has an address, and until a change *)
(* of the configuration is noticed that is the configured one.             *)
(***************************************************************************)
AddressKept ==
  /\ acceptor = "closed" <=> bound = NoAddress
  /\ step \in {"idle", "starting"} /\ isOpen /\ ~hasChanged => bound = configuration
  /\ step = "starting" => ~hasChanged /\ ~isListening /\ configuration # NoAddress

IInv == TypeOK /\ FlagsTruthful /\ AddressKept

(***************************************************************************)
(* A new listener is closed and says so.                                   *)
(***************************************************************************)
LEMMA InitIInv == Init => IInv
  BY DEF Init, IInv, TypeOK, FlagsTruthful, AddressKept

(***************************************************************************)
(* Every call, and every step of the reactor, keeps the invariant.         *)
(***************************************************************************)
LEMMA StepIInv == IInv /\ [Next]_vars => IInv'
<1> SUFFICES ASSUME IInv, [Next]_vars
             PROVE  IInv'
  OBVIOUS
<1> USE DEF IInv, TypeOK, FlagsTruthful, AddressKept, flags
<1>1. ASSUME NEW a \in Addresses, Initialize(a) PROVE IInv'
  BY <1>1 DEF Initialize
<1>2. CASE Start
  BY <1>2 DEF Start, CloseAcceptor
<1>3. CASE Resume
  BY <1>3 DEF Resume
<1>4. CASE Open
  BY <1>4 DEF Open
<1>5. CASE StartFails
  BY <1>5 DEF StartFails
<1>6. CASE Stop
  BY <1>6 DEF Stop
<1>7. CASE Destroy
  BY <1>7 DEF Destroy
<1>8. CASE DestroyAcceptor
  BY <1>8 DEF DestroyAcceptor, CloseAcceptor
<1>9. ASSUME NEW c \in Clients, Arrive(c) PROVE IInv'
  BY <1>9 DEF Arrive
<1>10. CASE Accept
  BY <1>10 DEF Accept
<1>11. ASSUME NEW c \in Clients, AcceptError(c) PROVE IInv'
  BY <1>11 DEF AcceptError
<1>12. CASE UNCHANGED vars
  BY <1>12 DEF vars
<1> QED
  BY <1>1, <1>2, <1>3, <1>4, <1>5, <1>6, <1>7, <1>8, <1>9, <1>10, <1>11, <1>12
     DEF Next, Control, Reactor

(***************************************************************************)
(* Flags, acceptor and address agree in every reachable state.             *)
(***************************************************************************)
THEOREM InductiveInvariant == Spec => []IInv
<1> QED BY InitIInv, StepIInv, PTL DEF Spec

(***************************************************************************)
(* Every variable has its type, whatever start(), stop() and initialize()  *)
(* do.                                                                     *)
(***************************************************************************)
THEOREM TypeCorrect == Spec => []TypeOK
<1>1. IInv => TypeOK
  BY DEF IInv
<1> QED BY <1>1, InductiveInvariant, PTL

(***************************************************************************)
(* The flags tell what the acceptor does, so that the assertions of start()*)
(* and stop() hold.                                                        *)
(***************************************************************************)
THEOREM FlagsAreTruthful == Spec => []FlagsTruthful
<1>1. IInv => FlagsTruthful
  BY DEF IInv
<1> QED BY <1>1, InductiveInvariant, PTL

(***************************************************************************)
(* A step of start() that begins to listen does so at the configured       *)
(* address.                                                                *)
(***************************************************************************)
LEMMA StepNewAddress ==
  IInv /\ [Next]_vars => [~isListening /\ isListening' => bound' = configuration]_vars
<1> SUFFICES ASSUME IInv, Next, ~isListening, isListening'
             PROVE  bound' = configuration
  BY DEF vars
<1> USE DEF IInv, TypeOK, AddressKept, flags
<1>1. CASE Resume
  BY <1>1 DEF Resume
<1>2. CASE Open
  BY <1>2 DEF Open
<1>3. ~(Resume \/ Open) => isListening' = isListening
  BY DEF Next, Control, Reactor, Initialize, Start, StartFails, Stop, Destroy,
         DestroyAcceptor, Arrive, Accept, AcceptError
<1> QED BY <1>1, <1>2, <1>3

(***************************************************************************)
(* After initialize() with another address start() never resumes the       *)
(* acceptor of the old one.                                                *)
(***************************************************************************)
THEOREM ListensAtNewAddress == Spec => NewAddress
<1> QED BY InductiveInvariant, StepNewAddress, PTL DEF Spec, NewAddress

=============================================================================

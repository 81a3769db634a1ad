------------------------------ MODULE ServerProofs ------------------------------
(***************************************************************************)
(* Safety of Server, of whichever listener it has chosen.                  *)
(*                                                                         *)
(* First the listener of the proactor, which is never deaf, for any number *)
(* of accepts.  The proof counts those that are under way: each step       *)
(* changes the state of one operation, or cancels them when nobody counts. *)
(***************************************************************************)
EXTENDS Server, FiniteSetTheorems, TLAPS

(* The number of accepts under way, of whichever step. *)
LEMMA ActiveFinite == IsFiniteSet(Active) /\ Cardinality(Active) \in Nat
<1>1. Active \subseteq Operations
  BY DEF Active
<1> QED
  BY <1>1, OperationsAssumption, FS_Subset, FS_CardinalityType

(* The backlog is a number. *)
LEMMA BacklogNat == Backlog \in Nat
<1>1. Cardinality(Operations) \in Nat
  BY OperationsAssumption, FS_CardinalityType
<1> QED
  BY <1>1, OperationsAssumption

(* A step that keeps every accept that is under way does not make them fewer. *)
LEMMA ActiveKept ==
  ASSUME Active \subseteq Active', IsFiniteSet(Active')
  PROVE  Cardinality(Active') >= Cardinality(Active)
<1>1. Cardinality(Active) <= Cardinality(Active')
  BY FS_Subset
<1> QED
  BY <1>1, ActiveFinite, FS_CardinalityType

(* The same of the next state. *)
LEMMA ActiveFiniteNext == IsFiniteSet(Active') /\ Cardinality(Active') \in Nat
<1>1. Active' \subseteq Operations
  BY DEF Active
<1> QED
  BY <1>1, OperationsAssumption, FS_Subset, FS_CardinalityType

(* The initial state. *)
LEMMA InitIInv == Init => IInv
<1> SUFFICES ASSUME Init PROVE IInv
  OBVIOUS
<1>1. issued \in 0..Backlog /\ lost \in Nat
  BY BacklogNat DEF Init
<1>2. TypeOK
  BY <1>1 DEF Init, TypeOK
<1>3. OpenIsReady /\ IssuedCounted /\ NotDeaf
  BY DEF Init, OpenIsReady, IssuedCounted, NotDeaf, Open
<1> QED
  BY <1>2, <1>3 DEF IInv

(* A step does not change the type of a variable. *)
LEMMA StepTypeOK == TypeOK /\ [Next]_vars => TypeOK'
<1> SUFFICES ASSUME TypeOK, [Next]_vars PROVE TypeOK'
  OBVIOUS
<1> USE BacklogNat DEF TypeOK
<1>1. CASE UNCHANGED vars
  BY <1>1 DEF vars, control
<1>2. CASE \E o \in Operations : Proactor(o)
  <2>1. PICK o \in Operations : Proactor(o)
    BY <1>2
  <2> QED
    BY <2>1 DEF Proactor, Complete, HandleAccept, Reissue, ReissueFails, EndHandling, Become,
                Completed, Handled, control
<1>3. CASE Control
  <2>1. CASE \E o \in Operations : IssueAccept(o)
    BY <2>1 DEF IssueAccept, Become
  <2>2. CASE Start
    <3>1. issued' \in 0..Backlog /\ lost' \in Nat
      BY <2>2 DEF Start
    <3> QED
      BY <2>2, <3>1 DEF Start
  <2>4. CASE Initialize \/ CloseListenSocket \/ Started
    BY <2>4 DEF Initialize, CloseListenSocket, Started
  <2>3. CASE OpenFails \/ Stop \/ Destroy
    BY <2>3 DEF OpenFails, Stop, Destroy, CancelWaiting, Completed
  <2> QED
    BY <1>3, <2>1, <2>2, <2>3, <2>4 DEF Control
<1> QED
  BY <1>1, <1>2, <1>3 DEF Next

(* Nor the order of the calls. *)
LEMMA StepOpenIsReady == TypeOK /\ OpenIsReady /\ [Next]_vars => OpenIsReady'
<1> SUFFICES ASSUME TypeOK, OpenIsReady, [Next]_vars PROVE OpenIsReady'
  OBVIOUS
<1> USE BacklogNat DEF TypeOK, OpenIsReady, Open
<1>1. CASE UNCHANGED control
  BY <1>1 DEF control
<1>2. CASE Control
  BY <1>2 DEF Control, Initialize, Start, IssueAccept, OpenFails, CloseListenSocket, Started,
              Stop, Destroy
<1> QED
  BY <1>1, <1>2 DEF Next, vars, Proactor, Complete, HandleAccept, Reissue, ReissueFails, EndHandling

(* Each accept that open() has issued is under way, or was lost. *)
LEMMA StepIssuedCounted ==
  TypeOK /\ OpenIsReady /\ IssuedCounted /\ [Next]_vars => IssuedCounted'
<1> SUFFICES ASSUME TypeOK, OpenIsReady, IssuedCounted, [Next]_vars, Open'
             PROVE  Cardinality(Active') + lost' >= issued'
  BY DEF IssuedCounted
<1>1. /\ IsFiniteSet(Active) /\ Cardinality(Active) \in Nat
      /\ IsFiniteSet(Active') /\ Cardinality(Active') \in Nat
  BY ActiveFinite, ActiveFiniteNext
<1>2. lost \in Nat /\ issued \in Nat
  BY BacklogNat DEF TypeOK
<1>3. ASSUME Open, Active \subseteq Active', lost' = lost, issued' = issued
      PROVE  Cardinality(Active') + lost' >= issued'
  BY <1>1, <1>2, <1>3, ActiveKept DEF IssuedCounted
<1>4. CASE UNCHANGED vars
  <2>1. Open /\ Active = Active'
    BY <1>4 DEF vars, control, Open, Active
  <2> QED
    BY <1>3, <1>4, <2>1 DEF vars, control
<1>5. ASSUME NEW o \in Operations, Proactor(o)
      PROVE  Cardinality(Active') + lost' >= issued'
  <2>1. Open /\ issued' = issued
    BY <1>5 DEF Open, Proactor, Complete, HandleAccept, Reissue, ReissueFails, EndHandling, control
  <2>2. CASE Complete(o) \/ Reissue(o) \/ EndHandling(o)
    <3>1. Active \subseteq Active' /\ lost' = lost
      BY <2>2 DEF Complete, Reissue, EndHandling, Become, Active, TypeOK
    <3> QED
      BY <1>3, <2>1, <3>1
  <2>3. CASE HandleAccept(o)
    <3>1. Active \subseteq Active' /\ lost' = lost
      BY <2>1, <2>3 DEF HandleAccept, Active, TypeOK, OpenIsReady, Completed
    <3> QED
      BY <1>3, <2>1, <3>1
  <2>4. CASE ReissueFails(o)
    <3>1. lost' = lost + 1
      BY <2>1, <2>4 DEF ReissueFails, OpenIsReady
    <3>2. Active' = Active \ {o} /\ o \in Active
      BY <2>4 DEF ReissueFails, Become, Active, TypeOK
    <3>3. Cardinality(Active') = Cardinality(Active) - 1
      BY <1>1, <3>2, FS_RemoveElement
    <3> QED
      BY <1>1, <1>2, <2>1, <3>1, <3>3 DEF IssuedCounted
  <2> QED
    BY <1>5, <2>2, <2>3, <2>4 DEF Proactor
<1>6. CASE Control
  <2>1. ASSUME NEW o \in Operations, IssueAccept(o)
        PROVE  Cardinality(Active') + lost' >= issued'
    <3>1. Active' = Active \cup {o} /\ o \notin Active
      BY <2>1 DEF IssueAccept, Become, Active, TypeOK
    <3>2. Cardinality(Active') = Cardinality(Active) + 1
      BY <1>1, <3>1, FS_AddElement
    <3>3. Open /\ lost' = lost /\ issued' = issued + 1
      BY <2>1 DEF IssueAccept, Open
    <3> QED
      BY <1>1, <1>2, <3>2, <3>3 DEF IssuedCounted
  <2>2. CASE Start
    BY <1>1, <2>2 DEF Start
  <2>3. CASE Initialize \/ Started
    <3>1. Open /\ Active = Active' /\ lost' = lost /\ issued' = issued
      BY <2>3 DEF Initialize, Started, Open, Active
    <3> QED
      BY <1>3, <3>1
  <2>4. ~(OpenFails \/ Stop \/ Destroy \/ CloseListenSocket)
    BY DEF OpenFails, Stop, Destroy, CloseListenSocket, Open, OpenIsReady
  <2> QED
    BY <1>6, <2>1, <2>2, <2>3, <2>4 DEF Control
<1> QED
  BY <1>4, <1>5, <1>6 DEF Next

(* Every step keeps the invariant. *)
LEMMA StepIInv == IInv /\ [Next]_vars => IInv'
<1> SUFFICES ASSUME IInv, [Next]_vars PROVE IInv'
  OBVIOUS
<1>1. TypeOK' /\ OpenIsReady' /\ IssuedCounted'
  BY StepTypeOK, StepOpenIsReady, StepIssuedCounted DEF IInv
<1>2. NotDeaf'
  BY <1>1 DEF NotDeaf, IssuedCounted, OpenIsReady, Open
<1> QED
  BY <1>1, <1>2 DEF IInv

(***************************************************************************)
(* The inductive invariant: the types, the order of the calls and the      *)
(* count of the accepts under way.                                         *)
(***************************************************************************)
THEOREM InductiveInvariant == Spec => []IInv
<1> QED
  BY InitIInv, StepIInv, PTL DEF Spec

(***************************************************************************)
(* Every variable keeps its type, for any backlog.                         *)
(***************************************************************************)
THEOREM TypeCorrect == Spec => []TypeOK
<1>1. IInv => TypeOK
  BY DEF IInv
<1> QED
  BY <1>1, InductiveInvariant, PTL

(***************************************************************************)
(* handle_accept() issues as many accepts as it uses up: a listener that   *)
(* listens has as many under way as it was started with, less those it     *)
(* could not issue again.                                                  *)
(***************************************************************************)
THEOREM StaysAccepting == Spec => []NotDeaf
<1>1. IInv => NotDeaf
  BY DEF IInv
<1> QED
  BY <1>1, InductiveInvariant, PTL

-----------------------------------------------------------------------------
(***************************************************************************)
(* The server.  Of the listener of the reactor its own proofs are used.    *)
(***************************************************************************)
ReactorProofs ==
  INSTANCE ListenerProofs WITH isListening <- reactorListening, step <- reactorStep

(* It is the same listener. *)
LEMMA SameListener ==
  /\ Reactor!Init => ReactorProofs!Init
  /\ Reactor!Next => ReactorProofs!Next
  /\ UNCHANGED reactorVars => UNCHANGED ReactorProofs!vars
<1>1. Reactor!Init => ReactorProofs!Init
  BY DEF Reactor!Init, ReactorProofs!Init
<1>2. Reactor!Control => ReactorProofs!Control
  BY DEF Reactor!Control, ReactorProofs!Control,
         Reactor!Initialize, Reactor!Start, Reactor!Resume, Reactor!Open, Reactor!StartFails,
         Reactor!Stop, Reactor!Destroy, Reactor!DestroyAcceptor, Reactor!CloseAcceptor,
         Reactor!flags,
         ReactorProofs!Initialize, ReactorProofs!Start, ReactorProofs!Resume, ReactorProofs!Open,
         ReactorProofs!StartFails, ReactorProofs!Stop, ReactorProofs!Destroy,
         ReactorProofs!DestroyAcceptor, ReactorProofs!CloseAcceptor, ReactorProofs!flags
<1>3. Reactor!Reactor => ReactorProofs!Reactor
  BY DEF Reactor!Reactor, ReactorProofs!Reactor,
         Reactor!Arrive, Reactor!Accept, Reactor!AcceptError, Reactor!flags,
         ReactorProofs!Arrive, ReactorProofs!Accept, ReactorProofs!AcceptError,
         ReactorProofs!flags
<1>4. UNCHANGED reactorVars => UNCHANGED ReactorProofs!vars
  BY DEF reactorVars, ReactorProofs!vars, ReactorProofs!flags
<1> QED
  BY <1>1, <1>2, <1>3, <1>4 DEF Reactor!Next, ReactorProofs!Next

(* The invariants of both listeners: the one that was not chosen stays as it is. *)
ServerIInv == IInv /\ ReactorProofs!IInv

serverVars == <<useReactor, vars, reactorVars>>

(* Neither listener has been initialized. *)
LEMMA ServerInitIInv == ServerInit => ServerIInv
  BY InitIInv, SameListener, ReactorProofs!InitIInv DEF ServerInit, ServerIInv

(* Each step of the server is one of the listener that was chosen, and none of
   the other. *)
LEMMA ServerSteps ==
  [ServerNext]_serverVars => [Next]_vars /\ [ReactorProofs!Next]_(ReactorProofs!vars)
<1>1. Reactive => UNCHANGED vars /\ ReactorProofs!Next
  BY SameListener DEF Reactive
<1>2. Proactive => Next /\ UNCHANGED ReactorProofs!vars
  BY SameListener DEF Proactive
<1>3. UNCHANGED serverVars => UNCHANGED vars /\ UNCHANGED ReactorProofs!vars
  BY SameListener DEF serverVars
<1> QED
  BY <1>1, <1>2, <1>3 DEF ServerNext

(***************************************************************************)
(* The invariants of both listeners hold of a server, whichever it uses.   *)
(***************************************************************************)
THEOREM ServerInvariant == ServerSpec => []ServerIInv
<1>1. ServerIInv /\ [ServerNext]_serverVars => ServerIInv'
  BY ServerSteps, StepIInv, ReactorProofs!StepIInv DEF ServerIInv
<1> QED
  BY ServerInitIInv, <1>1, PTL DEF ServerSpec, serverVars

(***************************************************************************)
(* Every variable of both listeners keeps its type.                        *)
(***************************************************************************)
THEOREM ServerTypes == ServerSpec => []TypesOK
<1>1. ReactorProofs!TypeOK => Reactor!TypeOK
  BY DEF Reactor!TypeOK, ReactorProofs!TypeOK
<1>2. ServerIInv => TypesOK
  BY <1>1 DEF ServerIInv, IInv, ReactorProofs!IInv, TypesOK
<1> QED
  BY <1>2, ServerInvariant, PTL

(***************************************************************************)
(* The flags of the reactor's listener tell what its acceptor does, so that*)
(* the assertions of start() and stop() hold.                              *)
(***************************************************************************)
THEOREM ServerFlagsTruthful == ServerSpec => []FlagsTruthful
<1>1. ReactorProofs!FlagsTruthful => FlagsTruthful
  BY DEF FlagsTruthful, Reactor!FlagsTruthful, ReactorProofs!FlagsTruthful
<1>2. ServerIInv => FlagsTruthful
  BY <1>1 DEF ServerIInv, ReactorProofs!IInv
<1> QED
  BY <1>2, ServerInvariant, PTL

(***************************************************************************)
(* A server that accepts with the proactor has as many accepts under way   *)
(* as it was started with, less those it could not issue again.            *)
(***************************************************************************)
THEOREM ServerNotDeaf == ServerSpec => []NotDeaf
<1>1. ServerIInv => NotDeaf
  BY DEF ServerIInv, IInv
<1> QED
  BY <1>1, ServerInvariant, PTL

(***************************************************************************)
(* After initialize() with another address a server that accepts with the  *)
(* reactor never resumes the acceptor of the old one.                      *)
(***************************************************************************)
THEOREM ServerNewAddress == ServerSpec => NewAddress
<1>1. ServerIInv /\ [ServerNext]_serverVars
        => [~reactorListening /\ reactorListening' => bound' = configuration]_(Reactor!vars)
  <2>1. UNCHANGED Reactor!vars <=> UNCHANGED ReactorProofs!vars
    BY DEF Reactor!vars, ReactorProofs!vars, Reactor!flags, ReactorProofs!flags
  <2> QED
    BY <2>1, ServerSteps, ReactorProofs!StepNewAddress DEF ServerIInv
<1> QED
  BY <1>1, ServerInvariant, PTL DEF ServerSpec, serverVars, NewAddress, Reactor!NewAddress

=============================================================================

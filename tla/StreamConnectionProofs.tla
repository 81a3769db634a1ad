------------------------ MODULE StreamConnectionProofs ------------------------
(***************************************************************************)
(* Safety of StreamConnection for every finite set of users, any number of *)
(* reactor threads and of notifications, as long as events are dispatched  *)
(* after open().                                                           *)
(***************************************************************************)
EXTENDS StreamConnection, FiniteSetTheorems, TLAPS

-----------------------------------------------------------------------------
(***************************************************************************)
(* The owners of references, counted.                                      *)
(***************************************************************************)

(* The sets of owners are finite, and can be counted. *)
LEMMA OwnersFinite ==
  /\ IsFiniteSet(Output) /\ IsFiniteSet(Holding)
  /\ Cardinality(Output) \in Nat /\ Cardinality(Holding) \in Nat
  /\ Cardinality(Output) = 0 <=> Output = {}
  /\ Cardinality(Holding) = 0 <=> Holding = {}
  <1>1. IsFiniteSet(Output) /\ IsFiniteSet(Holding)
    BY ConstantsAssumption, FS_Subset DEF Output, Holding
  <1>. QED
    BY <1>1, FS_CardinalityType, FS_EmptySet

(* A step of a caller that neither begins nor ends an answer to a notification. *)
LEMMA OutputStays ==
  ASSUME TypeOK, NEW c \in Callers, NEW from, NEW to, Step(c, from, to),
         c \in Notified =>
           (from = "sending" \/ Closing(c) <=> to = "sending" \/ Closing(c)')
  PROVE  Output' = Output
  <1>1. \A d \in Notified \ {c} : pc'[d] = pc[d]
    BY DEF TypeOK, Step, Callers
  <1>2. c \in Notified => pc[c] = from /\ pc'[c] = to
    BY DEF TypeOK, Step
  <1>. QED
    BY <1>1, <1>2 DEF Output, Closing

(* handle_output() begins: one more. *)
LEMMA OutputJoins ==
  ASSUME TypeOK, NEW c \in Notified, Step(c, "none", "sending")
  PROVE  Cardinality(Output') = Cardinality(Output) + 1
  <1>1. c \notin Output /\ Output' = Output \cup {c}
    BY DEF TypeOK, Step, Callers, Output, Closing
  <1>. QED
    BY <1>1, OwnersFinite, FS_AddElement

(* The answer has been given: one less. *)
LEMMA OutputLeaves ==
  ASSUME TypeOK, NEW c \in Notified,
         Step(c, "sending", "unlocking") \/ Step(c, "releasing", "none")
  PROVE  /\ Cardinality(Output) >= 1
         /\ Cardinality(Output') = Cardinality(Output) - 1
  <1>1. c \in Output /\ Output' = Output \ {c}
    BY DEF TypeOK, Step, Callers, Output, Closing
  <1>2. Cardinality(Output') = Cardinality(Output) - 1
    BY <1>1, OwnersFinite, FS_RemoveElement
  <1>. QED
    BY <1>1, <1>2, OwnersFinite

(* A lookup: one more user. *)
LEMMA UserJoins ==
  ASSUME TypeOK, NEW u \in Users, Become(u, "away", "holding")
  PROVE  Cardinality(Holding') = Cardinality(Holding) + 1
  <1>1. u \notin Holding /\ Holding' = Holding \cup {u}
    BY DEF TypeOK, Become, Holding
  <1>. QED
    BY <1>1, OwnersFinite, FS_AddElement

(* The decrease() of a user: one less. *)
LEMMA UserLeaves ==
  ASSUME TypeOK, NEW u \in Users, Become(u, "holding", "away")
  PROVE  /\ Cardinality(Holding) >= 1
         /\ Cardinality(Holding') = Cardinality(Holding) - 1
  <1>1. u \in Holding /\ Holding' = Holding \ {u}
    BY DEF TypeOK, Become, Holding
  <1>2. Cardinality(Holding') = Cardinality(Holding) - 1
    BY <1>1, OwnersFinite, FS_RemoveElement
  <1>. QED
    BY <1>1, <1>2, OwnersFinite

(* close() by a user who keeps the connection. *)
LEMMA UserStays ==
  ASSUME TypeOK, NEW u \in Users,
         Become(u, "holding", "closing") \/ Become(u, "closing", "holding")
  PROVE  Holding' = Holding
  BY DEF TypeOK, Become, Holding

(* decrease() of a reference that is there deletes the object if it is the last. *)
LEMMA Decreases ==
  ASSUME TypeOK, DeletedAtZero, count >= 1, Decrease
  PROVE  /\ count' = count - 1
         /\ count' \in Nat
         /\ destroyed' \in BOOLEAN
         /\ DeletedAtZero'
  <1>1. count \in Nat /\ count' = count - 1
    BY DEF TypeOK, Decrease
  <1>2. destroyed' \in BOOLEAN /\ (destroyed' <=> destroyed \/ count = 1)
    BY Zenon DEF TypeOK, Decrease
  <1>3. ~destroyed
    BY <1>1 DEF DeletedAtZero
  <1>4. count' = 0 <=> count = 1
    BY <1>1
  <1>. QED
    BY <1>1, <1>2, <1>3, <1>4 DEF DeletedAtZero

(* What the balance says of each owner. *)
LEMMA Shares ==
  ASSUME TypeOK, ReferencesAccounted
  PROVE  /\ Constructor \in 0 .. 1
         /\ listed => count >= 1 + Constructor
         /\ queued > 0 => count >= 1
         /\ Output # {} => count >= 1 + Boole(listed)
         /\ Holding # {} => count >= 1
         /\ Constructor = 1 => count >= 1 + Boole(listed)
         /\ count = 0 => /\ Constructor = 0 /\ ~listed /\ queued = 0
                         /\ Output = {} /\ Holding = {}
  <1> DEFINE b == Boole(listed)
             x == Cardinality(Output)
             y == Cardinality(Holding)
  <1>1. b \in 0 .. 1 /\ (listed <=> b = 1)
    BY DEF Boole
  <1>2. x \in Nat /\ y \in Nat /\ (x = 0 <=> Output = {}) /\ (y = 0 <=> Holding = {})
    BY OwnersFinite
  <1>3. queued \in Nat /\ count \in Nat
    BY ConstantsAssumption DEF TypeOK
  <1>4. Constructor = count - b - queued - x - y /\ Constructor \in 0 .. 1
    BY DEF ReferencesAccounted, Constructor
  <1> HIDE DEF b, x, y
  <1>5. /\ b = 1 => count >= 1 + Constructor
        /\ queued > 0 => count >= 1
        /\ x # 0 => count >= 1 + b
        /\ y # 0 => count >= 1
        /\ Constructor = 1 => count >= 1 + b
        /\ count = 0 => Constructor = 0 /\ b = 0 /\ queued = 0 /\ x = 0 /\ y = 0
    BY <1>1, <1>2, <1>3, <1>4
  <1>. QED
    BY <1>1, <1>2, <1>4, <1>5 DEF b

-----------------------------------------------------------------------------
(***************************************************************************)
(* The order of the callbacks, whatever the counters say.                  *)
(***************************************************************************)
Control == InSequence /\ RegistrationFollows /\ StreamStopped

(* open() has the connection to itself. *)
LEMMA OpenControl ==
  ASSUME TypeOK, Control, Open
  PROVE  Control'
  <1> USE DEF Control, InSequence, RegistrationFollows, StreamStopped, Decided, Closing, Opener,
        manager, references, socket, reactor
  <1>1. CASE StartFails
    BY <1>1 DEF StartFails
  <1>2. CASE StartStream
    BY <1>2 DEF StartStream
  <1>3. CASE RegisterWithReactor
    BY <1>3 DEF RegisterWithReactor, Callers
  <1>4. CASE RegisterFails
    BY <1>4 DEF RegisterFails
  <1>5. CASE Register
    BY <1>5 DEF Register
  <1>6. CASE AssignRegistered
    BY <1>6 DEF AssignRegistered
  <1>7. CASE Opened
    BY <1>7 DEF Opened
  <1>8. CASE OpenFailed
    BY <1>8, ConstantsAssumption DEF OpenFailed, Callers, TypeOK
  <1>. QED
    BY <1>1, <1>2, <1>3, <1>4, <1>5, <1>6, <1>7, <1>8 DEF Open

(* The reader closes only what it found in the reactor. *)
LEMMA InputControl ==
  ASSUME TypeOK, Control, ~ConcurrentDispatch, InputFails \/ InputRemoved
  PROVE  Control'
  <1> USE ConstantsAssumption
      DEF Control, InSequence, RegistrationFollows, StreamStopped, Decided, Closing, Step,
        Callers, TypeOK, manager, references, socket, reactor
  <1>1. CASE InputFails
    BY <1>1 DEF InputFails
  <1>2. CASE InputRemoved
    BY <1>2 DEF InputRemoved
  <1>. QED
    BY <1>1, <1>2

(* Notifications are answered on threads of their own. *)
LEMMA OutputControl ==
  ASSUME TypeOK, Control, ~ConcurrentDispatch, NEW c \in Notified, Dispatch(c)
  PROVE  Control'
  <1> USE ConstantsAssumption
      DEF Control, InSequence, RegistrationFollows, StreamStopped, Decided, Closing, Step,
        Callers, TypeOK, manager, references, socket, reactor
  <1>1. CASE OutputBegins(c)
    BY <1>1 DEF OutputBegins
  <1>2. CASE OutputSent(c)
    BY <1>2 DEF OutputSent
  <1>3. CASE OutputReturns(c)
    BY <1>3 DEF OutputReturns
  <1>4. CASE OutputFails(c)
    BY <1>4 DEF OutputFails
  <1>. QED
    BY <1>1, <1>2, <1>3, <1>4 DEF Dispatch

(* handle_close() takes the connection out of the reactor and stops the stream. *)
LEMMA CloseControl ==
  ASSUME TypeOK, Control, NEW c \in Callers, HandleClose(c)
  PROVE  Control'
  <1> USE ConstantsAssumption
      DEF Control, InSequence, RegistrationFollows, StreamStopped, Decided, Closing, Step,
        Callers, TypeOK, manager, references, socket, reactor
  <1>1. CASE CloseBegin(c)
    BY <1>1 DEF CloseBegin
  <1>2. CASE CloseMark(c)
    BY <1>2 DEF CloseMark
  <1>3. CASE CloseStop(c)
    BY <1>3 DEF CloseStop
  <1>4. CASE CloseSample(c)
    BY <1>4 DEF CloseSample
  <1>5. CASE CloseShutDown(c)
    BY <1>5 DEF CloseShutDown
  <1>6. CASE CloseLeave(c)
    BY <1>6 DEF CloseLeave
  <1>7. CASE CloseUnlist(c)
    BY <1>7 DEF CloseUnlist
  <1>8. CASE CloseRelease(c)
    BY <1>8 DEF CloseRelease
  <1>. QED
    BY <1>1, <1>2, <1>3, <1>4, <1>5, <1>6, <1>7, <1>8 DEF HandleClose

(* Senders and users do not interfere. *)
LEMMA UseControl ==
  ASSUME TypeOK, Control,
         \/ \E s \in Users \cup {Worker} : Send(s)
         \/ \E u \in Users : Use(u)
  PROVE  Control'
  <1>1. /\ UNCHANGED <<opener, pc, running, armed, listed, isRegistered>>
    BY DEF Send, Use, Get, Close, CloseHandle, Release, manager, references, socket, reactor
  <1>. QED
    BY <1>1 DEF Control, InSequence, RegistrationFollows, StreamStopped, Closing

-----------------------------------------------------------------------------
(***************************************************************************)
(* The types and the balance.                                              *)
(***************************************************************************)

(* open(): the constructor's reference is there, the manager's comes. *)
LEMMA OpenCounts ==
  ASSUME IInv, Control', Open
  PROVE  IInv'
  <1>1. Holding' = Holding
    BY DEF Open, StartFails, StartStream, RegisterWithReactor, RegisterFails, Register,
         AssignRegistered, Opened, OpenFailed, Holding
  <1>2. Output' = Output
    BY ConstantsAssumption DEF IInv, TypeOK, Callers, Open, StartFails, StartStream,
         RegisterWithReactor, RegisterFails, Register, AssignRegistered, Opened, OpenFailed,
         Output, Closing
  <1>3. opener # "done"
    BY DEF Open, StartFails, StartStream, RegisterWithReactor, RegisterFails, Register,
         AssignRegistered, Opened, OpenFailed, Opener
  <1>4. Constructor = 1 /\ count >= 1
    BY <1>3, Shares DEF IInv, TypeOK, ReferencesAccounted, Boole
  <1>5. CASE Register
    <2>1. ~listed
      BY <1>5 DEF IInv, RegistrationFollows, Register, Opener
    <2>2. Constructor' = 1 /\ count' = count + 1
      BY <1>1, <1>2, <1>4, <1>5, <2>1, OwnersFinite
         DEF IInv, TypeOK, Register, Constructor, Boole, reactor
    <2>. QED
      BY <1>4, <1>5, <2>2 DEF IInv, TypeOK, Control, Register, Opener, Openers, reactor, socket,
           ReferencesAccounted, ConstructorNeeded, SamplesOwned, DeletedAtZero
  <1>6. CASE ~Register
    <2>1. UNCHANGED <<count, destroyed, listed, queued, sampled, party>>
      BY <1>6 DEF Open, StartFails, StartStream, RegisterWithReactor, RegisterFails,
           AssignRegistered, Opened, OpenFailed, references, manager, reactor
    <2>2. Constructor' = 1
      BY <1>1, <1>2, <1>4, <2>1 DEF Constructor
    <2>3. SamplesOwned'
      <3>1. pc' = pc \/ pc' = [pc EXCEPT ![Connector] = "entered"]
        BY <1>6 DEF Open, StartFails, StartStream, RegisterWithReactor, RegisterFails,
             AssignRegistered, Opened, OpenFailed
      <3>2. \A c \in Callers : pc'[c] \in Decided => pc[c] \in Decided
        BY <3>1 DEF IInv, TypeOK, Decided
      <3>. QED
        BY <2>1, <3>2 DEF IInv, SamplesOwned
    <2>4. TypeOK'
      <3>1. pc' = pc \/ pc' = [pc EXCEPT ![Connector] = "entered"]
        BY <1>6 DEF Open, StartFails, StartStream, RegisterWithReactor, RegisterFails,
             AssignRegistered, Opened, OpenFailed
      <3>2. pc' \in [Callers -> Steps]
        BY <3>1 DEF IInv, TypeOK, Steps
      <3>3. opener' \in Openers /\ status' \in Statuses
        BY <1>6 DEF IInv, TypeOK, Open, StartFails, StartStream, RegisterWithReactor,
             RegisterFails, AssignRegistered, Opened, OpenFailed, Opener, Openers, Statuses
      <3>4. /\ running' \in BOOLEAN /\ armed' \in BOOLEAN /\ isRegistered' \in BOOLEAN
            /\ socketOpen' \in BOOLEAN /\ shut' \in BOOLEAN
        BY <1>6 DEF IInv, TypeOK, Open, StartFails, StartStream, RegisterWithReactor,
             RegisterFails, AssignRegistered, Opened, OpenFailed, manager, reactor, socket
      <3>. QED
        BY <2>1, <3>2, <3>3, <3>4 DEF IInv, TypeOK
    <2>. QED
      BY <2>1, <2>2, <2>3, <2>4 DEF IInv, Control, ReferencesAccounted, ConstructorNeeded,
           DeletedAtZero
  <1>. QED
    BY <1>5, <1>6

(* handle_input(): the constructor's reference goes from the reactor to the reader. *)
LEMMA InputCounts ==
  ASSUME IInv, Control', InputFails \/ InputRemoved
  PROVE  IInv'
  <1>1. UNCHANGED <<opener, count, destroyed, listed, isRegistered, queued, sampled, party, running,
                    socketOpen, shut>>
    BY DEF InputFails, InputRemoved, references, manager, reactor, socket
  <1>2. Output' = Output
    BY ConstantsAssumption DEF IInv, TypeOK, Callers, InputFails, InputRemoved, Step, Output, Closing
  <1>3. Constructor' = Constructor
    BY <1>1, <1>2 DEF Constructor, Holding
  <1>4. TypeOK'
    <2>1. \E to \in Steps : pc' = [pc EXCEPT ![Reader] = to]
      BY DEF InputFails, InputRemoved, Step, Steps
    <2>2. pc' \in [Callers -> Steps]
      BY <2>1 DEF IInv, TypeOK
    <2>3. armed' \in BOOLEAN /\ status' \in Statuses
      BY DEF IInv, TypeOK, InputFails, InputRemoved, Statuses, PeerClosed, reactor
    <2>. QED
      BY <1>1, <2>2, <2>3 DEF IInv, TypeOK
  <1>5. SamplesOwned'
    <2>1. \E to \in {"failing", "entered", "none"} : pc' = [pc EXCEPT ![Reader] = to]
      BY DEF InputFails, InputRemoved, Step
    <2>2. \A c \in Callers : pc'[c] \in Decided => pc[c] \in Decided
      BY <2>1 DEF IInv, TypeOK, Decided
    <2>. QED
      BY <1>1, <2>2 DEF IInv, SamplesOwned
  <1>6. Constructor = 1
    BY DEF IInv, InputFails, InputRemoved, Step, ReferencesAccounted, ConstructorNeeded
  <1>. QED
    BY <1>1, <1>3, <1>4, <1>5, <1>6 DEF IInv, Control, ReferencesAccounted, ConstructorNeeded,
         DeletedAtZero

(* notify(): one more, and there is somebody to send it. *)
LEMMA SendCounts ==
  ASSUME IInv, Control', NEW s \in Users \cup {Worker}, Send(s)
  PROVE  IInv'
  <1>1. UNCHANGED <<Output, Holding>>
    BY DEF Send, Output, Holding, Closing
  <1>2. Constructor = 1 /\ count >= 1
    BY Shares DEF Send, IInv, TypeOK, ConstructorNeeded, Boole
  <1>3. Constructor' = Constructor /\ count' = count + 1
    BY <1>1, OwnersFinite, ConstantsAssumption DEF Send, IInv, TypeOK, Constructor, manager, Boole
  <1>. QED
    BY <1>2, <1>3, ConstantsAssumption
       DEF Send, IInv, TypeOK, Control, ReferencesAccounted, ConstructorNeeded, DeletedAtZero,
         SamplesOwned, Closing, manager, socket

(* A user comes and goes with a reference of its own. *)
LEMMA UseCounts ==
  ASSUME IInv, Control', NEW u \in Users, Use(u)
  PROVE  IInv'
  <1>1. UNCHANGED <<opener, pc, sampled, running, armed, queued, listed, isRegistered, Output>>
    BY DEF Use, Get, Close, CloseHandle, Release, references, manager, reactor, socket, Output,
         Closing
  <1>2. count >= 1
    BY Shares DEF IInv, TypeOK, Use, Get, Close, CloseHandle, Release, Become, Holding
  <1>3. /\ count' \in Nat /\ destroyed' \in BOOLEAN /\ DeletedAtZero'
        /\ Constructor' = Constructor
    <2>1. CASE Get(u)
      BY <1>1, <1>2, <2>1, UserJoins, OwnersFinite
         DEF IInv, TypeOK, Get, DeletedAtZero, Constructor, Boole
    <2>2. CASE Close(u) \/ CloseHandle(u)
      <3>1. Holding' = Holding
        BY <2>2, UserStays DEF IInv, Close, CloseHandle
      <3>. QED
        BY <1>1, <2>2, <3>1
           DEF IInv, TypeOK, Close, CloseHandle, references, DeletedAtZero, Constructor
    <2>3. CASE Release(u)
      <3>1. /\ count' = count - 1 /\ count' \in Nat /\ destroyed' \in BOOLEAN /\ DeletedAtZero'
            /\ Cardinality(Holding') = Cardinality(Holding) - 1
        BY <1>2, <2>3, Decreases, UserLeaves DEF IInv, Release
      <3>. QED
        BY <1>1, <3>1, OwnersFinite, ConstantsAssumption DEF IInv, TypeOK, Constructor, Boole
    <2>. QED
      BY <2>1, <2>2, <2>3 DEF Use
  <1>4. TypeOK'
    BY <1>1, <1>3 DEF IInv, TypeOK, Use, Get, Close, CloseHandle, Release, Become, Statuses, socket
  <1>. QED
    BY <1>1, <1>3, <1>4 DEF IInv, Control, ReferencesAccounted, ConstructorNeeded, SamplesOwned,
         Closing

(* handle_output(): the reference of the notification is that of the callback. *)
LEMMA OutputCounts ==
  ASSUME IInv, Control', NEW c \in Notified, Dispatch(c)
  PROVE  IInv'
  <1>1. UNCHANGED <<opener, sampled, running, armed, listed, isRegistered, Holding, socketOpen, shut>>
    BY DEF Dispatch, OutputBegins, OutputSent, OutputReturns, OutputFails, references, manager,
         reactor, socket, Holding
  <1>2. c \in Callers /\ c # Reader /\ c # Connector
    BY ConstantsAssumption DEF Callers
  <1>3. /\ count' \in Nat /\ destroyed' \in BOOLEAN /\ DeletedAtZero'
        /\ queued' \in 0 .. MaxNotifications
        /\ Constructor' = Constructor
    <2>1. CASE OutputBegins(c)
      BY <1>1, <2>1, OutputJoins, OwnersFinite, ConstantsAssumption
         DEF IInv, TypeOK, OutputBegins, references, DeletedAtZero, Constructor, Boole
    <2>2. CASE OutputSent(c)
      <3>1. /\ Cardinality(Output) >= 1
            /\ Cardinality(Output') = Cardinality(Output) - 1
        BY <2>2, OutputLeaves DEF IInv, OutputSent
      <3>2. count >= 1
        BY <3>1, OwnersFinite, Shares DEF IInv, TypeOK, Boole
      <3>3. count' = count - 1 /\ count' \in Nat /\ destroyed' \in BOOLEAN /\ DeletedAtZero'
        BY <2>2, <3>2, Decreases DEF IInv, OutputSent
      <3>. QED
        BY <1>1, <2>2, <3>1, <3>3, OwnersFinite, ConstantsAssumption
           DEF IInv, TypeOK, OutputSent, reactor, Constructor, Boole
    <2>3. CASE OutputReturns(c) \/ OutputFails(c)
      <3>1. Output' = Output
        BY <1>2, <2>3 DEF IInv, TypeOK, OutputReturns, OutputFails, Step, Output, Closing, Callers
      <3>. QED
        BY <1>1, <2>3, <3>1
           DEF IInv, TypeOK, OutputReturns, OutputFails, references, reactor, DeletedAtZero,
             Constructor
    <2>. QED
      BY <2>1, <2>2, <2>3 DEF Dispatch
  <1>4. TypeOK'
    BY <1>1, <1>2, <1>3 DEF IInv, TypeOK, Dispatch, OutputBegins, OutputSent, OutputReturns,
         OutputFails, Step, Steps, Statuses, PeerClosed
  <1>5. \A d \in Callers \ {c} : pc'[d] = pc[d]
    BY DEF IInv, TypeOK, Dispatch, OutputBegins, OutputSent, OutputReturns, OutputFails, Step
  <1>6. pc'[c] \in {"none", "sending", "unlocking", "entered"}
    BY <1>2 DEF IInv, TypeOK, Dispatch, OutputBegins, OutputSent, OutputReturns, OutputFails, Step
  <1>7. SamplesOwned'
    BY <1>1, <1>5, <1>6 DEF IInv, SamplesOwned, Decided
  <1>. QED
    BY <1>1, <1>2, <1>3, <1>4, <1>5, <1>7, ConstantsAssumption
       DEF IInv, Control, ReferencesAccounted, ConstructorNeeded, Closing, Callers

(* Whoever is in handle_close() owns a reference beside that of the list. *)
LEMMA CloserOwns ==
  ASSUME IInv, NEW c \in Callers, Closing(c)
  PROVE  /\ count >= 1 + Boole(listed)
         /\ c \in Notified => c \in Output
         /\ c \notin Notified => c \in {Reader, Connector} /\ Constructor = 1
  <1>1. c \in Notified => c \in Output
    BY DEF Output
  <1>2. c \notin Notified => c \in {Reader, Connector} /\ Constructor = 1
    BY DEF Callers, IInv, ReferencesAccounted
  <1>. QED
    BY <1>1, <1>2, Shares DEF IInv

(* What handle_close() does before it drops references. *)
LEMMA CloseCounts ==
  ASSUME IInv, Control', NEW c \in Callers,
         \/ CloseBegin(c) \/ CloseMark(c) \/ CloseStop(c) \/ CloseSample(c)
         \/ CloseShutDown(c) \/ CloseLeave(c)
  PROVE  IInv'
  <1> USE DEF CloseBegin, CloseMark, CloseStop, CloseSample, CloseShutDown, CloseLeave
  <1>1. UNCHANGED <<opener, count, destroyed, queued, listed, isRegistered, party>>
    BY DEF references, manager, reactor
  <1>2. Closing(c) /\ Closing(c)'
    BY DEF IInv, TypeOK, Step, Closing
  <1>3. \A d \in Callers \ {c} : pc'[d] = pc[d]
    BY DEF IInv, TypeOK, Step
  <1>4. Output' = Output /\ Holding' = Holding
    BY <1>1, <1>2, <1>3 DEF Output, Holding, Closing, Callers
  <1>5. Constructor' = Constructor
    BY <1>1, <1>4 DEF Constructor
  <1>6. TypeOK'
    <2>1. pc' \in [Callers -> Steps]
      BY DEF IInv, TypeOK, Step, Steps
    <2>2. sampled' \in [Callers -> [count : Nat, registered : BOOLEAN]]
      BY DEF IInv, TypeOK
    <2>3. status' \in Statuses /\ running' \in BOOLEAN /\ armed' \in BOOLEAN
          /\ socketOpen' \in BOOLEAN /\ shut' \in BOOLEAN
      BY DEF IInv, TypeOK, Statuses, reactor, socket
    <2>. QED
      BY <1>1, <2>1, <2>2, <2>3 DEF IInv, TypeOK
  <1>7. SamplesOwned'
    <2>1. CASE CloseSample(c)
      <3>1. isRegistered => listed
        BY DEF IInv, RegistrationFollows
      <3>2. Owned([count |-> count, registered |-> isRegistered])
        BY <1>2, <3>1, CloserOwns DEF Owned, Boole, IInv, TypeOK
      <3>3. sampled'[c] = [count |-> count, registered |-> isRegistered]
            /\ \A d \in Callers \ {c} : sampled'[d] = sampled[d]
        BY <2>1 DEF IInv, TypeOK
      <3>. QED
        BY <1>3, <3>2, <3>3 DEF IInv, SamplesOwned, Owned
    <2>2. CASE ~CloseSample(c)
      <3>1. sampled' = sampled
        BY <2>2
      <3>2. pc'[c] \in Decided => pc[c] \in Decided
        BY <2>2 DEF IInv, TypeOK, Step, Decided
      <3>. QED
        BY <1>3, <3>1, <3>2 DEF IInv, SamplesOwned
    <2>. QED
      BY <2>1, <2>2
  <1>8. (running' => running) /\ (armed' => armed)
    BY DEF reactor
  <1>9. \A d \in Callers : Closing(d)' <=> Closing(d)
    BY <1>2, <1>3 DEF Closing
  <1>10. Reader \in Callers /\ Connector \in Callers
    BY DEF Callers
  <1>11. pc'[Reader] = "failing" => pc[Reader] = "failing"
    BY <1>2, <1>3, <1>10 DEF Closing
  <1>. QED
    BY <1>1, <1>5, <1>6, <1>7, <1>8, <1>9, <1>10, <1>11
       DEF IInv, Control, ReferencesAccounted, ConstructorNeeded, DeletedAtZero

(* deregister(): the reference of the list goes, once. *)
LEMMA UnlistCounts ==
  ASSUME IInv, Control', NEW c \in Callers, CloseUnlist(c)
  PROVE  IInv'
  <1>1. UNCHANGED <<opener, running, armed, queued, party, sampled, status, socketOpen, shut>>
    BY DEF CloseUnlist, reactor, socket
  <1>2. Closing(c) /\ Closing(c)' /\ pc[c] \in Decided
    BY DEF IInv, TypeOK, CloseUnlist, Step, Closing, Decided
  <1>3. \A d \in Callers \ {c} : pc'[d] = pc[d]
    BY DEF IInv, TypeOK, CloseUnlist, Step
  <1>4. Output' = Output /\ Holding' = Holding
    BY <1>1, <1>2, <1>3 DEF Output, Holding, Closing, Callers
  <1>5. /\ count' \in Nat /\ destroyed' \in BOOLEAN /\ DeletedAtZero'
        /\ Constructor' = Constructor
    <2>1. CASE listed
      <3>1. count >= 1
        BY <1>2, <2>1, CloserOwns DEF Boole, IInv, TypeOK
      <3>2. count' = count - 1 /\ count' \in Nat /\ destroyed' \in BOOLEAN /\ DeletedAtZero'
        BY <2>1, <3>1, Decreases DEF IInv, CloseUnlist
      <3>. QED
        BY <1>1, <1>4, <2>1, <3>2, OwnersFinite, ConstantsAssumption
           DEF IInv, TypeOK, CloseUnlist, Constructor, Boole
    <2>2. CASE ~listed
      BY <1>1, <1>4, <2>2
         DEF IInv, TypeOK, CloseUnlist, references, DeletedAtZero, Constructor, Boole
    <2>. QED
      BY <2>1, <2>2
  <1>6. TypeOK'
    BY <1>1, <1>5 DEF IInv, TypeOK, CloseUnlist, Step, Steps
  <1>7. SamplesOwned'
    BY <1>1, <1>2, <1>3 DEF IInv, SamplesOwned
  <1>8. \A d \in Callers : Closing(d)' <=> Closing(d)
    BY <1>2, <1>3 DEF Closing
  <1>9. Reader \in Callers /\ Connector \in Callers
    BY DEF Callers
  <1>10. pc'[Reader] = "failing" => pc[Reader] = "failing"
    BY <1>2, <1>3, <1>9 DEF Closing
  <1>. QED
    BY <1>1, <1>5, <1>6, <1>7, <1>8, <1>9, <1>10
       DEF IInv, Control, ReferencesAccounted, ConstructorNeeded

(* The last step of handle_close(): it owns what its sample told it to drop. *)
LEMMA ReleaseCounts ==
  ASSUME IInv, Control', NEW c \in Callers, CloseRelease(c)
  PROVE  IInv'
  <1>1. UNCHANGED <<opener, running, armed, queued, party, sampled, status, socketOpen, shut,
                    listed, isRegistered>>
    BY DEF CloseRelease, reactor, socket, manager
  <1>2. Closing(c) /\ pc[c] \in Decided /\ pc'[c] = "none"
    BY DEF IInv, TypeOK, CloseRelease, Step, Closing, Decided
  <1>3. \A d \in Callers \ {c} : pc'[d] = pc[d]
    BY DEF IInv, TypeOK, CloseRelease, Step
  <1>4. count >= 1
    BY <1>2, CloserOwns DEF Boole, IInv, TypeOK
  <1>5. Decrease
    BY <1>2 DEF IInv, SamplesOwned, CloseRelease
  <1>6. count' = count - 1 /\ count' \in Nat /\ destroyed' \in BOOLEAN /\ DeletedAtZero'
    BY <1>4, <1>5, Decreases DEF IInv
  <1>7. TypeOK'
    BY <1>1, <1>6 DEF IInv, TypeOK, CloseRelease, Step, Steps
  <1>8. SamplesOwned'
    BY <1>1, <1>2, <1>3 DEF IInv, SamplesOwned, Decided
  <1>9. Holding' = Holding
    BY <1>1 DEF Holding
  <1>10. Reader \in Callers /\ Connector \in Callers
    BY DEF Callers
  <1>11. ~running
    BY <1>2 DEF IInv, StreamStopped
  <1>12. CASE c \in Notified
    <2>1. Cardinality(Output') = Cardinality(Output) - 1
      BY <1>12, OutputLeaves DEF IInv, CloseRelease
    <2>2. Constructor' = Constructor
      <3>1. count \in Nat /\ queued \in Nat /\ Boole(listed) \in Nat
        BY ConstantsAssumption DEF IInv, TypeOK, Boole
      <3>2. Cardinality(Output) \in Nat /\ Cardinality(Holding) \in Nat
        BY OwnersFinite
      <3>. QED
        BY <1>1, <1>6, <1>9, <2>1, <3>1, <3>2 DEF Constructor
    <2>3. pc'[Reader] = pc[Reader] /\ pc'[Connector] = pc[Connector]
      BY <1>3, <1>10, <1>12, ConstantsAssumption
    <2>. QED
      BY <1>1, <1>6, <1>7, <1>8, <2>2, <2>3
         DEF IInv, Control, ReferencesAccounted, ConstructorNeeded, Closing
  <1>13. CASE c \notin Notified
    <2>1. Constructor = 1 /\ c \in {Reader, Connector}
      BY <1>2, <1>13, CloserOwns
    <2>2. Output' = Output
      BY <1>3, <1>13 DEF Output, Closing, Callers
    <2>3. Constructor' = 0
      BY <1>1, <1>6, <1>9, <2>1, <2>2, OwnersFinite, ConstantsAssumption
         DEF IInv, TypeOK, Constructor, Boole
    <2>4. opener = "done" /\ ~armed /\ pc'[Reader] = "none" /\ pc'[Connector] = "none"
      BY <1>2, <1>3, <1>10, <2>1, ConstantsAssumption DEF IInv, InSequence, Closing, Decided
    <2>. QED
      BY <1>1, <1>6, <1>7, <1>8, <1>11, <2>3, <2>4
         DEF IInv, Control, ReferencesAccounted, ConstructorNeeded, Closing
  <1>. QED
    BY <1>12, <1>13

-----------------------------------------------------------------------------
(***************************************************************************)
(* The invariant.                                                          *)
(***************************************************************************)

(* The constructor's reference is the first. *)
LEMMA InitIInv == Init => IInv
  <1> SUFFICES ASSUME Init PROVE IInv
    OBVIOUS
  <1>1. Output = {} /\ Holding = {}
    BY DEF Init, Output, Holding, Closing, Callers
  <1>2. Cardinality(Output) = 0 /\ Cardinality(Holding) = 0
    BY <1>1, FS_EmptySet
  <1>3. Reader \in Callers /\ Connector \in Callers /\ Notified \subseteq Callers
    BY DEF Callers
  <1>4. TypeOK
    <2>1. sampled \in [Callers -> [count : Nat, registered : BOOLEAN]]
      BY DEF Init
    <2>2. /\ pc \in [Callers -> Steps]
          /\ party \in [Users -> {"away", "holding", "closing"}]
      BY DEF Init, Steps
    <2>3. queued \in 0 .. MaxNotifications /\ count \in Nat
      BY ConstantsAssumption DEF Init
    <2>. QED
      BY <2>1, <2>2, <2>3 DEF Init, TypeOK, Openers, Statuses
  <1>5. Constructor = 1
    BY <1>2 DEF Init, Constructor, Boole
  <1>. QED
    BY <1>3, <1>4, <1>5 DEF Init, IInv, InSequence, RegistrationFollows, StreamStopped, SamplesOwned,
         ReferencesAccounted, ConstructorNeeded, DeletedAtZero, Decided, Closing

(* Every step keeps it, unless something is dispatched during open(). *)
LEMMA StepIInv ==
  ASSUME IInv, ~ConcurrentDispatch, [Next]_vars
  PROVE  IInv'
  <1>1. TypeOK /\ Control
    BY DEF IInv, Control
  <1>2. CASE Open
    BY <1>1, <1>2, OpenControl, OpenCounts
  <1>3. CASE InputFails \/ InputRemoved
    BY <1>1, <1>3, InputControl, InputCounts
  <1>4. ASSUME NEW s \in Users \cup {Worker}, Send(s) PROVE IInv'
    BY <1>1, <1>4, UseControl, SendCounts
  <1>5. ASSUME NEW c \in Notified, Dispatch(c) PROVE IInv'
    BY <1>1, <1>5, OutputControl, OutputCounts
  <1>6. ASSUME NEW c \in Callers, HandleClose(c) PROVE IInv'
    <2>1. Control'
      BY <1>1, <1>6, CloseControl
    <2>. QED
      BY <1>6, <2>1, CloseCounts, UnlistCounts, ReleaseCounts DEF HandleClose
  <1>7. ASSUME NEW u \in Users, Use(u) PROVE IInv'
    BY <1>1, <1>7, UseControl, UseCounts
  <1>8. CASE UNCHANGED vars
    <2>1. UNCHANGED <<opener, pc, sampled, party, status, running, armed, queued, listed,
                      isRegistered, count, socketOpen, shut, destroyed>>
      BY <1>8 DEF vars, reactor, manager, references, socket
    <2>2. UNCHANGED <<Output, Holding>>
      BY <2>1 DEF Output, Holding, Closing
    <2>. QED
      BY <2>1, <2>2 DEF IInv, TypeOK, InSequence, RegistrationFollows, StreamStopped, SamplesOwned,
           ReferencesAccounted, ConstructorNeeded, DeletedAtZero, Constructor, Closing
  <1>. QED
    BY <1>2, <1>3, <1>4, <1>5, <1>6, <1>7, <1>8 DEF Next

(* Without dispatches during open(): the callbacks follow in their order, every
   handle_close() owns the reference it gives up, and the constructor's is there
   for whoever needs it. *)
THEOREM InductiveInvariant ==
  ASSUME ~ConcurrentDispatch
  PROVE  Spec => []IInv
  <1>1. IInv /\ [Next]_vars => IInv'
    BY StepIInv
  <1>. QED
    BY InitIInv, <1>1, PTL DEF Spec

(* Under the same condition types hold: the counter does not drop below zero. *)
THEOREM TypeCorrect ==
  ASSUME ~ConcurrentDispatch
  PROVE  Spec => []TypeOK
  <1>1. IInv => TypeOK
    BY DEF IInv
  <1>. QED
    BY InductiveInvariant, <1>1, PTL

(* Under the same condition every reference has an owner, whoever calls
   handle_close() and however the calls overlap. *)
THEOREM ReferencesBalanced ==
  ASSUME ~ConcurrentDispatch
  PROVE  Spec => []ReferencesAccounted
  <1>1. IInv => ReferencesAccounted
    BY DEF IInv
  <1>. QED
    BY InductiveInvariant, <1>1, PTL

(* Under the same condition the connection deletes itself after everybody has gone. *)
THEOREM DeletedLast ==
  ASSUME ~ConcurrentDispatch
  PROVE  Spec => []NoUseAfterDelete
  <1>1. IInv => NoUseAfterDelete
    <2> SUFFICES ASSUME IInv, destroyed PROVE NoUseAfterDelete
      BY DEF NoUseAfterDelete
    <2>1. /\ Constructor = 0 /\ ~listed /\ queued = 0
          /\ Output = {} /\ Holding = {}
      BY Shares DEF IInv, DeletedAtZero
    <2>2. opener = "done" /\ ~armed /\ ~Closing(Reader) /\ ~Closing(Connector)
      BY <2>1 DEF IInv, ReferencesAccounted
    <2>3. \A c \in Notified : ~Closing(c) /\ pc[c] \notin {"failing", "sending"}
      BY <2>1 DEF Output, IInv, InSequence
    <2>4. pc[Reader] \notin {"failing", "sending"} /\ pc[Connector] \notin {"failing", "sending"}
      BY <2>1 DEF IInv, InSequence, ConstructorNeeded
    <2>5. ~isRegistered
      BY <2>1 DEF IInv, RegistrationFollows
    <2>. QED
      BY <2>1, <2>2, <2>3, <2>4, <2>5 DEF NoUseAfterDelete, Callers
  <1>. QED
    BY InductiveInvariant, <1>1, PTL

-----------------------------------------------------------------------------
(***************************************************************************)
(* The refinement: who holds the connection, step by step.                 *)
(***************************************************************************)

(* The holders are told apart. *)
LEMMA KindsDiffer ==
  /\ Creation # Manager
  /\ \A i : Notification(i) \notin {Creation, Manager}
  /\ \A u : User(u) \notin {Creation, Manager}
  /\ \A i, u : Notification(i) # User(u)
  /\ \A i, j : Notification(i) = Notification(j) => i = j
  /\ \A u, v : User(u) = User(v) => u = v
  BY DEF Creation, Manager, Notification, User

(* Who is among them. *)
LEMMA HoldersAre ==
  /\ Creation \in Holders <=> Constructor = 1
  /\ Manager \in Holders <=> listed
  /\ \A i : Notification(i) \in Holders <=> i \in 1 .. Pending
  /\ \A u : User(u) \in Holders <=> u \in Holding
  /\ \A h \in Holders : \/ h \in {Creation, Manager}
                        \/ \E i \in 1 .. Pending : h = Notification(i)
                        \/ \E u \in Holding : h = User(u)
  BY KindsDiffer DEF Holders

(* The counter, by holders. *)
LEMMA CountIs ==
  ASSUME TypeOK
  PROVE  /\ Pending = queued + Cardinality(Output) /\ Pending \in Nat
         /\ count = Constructor + Boole(listed) + Pending + Cardinality(Holding)
         /\ Constructor = count - Boole(listed) - Pending - Cardinality(Holding)
  <1>1. queued \in Nat /\ Boole(listed) \in Nat /\ count \in Nat
    BY ConstantsAssumption DEF TypeOK, Boole
  <1>. QED
    BY <1>1, OwnersFinite DEF Pending, Constructor

(* The notifications never outgrow the agents. *)
LEMMA PendingBounded ==
  ASSUME TypeOK
  PROVE  /\ Pending <= MaxNotifications + Cardinality(Notified)
         /\ queued < MaxNotifications => Pending < MaxNotifications + Cardinality(Notified)
         /\ MaxNotifications + Cardinality(Notified) \in Nat
  <1>1. /\ Cardinality(Output) <= Cardinality(Notified)
        /\ Cardinality(Notified) \in Nat
    BY ConstantsAssumption, FS_Subset, FS_CardinalityType DEF Output
  <1>2. queued \in Nat /\ queued <= MaxNotifications /\ MaxNotifications \in Nat
    BY ConstantsAssumption DEF TypeOK
  <1>. QED
    BY <1>1, <1>2, OwnersFinite DEF Pending

(* The counter goes down to zero exactly when the only holder lets go. *)
LEMMA LastHolder ==
  ASSUME IInv, NEW h \in Holders
  PROVE  count = 1 <=> Holders = {h}
  <1> DEFINE y == Cardinality(Holding)
             b == Boole(listed)
             R == Constructor
  <1>1. y \in Nat /\ Pending \in Nat /\ R \in 0 .. 1 /\ count = R + b + Pending + y
    BY CountIs, OwnersFinite DEF IInv, ReferencesAccounted
  <1>2. b = IF listed THEN 1 ELSE 0
    BY DEF Boole
  <1>3. y = 0 <=> Holding = {}
    BY OwnersFinite
  <1>4. y = 1 <=> \E u : Holding = {u}
    BY OwnersFinite, FS_Singleton
  <1>5. Holders = (IF R = 1 THEN {Creation} ELSE {}) \cup (IF listed THEN {Manager} ELSE {})
                    \cup {Notification(i) : i \in 1 .. Pending} \cup {User(u) : u \in Holding}
    BY DEF Holders, R
  <1>6. Creation \in Holders <=> R = 1
    BY HoldersAre DEF R
  <1> HIDE DEF y, b, R
  <1>7. ASSUME Holders = {h} PROVE count = 1
    <2>0. Pending = 0 \/ Notification(1) \in Holders
      BY <1>1, HoldersAre
    <2>1. CASE h = Creation
      <3>1. R = 1 /\ ~listed /\ Pending = 0 /\ Holding = {}
        BY <1>6, <1>7, <2>0, <2>1, HoldersAre, KindsDiffer
      <3>. QED BY <1>1, <1>2, <1>3, <3>1
    <2>2. CASE h = Manager
      <3>1. R # 1 /\ listed /\ Pending = 0 /\ Holding = {}
        BY <1>6, <1>7, <2>0, <2>2, HoldersAre, KindsDiffer
      <3>. QED BY <1>1, <1>2, <1>3, <3>1
    <2>3. ASSUME NEW i \in 1 .. Pending, h = Notification(i) PROVE count = 1
      <3>1. R # 1 /\ ~listed /\ Holding = {}
        BY <1>6, <1>7, <2>3, HoldersAre, KindsDiffer
      <3>2. \A j \in 1 .. Pending : j = i
        BY <1>7, <2>3, HoldersAre, KindsDiffer
      <3>3. Pending = 1
        BY <1>1, <3>2
      <3>. QED BY <1>1, <1>2, <1>3, <3>1, <3>3
    <2>4. ASSUME NEW u \in Holding, h = User(u) PROVE count = 1
      <3>1. R # 1 /\ ~listed /\ Pending = 0
        BY <1>6, <1>7, <2>0, <2>4, HoldersAre, KindsDiffer
      <3>2. \A v \in Holding : v = u
        BY <1>7, <2>4, HoldersAre, KindsDiffer
      <3>3. Holding = {u}
        BY <3>2
      <3>4. y = 1
        BY <1>4, <3>3
      <3>. QED BY <1>1, <1>2, <3>1, <3>4
    <2>. QED
      BY <2>1, <2>2, <2>3, <2>4, HoldersAre
  <1>8. ASSUME count = 1 PROVE Holders = {h}
    <2>1. \/ R = 1 /\ ~listed /\ Pending = 0 /\ y = 0
          \/ R = 0 /\ listed /\ Pending = 0 /\ y = 0
          \/ R = 0 /\ ~listed /\ Pending = 1 /\ y = 0
          \/ R = 0 /\ ~listed /\ Pending = 0 /\ y = 1
      BY <1>1, <1>2, <1>8
    <2>2. \E g : Holders = {g}
      BY <1>1, <1>3, <1>4, <1>5, <2>1
    <2>. QED
      BY <2>2
  <1>. QED
    BY <1>7, <1>8

(* A step of the registry, from what becomes of the holders. *)
Kept == Holders' = Holders /\ destroyed' = destroyed
Gained(h) == Holders' = Holders \cup {h} /\ destroyed' = destroyed
Lost(h) ==
  /\ h \in Holders
  /\ Holders' = Holders \ {h}
  /\ destroyed' = (destroyed \/ count = 1)

LEMMA KeptMaps ==
  ASSUME Kept
  PROVE  UNCHANGED Registry!vars
  BY DEF Kept, Registry!vars

LEMMA AdmitMaps ==
  ASSUME Gained(Manager), Manager \notin Holders, Holders # {}
  PROVE  Registry!Next
  <1>1. Registry!Members = {}
    BY DEF Registry!Members
  <1>2. Registry!Cardinality(Registry!Members) = 0
    BY <1>1, FS_EmptySet DEF Cardinality, Registry!Cardinality
  <1> HIDE DEF Holders
  <1>3. Registry!Admit(Connection)
    BY <1>1, <1>2 DEF Gained, Registry!Admit
  <1>. QED
    BY <1>3 DEF Registry!Next

LEMMA AcquireMaps ==
  ASSUME NEW a \in Agents, Gained(a), listed
  PROVE  Registry!Next
  <1>1. Registry!Members = {Connection}
    BY HoldersAre DEF Registry!Members
  <1>2. Registry!Acquire(a, {Connection})
    BY <1>1 DEF Gained, Registry!Acquire
  <1>. QED
    BY <1>2 DEF Registry!Next

LEMMA ShareMaps ==
  ASSUME NEW a \in Notifications, Gained(a), Holders # {}
  PROVE  Registry!Next
  <1> HIDE DEF Holders
  <1>1. Registry!Share(Connection, a)
    BY DEF Gained, Registry!Share
  <1>. QED
    BY <1>1 DEF Registry!Next

LEMMA DropMaps ==
  ASSUME IInv, NEW h \in Agents \cup {Manager}, Lost(h)
  PROVE  Registry!Next
  <1>1. count = 1 <=> Holders = {h}
    BY LastHolder DEF Lost
  <1> HIDE DEF Holders
  <1>2. {o \in {Connection} : destroyed'} =
          IF Holders = {h} THEN {o \in {Connection} : destroyed} \cup {Connection}
                           ELSE {o \in {Connection} : destroyed}
    BY <1>1 DEF Lost
  <1>3. Registry!Drop(Connection, h)
    BY <1>2 DEF Lost, Registry!Drop
  <1>. QED
    BY <1>3 DEF Registry!Next

(* The constructor's reference is the only one. *)
LEMMA InitMaps == Init => Registry!Init
  <1> SUFFICES ASSUME Init PROVE Registry!Init
    OBVIOUS
  <1>1. Output = {} /\ Holding = {}
    BY DEF Init, Output, Holding, Closing, Callers
  <1>2. Cardinality(Output) = 0 /\ Cardinality(Holding) = 0
    BY <1>1, FS_EmptySet
  <1>3. Pending = 0 /\ Constructor = 1 /\ ~listed
    BY <1>2 DEF Init, Pending, Constructor, Boole
  <1>4. Holders = {Creation}
    BY <1>1, <1>3 DEF Holders
  <1>. QED
    BY <1>4 DEF Init, Registry!Init, Agents

(* Nobody comes or goes. *)
LEMMA HoldersStay ==
  ASSUME UNCHANGED <<Constructor, listed, Pending, Holding, destroyed>>
  PROVE  Kept
  BY DEF Kept, Holders

(* The same, where no counter moves. *)
LEMMA CountersStay ==
  ASSUME UNCHANGED <<count, listed, queued, Output, Holding, destroyed>>
  PROVE  Kept
  BY HoldersStay DEF Constructor, Pending

(* The reference of the manager comes and goes. *)
LEMMA ManagerJoins ==
  ASSUME listed', UNCHANGED <<Constructor, Pending, Holding, destroyed>>
  PROVE  Gained(Manager)
  BY DEF Gained, Holders

LEMMA ManagerLeaves ==
  ASSUME listed, ~listed', UNCHANGED <<Constructor, Pending, Holding>>, Decrease
  PROVE  Lost(Manager)
  BY KindsDiffer DEF Lost, Holders, Decrease

(* That of a notification, the last by number. *)
LEMMA NotificationJoins ==
  ASSUME Pending \in Nat, Pending' = Pending + 1,
         UNCHANGED <<Constructor, listed, Holding, destroyed>>
  PROVE  Gained(Notification(Pending'))
  <1>1. 1 .. Pending' = (1 .. Pending) \cup {Pending'}
    OBVIOUS
  <1>. QED
    BY <1>1 DEF Gained, Holders

LEMMA NotificationLeaves ==
  ASSUME Pending \in Nat, Pending >= 1, Pending' = Pending - 1,
         UNCHANGED <<Constructor, listed, Holding>>, Decrease
  PROVE  Lost(Notification(Pending))
  <1>1. 1 .. Pending' = (1 .. Pending) \ {Pending} /\ Pending \in 1 .. Pending
    OBVIOUS
  <1>2. Notification(Pending) \in Holders
    BY <1>1, HoldersAre
  <1>3. Holders' = Holders \ {Notification(Pending)}
    BY <1>1, KindsDiffer DEF Holders
  <1>. QED
    BY <1>2, <1>3 DEF Lost, Decrease

(* That of a user. *)
LEMMA UserGains ==
  ASSUME TypeOK, NEW u \in Users, Become(u, "away", "holding"),
         UNCHANGED <<Constructor, listed, Pending, destroyed>>
  PROVE  Gained(User(u))
  <1>1. Holding' = Holding \cup {u}
    BY DEF TypeOK, Become, Holding
  <1>. QED
    BY <1>1 DEF Gained, Holders

LEMMA UserLoses ==
  ASSUME TypeOK, NEW u \in Users, Become(u, "holding", "away"),
         UNCHANGED <<Constructor, listed, Pending>>, Decrease
  PROVE  Lost(User(u))
  <1>1. u \in Holding /\ Holding' = Holding \ {u}
    BY DEF TypeOK, Become, Holding
  <1>2. User(u) \in Holders
    BY <1>1, HoldersAre
  <1>3. Holders' = Holders \ {User(u)}
    BY <1>1, KindsDiffer DEF Holders
  <1>. QED
    BY <1>2, <1>3 DEF Lost, Decrease

(* Finally that of the constructor. *)
LEMMA CreationLeaves ==
  ASSUME Constructor = 1, Constructor' = 0, UNCHANGED <<listed, Pending, Holding>>, Decrease
  PROVE  Lost(Creation)
  <1>1. Creation \in Holders
    BY HoldersAre
  <1>2. Holders' = Holders \ {Creation}
    BY KindsDiffer DEF Holders
  <1>. QED
    BY <1>1, <1>2 DEF Lost, Decrease

(* open() registers the connection. *)
LEMMA OpenMaps ==
  ASSUME IInv, Open
  PROVE  Registry!Next \/ Kept
  <1>1. Holding' = Holding
    BY DEF Open, StartFails, StartStream, RegisterWithReactor, RegisterFails, Register,
         AssignRegistered, Opened, OpenFailed, Holding
  <1>2. Output' = Output
    BY ConstantsAssumption DEF IInv, TypeOK, Callers, Open, StartFails, StartStream,
         RegisterWithReactor, RegisterFails, Register, AssignRegistered, Opened, OpenFailed,
         Output, Closing
  <1>3. CASE Register
    <2>1. ~listed /\ listed' /\ UNCHANGED <<queued, destroyed>> /\ count' = count + 1
      BY <1>3 DEF IInv, RegistrationFollows, Register, Opener, reactor
    <2>2. Pending' = Pending
      BY <1>2, <2>1 DEF Pending
    <2>3. count \in Nat /\ Pending \in Nat /\ Cardinality(Holding) \in Nat
      BY CountIs, OwnersFinite DEF IInv, TypeOK
    <2>4. Constructor' = Constructor
      BY <1>1, <1>2, <2>1, OwnersFinite, ConstantsAssumption
         DEF IInv, TypeOK, Constructor, Boole
    <2>5. Gained(Manager)
      BY <1>1, <2>1, <2>2, <2>4, ManagerJoins
    <2>6. Manager \notin Holders /\ Creation \in Holders
      BY <1>3, <2>1, HoldersAre DEF IInv, ReferencesAccounted, Register, Opener
    <2>. QED
      BY <2>5, <2>6, AdmitMaps
  <1>4. CASE ~Register
    <2>1. UNCHANGED <<count, destroyed, listed, queued>>
      BY <1>4 DEF Open, StartFails, StartStream, RegisterWithReactor, RegisterFails,
           AssignRegistered, Opened, OpenFailed, references, manager, reactor
    <2>. QED
      BY <1>1, <1>2, <2>1, CountersStay
  <1>. QED
    BY <1>3, <1>4

(* handle_input() changes no reference. *)
LEMMA InputMaps ==
  ASSUME IInv, InputFails \/ InputRemoved
  PROVE  Kept
  <1>1. UNCHANGED <<count, destroyed, listed, queued, party>>
    BY DEF InputFails, InputRemoved, references, manager, reactor
  <1>2. Output' = Output
    BY ConstantsAssumption DEF IInv, TypeOK, Callers, InputFails, InputRemoved, Step, Output, Closing
  <1>. QED
    BY <1>1, <1>2, CountersStay DEF Holding

(* notify(): while the stream runs the constructor's reference is there to vouch
   for that of the notification. *)
LEMMA SendMaps ==
  ASSUME IInv, NEW s \in Users \cup {Worker}, Send(s)
  PROVE  Registry!Next
  <1>1. UNCHANGED <<Output, Holding, listed, destroyed>>
    BY DEF Send, Output, Holding, Closing, manager
  <1>2. Creation \in Holders
    BY HoldersAre DEF Send, IInv, ConstructorNeeded
  <1>3. Pending' = Pending + 1 /\ Pending \in Nat
    BY <1>1, CountIs, OwnersFinite, ConstantsAssumption DEF IInv, TypeOK, Send, Pending
  <1>4. Constructor' = Constructor
    BY <1>1, OwnersFinite, ConstantsAssumption DEF Send, IInv, TypeOK, Constructor, Boole
  <1>5. Gained(Notification(Pending'))
    BY <1>1, <1>3, <1>4, NotificationJoins
  <1>6. Pending' \in 1 .. MaxNotifications + Cardinality(Notified)
    BY <1>3, PendingBounded DEF Send, IInv
  <1>7. Notification(Pending') \in Notifications
    BY <1>6 DEF Notifications
  <1>. QED
    BY <1>2, <1>5, <1>7, ShareMaps

(* A message is sent: its reference is that of the answer, which drops it. *)
LEMMA OutputMaps ==
  ASSUME IInv, NEW c \in Notified, Dispatch(c)
  PROVE  Registry!Next \/ Kept
  <1>1. UNCHANGED <<listed, Holding>>
    BY DEF Dispatch, OutputBegins, OutputSent, OutputReturns, OutputFails, manager, Holding
  <1>2. /\ queued \in Nat /\ count \in Nat /\ Boole(listed) \in Nat
        /\ Cardinality(Output) \in Nat /\ Cardinality(Output') \in Nat
        /\ Cardinality(Holding) \in Nat
    <2>1. IsFiniteSet(Output') /\ Cardinality(Output') \in Nat
      BY ConstantsAssumption, FS_Subset, FS_CardinalityType DEF Output
    <2>. QED
      BY <2>1, OwnersFinite, ConstantsAssumption DEF IInv, TypeOK, Boole
  <1>3. CASE OutputBegins(c)
    <2>1. Cardinality(Output') = Cardinality(Output) + 1 /\ queued' = queued - 1
      BY <1>3, OutputJoins DEF IInv, OutputBegins
    <2>2. UNCHANGED <<count, destroyed>>
      BY <1>3 DEF OutputBegins, references
    <2>3. Pending' = Pending
      BY <1>2, <2>1 DEF Pending
    <2>4. Constructor' = Constructor
      BY <1>1, <1>2, <2>1, <2>2 DEF Constructor
    <2>. QED
      BY <1>1, <2>2, <2>3, <2>4, HoldersStay
  <1>4. CASE OutputSent(c)
    <2>1. /\ Cardinality(Output) >= 1
          /\ Cardinality(Output') = Cardinality(Output) - 1
      BY <1>4, OutputLeaves DEF IInv, OutputSent
    <2>2. Decrease /\ queued' = queued
      BY <1>4 DEF OutputSent, reactor
    <2>3. Pending \in Nat /\ Pending >= 1 /\ Pending' = Pending - 1
      BY <1>2, <2>1, <2>2 DEF Pending
    <2>4. Constructor' = Constructor
      BY <1>1, <1>2, <2>1, <2>2 DEF Constructor, Decrease
    <2>5. Lost(Notification(Pending))
      BY <1>1, <2>2, <2>3, <2>4, NotificationLeaves
    <2>6. Pending \in 1 .. MaxNotifications + Cardinality(Notified)
      BY <2>3, PendingBounded DEF IInv
    <2>7. Notification(Pending) \in Agents
      BY <2>6 DEF Agents, Notifications
    <2>. QED
      BY <2>5, <2>7, DropMaps
  <1>5. CASE OutputReturns(c) \/ OutputFails(c)
    <2>1. c # Reader /\ c # Connector
      BY ConstantsAssumption
    <2>2. Output' = Output
      BY <1>5, <2>1
         DEF IInv, TypeOK, OutputReturns, OutputFails, Step, Output, Closing, Callers
    <2>3. UNCHANGED <<count, destroyed, queued>>
      BY <1>5 DEF OutputReturns, OutputFails, references, reactor
    <2>. QED
      BY <1>1, <2>2, <2>3, CountersStay
  <1>. QED
    BY <1>3, <1>4, <1>5 DEF Dispatch

(* handle_close() drops the reference of the list, if nobody did so before, and
   finally that of the notification or of the constructor. *)
LEMMA CloseMaps ==
  ASSUME IInv, IInv', NEW c \in Callers, HandleClose(c)
  PROVE  Registry!Next \/ Kept
  <1>1. UNCHANGED <<queued, Holding>>
    BY DEF HandleClose, CloseBegin, CloseMark, CloseStop, CloseSample, CloseShutDown, CloseLeave,
         CloseUnlist, CloseRelease, reactor, Holding
  <1>2. Closing(c) /\ (~CloseRelease(c) => Closing(c)')
    BY DEF IInv, TypeOK, HandleClose, CloseBegin, CloseMark, CloseStop, CloseSample,
         CloseShutDown, CloseLeave, CloseUnlist, CloseRelease, Step, Closing
  <1>3. \A d \in Callers \ {c} : pc'[d] = pc[d]
    BY DEF IInv, TypeOK, HandleClose, CloseBegin, CloseMark, CloseStop, CloseSample,
         CloseShutDown, CloseLeave, CloseUnlist, CloseRelease, Step
  <1>4. c \notin Notified \/ ~CloseRelease(c) => Output' = Output
    BY <1>2, <1>3 DEF Output, Closing, Callers
  <1>5. /\ queued \in Nat /\ count \in Nat
        /\ Cardinality(Output) \in Nat /\ Cardinality(Holding) \in Nat
    BY OwnersFinite, ConstantsAssumption DEF IInv, TypeOK
  <1>6. CASE CloseUnlist(c)
    <2>0. ~CloseRelease(c)
      BY <1>6 DEF CloseUnlist, CloseRelease, Step
    <2>1. Output' = Output /\ ~listed'
      BY <1>4, <1>6, <2>0 DEF CloseUnlist
    <2>2. Pending' = Pending
      BY <1>1, <2>1 DEF Pending
    <2>3. CASE listed
      <3>1. Decrease
        BY <1>6, <2>3 DEF CloseUnlist
      <3>2. Constructor' = Constructor
        BY <1>1, <1>5, <2>1, <2>3, <3>1 DEF Constructor, Decrease, Boole
      <3>3. Lost(Manager)
        BY <1>1, <2>1, <2>2, <2>3, <3>1, <3>2, ManagerLeaves
      <3>. QED
        BY <3>3, DropMaps
    <2>4. CASE ~listed
      <3>1. UNCHANGED <<count, destroyed, listed>>
        BY <1>6, <2>1, <2>4 DEF CloseUnlist, references, IInv, TypeOK
      <3>. QED
        BY <1>1, <2>1, <3>1, CountersStay
    <2>. QED
      BY <2>3, <2>4
  <1>7. CASE CloseRelease(c)
    <2>1. Decrease /\ UNCHANGED listed
      BY <1>7 DEF IInv, TypeOK, SamplesOwned, CloseRelease, Step, Decided, manager
    <2>2. CASE c \in Notified
      <3>1. /\ Cardinality(Output) >= 1
            /\ Cardinality(Output') = Cardinality(Output) - 1
        BY <1>7, <2>2, OutputLeaves DEF IInv, CloseRelease
      <3>2. Pending \in Nat /\ Pending >= 1 /\ Pending' = Pending - 1
        BY <1>1, <1>5, <3>1 DEF Pending
      <3>3. Constructor' = Constructor
        <4>1. Boole(listed) \in Nat
          BY DEF Boole
        <4>. QED
          BY <1>1, <1>5, <2>1, <3>1, <4>1 DEF Constructor, Decrease
      <3>4. Lost(Notification(Pending))
        BY <1>1, <2>1, <3>2, <3>3, NotificationLeaves
      <3>5. Pending \in 1 .. MaxNotifications + Cardinality(Notified)
        BY <3>2, PendingBounded DEF IInv
      <3>6. Notification(Pending) \in Agents
        BY <3>5 DEF Agents, Notifications
      <3>. QED
        BY <3>4, <3>6, DropMaps
    <2>3. CASE c \notin Notified
      <3>1. Output' = Output /\ Pending' = Pending
        BY <1>1, <1>4, <2>3 DEF Pending
      <3>2. Constructor = 1
        BY <1>2, <2>3, CloserOwns
      <3>3. Constructor' = 0
        <4>1. Boole(listed) \in Nat
          BY DEF Boole
        <4>. QED
          BY <1>1, <1>5, <2>1, <3>1, <3>2, <4>1 DEF Constructor, Decrease
      <3>4. Lost(Creation)
        BY <1>1, <2>1, <3>1, <3>2, <3>3, CreationLeaves
      <3>. QED
        BY <3>4, DropMaps DEF Agents
    <2>. QED
      BY <2>2, <2>3
  <1>8. CASE ~CloseUnlist(c) /\ ~CloseRelease(c)
    <2>1. UNCHANGED <<count, destroyed, listed>>
      BY <1>8 DEF HandleClose, CloseBegin, CloseMark, CloseStop, CloseSample, CloseShutDown,
           CloseLeave, references, manager
    <2>. QED
      BY <1>1, <1>4, <1>8, <2>1, CountersStay
  <1>. QED
    BY <1>6, <1>7, <1>8

(* A user gets hold of a listed connection and lets go of it. *)
LEMMA UseMaps ==
  ASSUME IInv, NEW u \in Users, Use(u)
  PROVE  Registry!Next \/ Kept
  <1>1. UNCHANGED <<queued, listed, Output>>
    BY DEF Use, Get, Close, CloseHandle, Release, manager, reactor, Output, Closing
  <1>2. Pending' = Pending
    BY <1>1 DEF Pending
  <1>3. /\ queued \in Nat /\ count \in Nat /\ Boole(listed) \in Nat
        /\ Cardinality(Output) \in Nat /\ Cardinality(Holding) \in Nat
    BY OwnersFinite, ConstantsAssumption DEF IInv, TypeOK, Boole
  <1>4. User(u) \in Agents
    BY DEF Agents
  <1>5. CASE Get(u)
    <2>1. Become(u, "away", "holding") /\ listed /\ count' = count + 1 /\ UNCHANGED destroyed
      BY <1>5 DEF Get
    <2>2. Constructor' = Constructor
      <3>1. Cardinality(Holding') = Cardinality(Holding) + 1
        BY <2>1, UserJoins DEF IInv
      <3>2. count' = count + 1 /\ queued' = queued /\ listed' = listed /\ Output' = Output
        BY <1>1, <2>1
      <3>. QED
        BY <1>3, <3>1, <3>2 DEF Constructor
    <2>3. Gained(User(u))
      BY <1>1, <1>2, <2>1, <2>2, UserGains DEF IInv
    <2>. QED
      BY <1>4, <2>1, <2>3, AcquireMaps
  <1>6. CASE Release(u)
    <2>1. Become(u, "holding", "away") /\ Decrease
      BY <1>6 DEF Release
    <2>2. Constructor' = Constructor
      <3>1. Cardinality(Holding') = Cardinality(Holding) - 1
        BY <2>1, UserLeaves DEF IInv
      <3>. QED
        BY <1>1, <1>3, <2>1, <3>1 DEF Constructor, Decrease
    <2>3. Lost(User(u))
      BY <1>1, <1>2, <2>1, <2>2, UserLoses DEF IInv
    <2>. QED
      BY <1>4, <2>3, DropMaps
  <1>7. CASE Close(u) \/ CloseHandle(u)
    <2>1. Holding' = Holding
      BY <1>7, UserStays DEF IInv, Close, CloseHandle
    <2>2. UNCHANGED <<count, destroyed>>
      BY <1>7 DEF Close, CloseHandle, references
    <2>. QED
      BY <1>1, <2>1, <2>2, CountersStay
  <1>. QED
    BY <1>5, <1>6, <1>7 DEF Use

(* Without dispatches during open() the connection keeps the rules of the registry,
   however the calls of handle_close() overlap: it is reclaimed at once when its
   last holder lets go. *)
THEOREM ConnectionImplementsRegistry ==
  ASSUME ~ConcurrentDispatch
  PROVE  Spec => ImplementsRegistry
  <1>1. IInv /\ IInv' /\ [Next]_vars => [Registry!Next]_(Registry!vars)
    <2> SUFFICES ASSUME IInv, IInv', [Next]_vars
                 PROVE  Registry!Next \/ UNCHANGED Registry!vars
      OBVIOUS
    <2>1. CASE Next
      BY <2>1, OpenMaps, InputMaps, SendMaps, OutputMaps, CloseMaps, UseMaps, KeptMaps DEF Next
    <2>2. CASE UNCHANGED vars
      <3>1. UNCHANGED <<pc, party, count, listed, queued, destroyed>>
        BY <2>2 DEF vars, references, manager, reactor
      <3>2. UNCHANGED <<Output, Holding>>
        BY <3>1 DEF Output, Holding, Closing
      <3>. QED
        BY <3>1, <3>2, CountersStay, KeptMaps
    <2>. QED
      BY <2>1, <2>2
  <1>. QED
    BY <1>1, InitMaps, InductiveInvariant, PTL DEF Spec, ImplementsRegistry, Registry!Spec

=============================================================================

------------------------ MODULE AsynchConnectionProofs -----------------------
(***************************************************************************)
(* Safety of AsynchConnection for every finite set of users and any number *)
(* of write operations, as long as the kernel takes whole buffers.         *)
(***************************************************************************)
EXTENDS AsynchConnection, FiniteSetTheorems, TLAPS

-----------------------------------------------------------------------------
(***************************************************************************)
(* The parties that own a reference, counted.                              *)
(***************************************************************************)

(* The sets of senders and of users are finite, and can be counted. *)
LEMMA PartiesFinite ==
  /\ IsFiniteSet(Sending) /\ IsFiniteSet(Holding)
  /\ Cardinality(Sending) \in Nat /\ Cardinality(Holding) \in Nat
  /\ Cardinality(Sending) = 0 <=> Sending = {}
  /\ Cardinality(Holding) = 0 <=> Holding = {}
  <1>1. IsFiniteSet(Senders)
    BY ConstantsAssumption, FS_AddElement DEF Senders
  <1>2. IsFiniteSet(Sending) /\ IsFiniteSet(Holding)
    BY <1>1, ConstantsAssumption, FS_Subset DEF Sending, Holding
  <1>. QED
    BY <1>2, FS_CardinalityType, FS_EmptySet

(* The same of the next state. *)
LEMMA PartiesFiniteNext ==
  /\ Cardinality(Sending') \in Nat /\ Cardinality(Holding') \in Nat
  /\ Cardinality(Sending') = 0 <=> Sending' = {}
  /\ Cardinality(Holding') = 0 <=> Holding' = {}
  <1>1. IsFiniteSet(Senders)
    BY ConstantsAssumption, FS_AddElement DEF Senders
  <1>2. IsFiniteSet(Sending') /\ IsFiniteSet(Holding')
    BY <1>1, ConstantsAssumption, FS_Subset DEF Sending, Holding
  <1>. QED
    BY <1>2, FS_CardinalityType, FS_EmptySet

(* decrease() of a reference that is there deletes the object if it is the last. *)
LEMMA Decreases ==
  ASSUME TypeOK, DeletedAtZero, count >= 1, Decrease
  PROVE  /\ count' = count - 1
         /\ count' \in Nat
         /\ destroyed' \in BOOLEAN
         /\ DeletedAtZero'
  <1>1. count \in Nat /\ count' = count - 1
    BY DEF TypeOK, Decrease
  <1>2. destroyed' \in BOOLEAN /\ (destroyed' <=> destroyed \/ count = 1)
    BY Zenon DEF TypeOK, Decrease
  <1>3. ~destroyed
    BY <1>1 DEF DeletedAtZero
  <1>4. count' = 0 <=> count = 1
    BY <1>1
  <1>. QED
    BY <1>1, <1>2, <1>3, <1>4 DEF DeletedAtZero

(* What the balance says of each holder. *)
LEMMA Shares ==
  ASSUME TypeOK, ReferencesAccounted
  PROVE  /\ count >= writes + Cardinality(Sending) + Cardinality(Holding)
         /\ closer # "done" => count >= 1
         /\ isRegistered => count >= 1
         /\ closer # "done" /\ isRegistered => count >= 2
         /\ count = 0 => /\ closer = "done" /\ ~isRegistered /\ writes = 0
                         /\ Sending = {} /\ Holding = {}
  <1> DEFINE a == Boole(closer # "done")
             b == Boole(isRegistered)
             x == Cardinality(Sending)
             y == Cardinality(Holding)
  <1>1. a \in Nat /\ b \in Nat
    BY DEF Boole
  <1>2. (closer # "done" => a = 1) /\ (isRegistered => b = 1)
    BY DEF Boole
  <1>3. x \in Nat /\ y \in Nat /\ (x = 0 <=> Sending = {}) /\ (y = 0 <=> Holding = {})
    BY PartiesFinite
  <1>4. writes \in Nat /\ count \in Nat
    BY ConstantsAssumption DEF TypeOK
  <1>5. count = a + b + writes + x + y
    BY DEF ReferencesAccounted
  <1> HIDE DEF a, b, x, y
  <1>6. /\ count >= writes + x + y
        /\ a = 1 => count >= 1
        /\ b = 1 => count >= 1
        /\ a = 1 /\ b = 1 => count >= 2
        /\ count = 0 => a = 0 /\ b = 0 /\ writes = 0 /\ x = 0 /\ y = 0
    BY <1>1, <1>3, <1>4, <1>5
  <1>7. count >= writes + Cardinality(Sending) + Cardinality(Holding)
    BY <1>6 DEF x, y
  <1>. QED
    BY <1>2, <1>3, <1>6, <1>7

(* handle_output() begins: one more sender, the same users. *)
LEMMA SenderJoins ==
  ASSUME party \in [Senders -> Parties], NEW s \in Senders, Become(s, Resting(s), "sending")
  PROVE  /\ party' \in [Senders -> Parties]
         /\ Cardinality(Sending') = Cardinality(Sending) + 1
         /\ Holding' = Holding
  <1>1. party' \in [Senders -> Parties]
    BY DEF Become, Parties
  <1>2. s \notin Sending /\ Sending' = Sending \cup {s}
    BY DEF Become, Resting, Sending
  <1>3. Holding' = Holding
    BY ConstantsAssumption DEF Become, Resting, Holding, Senders
  <1>. QED
    BY <1>1, <1>2, <1>3, PartiesFinite, FS_AddElement

(* handle_output() returns: one sender less, the same users. *)
LEMMA SenderLeaves ==
  ASSUME party \in [Senders -> Parties], NEW s \in Senders, Become(s, "sending", Resting(s))
  PROVE  /\ party' \in [Senders -> Parties]
         /\ Cardinality(Sending) >= 1 /\ Sending # {}
         /\ Cardinality(Sending') = Cardinality(Sending) - 1
         /\ Holding' = Holding
  <1>1. party' \in [Senders -> Parties]
    BY DEF Become, Parties, Resting
  <1>2. s \in Sending /\ Sending' = Sending \ {s}
    BY DEF Become, Resting, Sending
  <1>3. Holding' = Holding
    BY ConstantsAssumption DEF Become, Resting, Holding, Senders
  <1>4. Cardinality(Sending') = Cardinality(Sending) - 1
    BY <1>2, PartiesFinite, FS_RemoveElement
  <1>. QED
    BY <1>1, <1>2, <1>3, <1>4, PartiesFinite

(* A lookup: one more user, the same senders. *)
LEMMA UserJoins ==
  ASSUME party \in [Senders -> Parties], NEW u \in Users, Become(u, "away", "holding")
  PROVE  /\ party' \in [Senders -> Parties]
         /\ Cardinality(Holding') = Cardinality(Holding) + 1
         /\ Sending' = Sending
  <1>1. party' \in [Senders -> Parties] /\ Sending' = Sending
    BY DEF Become, Parties, Sending, Senders
  <1>2. u \notin Holding /\ Holding' = Holding \cup {u}
    BY DEF Become, Holding, Senders
  <1>. QED
    BY <1>1, <1>2, PartiesFinite, FS_AddElement

(* The decrease() of a user: one user less, the same senders. *)
LEMMA UserLeaves ==
  ASSUME party \in [Senders -> Parties], NEW u \in Users, Become(u, "holding", "away")
  PROVE  /\ party' \in [Senders -> Parties]
         /\ Cardinality(Holding) >= 1
         /\ Cardinality(Holding') = Cardinality(Holding) - 1
         /\ Sending' = Sending
  <1>1. party' \in [Senders -> Parties] /\ Sending' = Sending
    BY DEF Become, Parties, Sending, Senders
  <1>2. u \in Holding /\ Holding' = Holding \ {u}
    BY DEF Become, Holding, Senders
  <1>3. Cardinality(Holding') = Cardinality(Holding) - 1
    BY <1>2, PartiesFinite, FS_RemoveElement
  <1>. QED
    BY <1>1, <1>2, <1>3, PartiesFinite

(* close() by a user who keeps the connection. *)
LEMMA UserStays ==
  ASSUME party \in [Senders -> Parties], NEW u \in Users, NEW from, NEW to \in Parties,
         Become(u, from, to),
         from \notin {"away", "sending"}, to \notin {"away", "sending"}
  PROVE  /\ party' \in [Senders -> Parties]
         /\ Holding' = Holding
         /\ Sending' = Sending
  BY DEF Become, Parties, Sending, Holding, Senders

-----------------------------------------------------------------------------
(***************************************************************************)
(* Every step keeps the inductive invariant.                               *)
(***************************************************************************)

(* open(): the manager's reference comes, and goes again if the stream does not
   start; handle_close() is called at most once. *)
LEMMA OpenStep ==
  ASSUME IInv, Open
  PROVE  IInv'
  <1>1. UNCHANGED party => UNCHANGED <<Sending, Holding>>
    BY DEF Sending, Holding
  <1> USE <1>1, PartiesFinite DEF IInv, TypeOK, Openers, Readers, Closers, Statuses,
        ReferencesAccounted, PendingCounted, DeletedAtZero, InSequence, Left,
        RegistrationFollows, OutputFollows, SocketFollows, Boole, Opener,
        references, output, socket
  <1>2. CASE Register
    BY <1>2 DEF Register
  <1>3. CASE RegisterFails
    BY <1>3 DEF RegisterFails
  <1>4. CASE StartStream
    BY <1>4 DEF StartStream
  <1>5. CASE StartFails
    <2>1. count >= 1
      BY <1>5 DEF StartFails
    <2>2. count' = count - 1 /\ count' \in Nat /\ destroyed' \in BOOLEAN /\ DeletedAtZero'
      BY <1>5, <2>1, Decreases DEF StartFails
    <2>3. ReferencesAccounted'
      BY <1>5, <2>2 DEF StartFails
    <2>4. TypeOK'
      BY <1>5, <2>2 DEF StartFails
    <2>. QED
      BY <1>5, <2>2, <2>3, <2>4 DEF StartFails
  <1>6. CASE CheckStatus
    BY <1>6 DEF CheckStatus
  <1>7. CASE InitiateRead
    BY <1>7 DEF InitiateRead
  <1>8. CASE InitiateReadFails
    BY <1>8 DEF InitiateReadFails
  <1>9. CASE Opened
    BY <1>9 DEF Opened
  <1>10. CASE OpenFailed
    BY <1>10 DEF OpenFailed
  <1>. QED
    BY <1>2, <1>3, <1>4, <1>5, <1>6, <1>7, <1>8, <1>9, <1>10 DEF Open

(* The read operation ends before handle_close() begins. *)
LEMMA ReadStep ==
  ASSUME IInv, Read
  PROVE  IInv'
  <1>1. UNCHANGED party => UNCHANGED <<Sending, Holding>>
    BY DEF Sending, Holding
  <1> USE <1>1, PartiesFinite DEF IInv, TypeOK, Openers, Readers, Closers,
        ReferencesAccounted, PendingCounted, DeletedAtZero, InSequence, Left,
        RegistrationFollows, OutputFollows, SocketFollows, Boole,
        references, output, socket
  <1>2. CASE ReadCompletes
    BY <1>2 DEF ReadCompletes
  <1>3. CASE ReadAgain
    BY <1>3 DEF ReadAgain
  <1>4. CASE ReadEnds
    BY <1>4 DEF ReadEnds
  <1>. QED
    BY <1>2, <1>3, <1>4 DEF Read

(* handle_close(): first the manager's reference goes, then that of the read
   operation; the socket is given up only when nobody else is left. *)
LEMMA CloseStep ==
  ASSUME IInv, HandleClose
  PROVE  IInv'
  <1>1. UNCHANGED party => UNCHANGED <<Sending, Holding>>
    BY DEF Sending, Holding
  <1> USE <1>1, PartiesFinite DEF IInv, TypeOK, Openers, Readers, Closers, Statuses,
        ReferencesAccounted, PendingCounted, DeletedAtZero, InSequence, Left,
        RegistrationFollows, OutputFollows, SocketFollows, Boole, Closer,
        references, output, socket
  <1>2. CASE CloseBegin
    BY <1>2 DEF CloseBegin
  <1>3. CASE CloseMark
    BY <1>3 DEF CloseMark
  <1>4. CASE CloseStop
    BY <1>4 DEF CloseStop
  <1>5. CASE CloseJoin
    BY <1>5 DEF CloseJoin, Cancel
  <1>9. CASE CloseCount
    BY <1>9 DEF CloseCount
  <1>6. CASE CloseDeregister
    <2>1. CASE isRegistered
      <3>1. count >= 1
        BY <1>6, <2>1
      <3>2. count' = count - 1 /\ count' \in Nat /\ destroyed' \in BOOLEAN /\ DeletedAtZero'
        BY <1>6, <2>1, <3>1, Decreases DEF CloseDeregister
      <3>3. ReferencesAccounted'
        BY <1>6, <2>1, <3>2 DEF CloseDeregister
      <3>4. TypeOK'
        BY <1>6, <2>1, <3>2 DEF CloseDeregister
      <3>. QED
        BY <1>6, <2>1, <3>2, <3>3, <3>4 DEF CloseDeregister
    <2>2. CASE ~isRegistered
      BY <1>6, <2>2 DEF CloseDeregister
    <2>. QED
      BY <2>1, <2>2
  <1>7. CASE CloseSocket
    BY <1>7 DEF CloseSocket
  <1>8. CASE CloseRelease
    <2>1. count >= 1
      BY <1>8 DEF CloseRelease
    <2>2. count' = count - 1 /\ count' \in Nat /\ destroyed' \in BOOLEAN /\ DeletedAtZero'
      BY <1>8, <2>1, Decreases DEF CloseRelease
    <2>. QED
      BY <1>8, <2>2 DEF CloseRelease
  <1>. QED
    BY <1>2, <1>3, <1>4, <1>5, <1>6, <1>7, <1>8, <1>9 DEF HandleClose

(* The write operations: each takes and gives back one reference and one unit of
   counter_. *)
LEMMA WriteStep ==
  ASSUME IInv, Write, ~PartialWrites
  PROVE  IInv'
  <1> USE PartiesFinite, PartiesFiniteNext, ConstantsAssumption DEF IInv, TypeOK,
        ReferencesAccounted, PendingCounted, DeletedAtZero, InSequence, Left,
        RegistrationFollows, OutputFollows, SocketFollows, Boole,
        references, output, socket
  <1>1. ASSUME NEW s \in Senders, Send(s)
        PROVE  IInv'
    BY <1>1, SenderJoins DEF Send
  <1>2. ASSUME NEW s \in Senders, WriteStarts(s)
        PROVE  IInv'
    BY <1>2, SenderLeaves DEF WriteStarts
  <1>3. ASSUME NEW s \in Senders, WriteFails(s)
        PROVE  IInv'
    <2>0. Cardinality(Sending) >= 1
      BY <1>3, SenderLeaves DEF WriteFails
    <2>1. count >= 1
      BY <2>0
    <2>2. count' = count - 1 /\ count' \in Nat /\ destroyed' \in BOOLEAN /\ DeletedAtZero'
      BY <1>3, <2>1, Decreases DEF WriteFails
    <2>. QED
      BY <1>3, <2>2, SenderLeaves DEF WriteFails
  <1>4. CASE WriteCompletes
    <2>1. UNCHANGED <<Sending, Holding>>
      BY <1>4 DEF WriteCompletes, Sending, Holding
    <2>2. count >= 1
      BY <1>4 DEF WriteCompletes
    <2>3. count' = count - 1 /\ count' \in Nat /\ destroyed' \in BOOLEAN /\ DeletedAtZero'
      BY <1>4, <2>2, Decreases DEF WriteCompletes
    <2>4. ReferencesAccounted'
      BY <1>4, <2>1, <2>3 DEF WriteCompletes
    <2>5. TypeOK'
      BY <1>4, <2>1, <2>3 DEF WriteCompletes
    <2>6. PendingCounted'
      BY <1>4, <2>1, <2>3 DEF WriteCompletes
    <2>. QED
      BY <1>4, <2>1, <2>3, <2>4, <2>5, <2>6 DEF WriteCompletes
  <1>5. ~WriteContinues
    BY DEF WriteContinues
  <1>. QED
    BY <1>1, <1>2, <1>3, <1>4, <1>5 DEF Write

(* The users: a lookup takes a reference, decrease() gives it back. *)
LEMMA UseStep ==
  ASSUME IInv, NEW u \in Users, Use(u)
  PROVE  IInv'
  <1> USE PartiesFinite, PartiesFiniteNext DEF IInv, TypeOK, Statuses,
        ReferencesAccounted, PendingCounted, DeletedAtZero, InSequence, Left,
        RegistrationFollows, OutputFollows, SocketFollows, Boole,
        references, output, socket
  <1>1. CASE Get(u)
    BY <1>1, UserJoins DEF Get
  <1>2. CASE Close(u)
    BY <1>2, UserStays DEF Close, Parties
  <1>3. CASE CloseShut(u)
    <2>1. party' \in [Senders -> Parties] /\ UNCHANGED <<Sending, Holding>>
      BY <1>3, UserStays DEF CloseShut, Parties
    <2>2. cancelled' \in 0 .. writes /\ writes' = writes /\ shut' \in BOOLEAN
      BY <1>3, ConstantsAssumption DEF CloseShut, Cancel
    <2>. QED
      BY <1>3, <2>1, <2>2 DEF CloseShut
  <1>4. CASE CloseHandle(u)
    BY <1>4, UserStays DEF CloseHandle, Parties
  <1>5. CASE Release(u)
    <2>1. count >= 1
      BY <1>5, UserLeaves DEF Release
    <2>2. count' = count - 1 /\ count' \in Nat /\ destroyed' \in BOOLEAN /\ DeletedAtZero'
      BY <1>5, <2>1, Decreases DEF Release
    <2>. QED
      BY <1>5, <2>2, UserLeaves DEF Release
  <1>. QED
    BY <1>1, <1>2, <1>3, <1>4, <1>5 DEF Use

(* The constructor's reference is all there is in the beginning. *)
LEMMA InitInvariant == Init => IInv
  <1> SUFFICES ASSUME Init PROVE IInv
    OBVIOUS
  <1>1. Sending = {} /\ Holding = {}
    BY DEF Init, Sending, Holding, Senders
  <1>2. TypeOK
    <2>1. writes \in 0 .. MaxWrites /\ cancelled \in 0 .. writes /\ count \in Nat /\ counter \in Nat
      BY ConstantsAssumption DEF Init
    <2>2. party \in [Senders -> Parties]
      BY DEF Init, Parties
    <2>. QED
      BY <2>1, <2>2, Zenon DEF Init, TypeOK, Openers, Readers, Closers, Statuses
  <1>. QED
    BY <1>1, <1>2, PartiesFinite, ConstantsAssumption
       DEF Init, IInv, ReferencesAccounted, PendingCounted, DeletedAtZero, InSequence, Left,
           RegistrationFollows, OutputFollows, SocketFollows, Boole

-----------------------------------------------------------------------------
(***************************************************************************)
(* The theorems.  A partial write breaks the balance: ~PartialWrites.      *)
(***************************************************************************)

(* The inductive invariant. *)
THEOREM InductiveInvariant ==
  ASSUME ~PartialWrites
  PROVE  Spec => []IInv
  <1>1. Init => IInv
    BY InitInvariant
  <1>2. ASSUME IInv, [Next]_vars PROVE IInv'
    <2>1. CASE Next
      BY <1>2, <2>1, OpenStep, ReadStep, CloseStep, WriteStep, UseStep DEF Next
    <2>2. CASE UNCHANGED vars
      BY <1>2, <2>2 DEF vars, references, output, socket, IInv, TypeOK, ReferencesAccounted,
           PendingCounted, DeletedAtZero, InSequence, Left, RegistrationFollows,
           OutputFollows, SocketFollows, Sending, Holding
    <2>. QED
      BY <1>2, <2>1, <2>2
  <1>. QED
    BY <1>1, <1>2, PTL DEF Spec

(* Types; neither counter ever drops below zero. *)
THEOREM TypeCorrect ==
  ASSUME ~PartialWrites
  PROVE  Spec => []TypeOK
  <1>1. IInv => TypeOK
    BY DEF IInv
  <1>. QED
    BY <1>1, InductiveInvariant, PTL

(* Every operation in flight and every user accounts for one reference. *)
THEOREM ReferencesBalanced ==
  ASSUME ~PartialWrites
  PROVE  Spec => []ReferencesAccounted
  <1>1. IInv => ReferencesAccounted
    BY DEF IInv
  <1>. QED
    BY <1>1, InductiveInvariant, PTL

(* When counter_ is zero nothing is in flight: waitForIdleState() is right. *)
THEOREM IdleIsWritten ==
  ASSUME ~PartialWrites
  PROVE  Spec => []IdleMeansWritten
  <1>1. IInv => IdleMeansWritten
    BY PartiesFinite DEF IInv, TypeOK, PendingCounted, IdleMeansWritten
  <1>. QED
    BY <1>1, InductiveInvariant, PTL

(* The object outlives the read operation, the writes and the users, if events
   are dispatched after open() only. *)
THEOREM DeletedLast ==
  ASSUME ~PartialWrites, ~ConcurrentDispatch
  PROVE  Spec => []NoUseAfterDelete
  <1>1. IInv => NoUseAfterDelete
    BY Shares DEF IInv, DeletedAtZero, InSequence, NoUseAfterDelete
  <1>. QED
    BY <1>1, InductiveInvariant, PTL

(* The assertion at the end of open(), under the same condition. *)
THEOREM OpenAsserts ==
  ASSUME ~PartialWrites, ~ConcurrentDispatch
  PROVE  Spec => []OpenAssertion
  <1>1. IInv => OpenAssertion
    BY PartiesFinite DEF IInv, TypeOK, ReferencesAccounted, DeletedAtZero, InSequence,
         RegistrationFollows, Boole, OpenAssertion
  <1>. QED
    BY <1>1, InductiveInvariant, PTL

(* handle_close() never closes the socket under a write operation. *)
THEOREM SocketOutlivesWrites ==
  ASSUME ~PartialWrites
  PROVE  Spec => WritesKeepSocket
  <1>1. IInv => (CloseSocket /\ socketOpen /\ ~socketOpen' => writes = 0 /\ Sending = {})
    <2>1. IInv /\ CloseSocket /\ socketOpen /\ ~socketOpen' => closeSocket
      BY Zenon DEF CloseSocket
    <2>. QED
      BY <2>1 DEF IInv, SocketFollows
  <1>2. ([]IInv) => WritesKeepSocket
    BY <1>1, PTL DEF WritesKeepSocket
  <1>. QED
    BY <1>2, InductiveInvariant, PTL

-----------------------------------------------------------------------------
(***************************************************************************)
(* What needs no assumption on the kernel or the dispatcher.               *)
(***************************************************************************)

(* open() registers once and deregisters what it registered; handle_close() is
   called once. *)
Drift ==
  /\ count \in Int
  /\ counter \in Int
  /\ party \in [Senders -> Parties]
  /\ InSequence
  /\ opener = "registering" => ~isRegistered
  /\ opener = "starting" => isRegistered
  /\ CountersAgree

(* A step that leaves the users alone. *)
LEMMA FlowDrifts ==
  ASSUME Drift, Open \/ Read \/ HandleClose
  PROVE  Drift'
  <1>1. party' = party /\ Holding' = Holding /\ counter' = counter
    BY DEF Open, Register, RegisterFails, StartStream, StartFails, CheckStatus, InitiateRead,
         InitiateReadFails, Opened, OpenFailed, Read, ReadCompletes, ReadAgain, ReadEnds,
         HandleClose, CloseBegin, CloseMark, CloseStop, CloseJoin, CloseCount,
         CloseDeregister, CloseSocket, CloseRelease, output, Holding
  <1> DEFINE n == Cardinality(Holding)
  <1>2. n \in Nat /\ n' = n
    BY <1>1, PartiesFinite
  <1>3. CountersAgree <=> count = counter + Boole(closer # "done") + Boole(isRegistered) + n
    BY DEF CountersAgree
  <1>4. CountersAgree' <=>
          count' = counter' + Boole(closer' # "done") + Boole(isRegistered') + n'
    BY DEF CountersAgree
  <1> HIDE DEF n
  <1> USE <1>1, <1>2, <1>3, <1>4 DEF Drift, InSequence, Boole, Opener, Closer, Decrease, references
  <1>5. CASE Open
    BY <1>5 DEF Open, Register, RegisterFails, StartStream, StartFails, CheckStatus,
         InitiateRead, InitiateReadFails, Opened, OpenFailed
  <1>6. CASE Read
    BY <1>6 DEF Read, ReadCompletes, ReadAgain, ReadEnds
  <1>7. CASE HandleClose
    BY <1>7 DEF HandleClose, CloseBegin, CloseMark, CloseStop, CloseJoin, CloseCount,
         CloseDeregister, CloseSocket, CloseRelease
  <1>. QED
    BY <1>5, <1>6, <1>7

(* A write operation moves both counters, even where it ends twice. *)
LEMMA WriteDrifts ==
  ASSUME Drift, Write
  PROVE  Drift'
  <1>1. UNCHANGED <<opener, reader, closer, isRegistered>>
    BY DEF Write, Send, WriteStarts, WriteFails, WriteCompletes, WriteContinues, references
  <1>2. \/ count' = count + 1 /\ counter' = counter + 1
        \/ count' = count - 1 /\ counter' = counter - 1
        \/ count' = count /\ counter' = counter
    BY DEF Write, Send, WriteStarts, WriteFails, WriteCompletes, WriteContinues, references,
         Decrease
  <1>3. party' \in [Senders -> Parties] /\ Holding' = Holding
    BY SenderJoins, SenderLeaves
       DEF Drift, Write, Send, WriteStarts, WriteFails, WriteCompletes, WriteContinues, Holding
  <1>4. CountersAgree'
    <2> DEFINE n == Cardinality(Holding)
               b == Boole(closer # "done") + Boole(isRegistered)
    <2>1. n \in Nat /\ b \in Nat /\ count = counter + b + n
      BY PartiesFinite DEF Drift, CountersAgree, Boole
    <2>2. CountersAgree' <=> count' = counter' + Boole(closer' # "done") + Boole(isRegistered')
                                       + Cardinality(Holding')
      BY DEF CountersAgree
    <2>3. Boole(closer' # "done") + Boole(isRegistered') = b /\ Cardinality(Holding') = n
      BY <1>1, <1>3
    <2>4. Boole(closer' # "done") \in Nat /\ Boole(isRegistered') \in Nat
      BY DEF Boole
    <2> HIDE DEF n, b
    <2>5. count' \in Int /\ counter' \in Int /\ count' = counter' + b + n
      BY <1>2, <2>1 DEF Drift
    <2>. QED
      BY <2>1, <2>2, <2>3, <2>4, <2>5
  <1>. QED
    BY <1>1, <1>2, <1>3, <1>4 DEF Drift, InSequence

(* A user moves the reference counter. *)
LEMMA UseDrifts ==
  ASSUME Drift, NEW u \in Users, Use(u)
  PROVE  Drift'
  <1>1. UNCHANGED <<opener, reader, closer, isRegistered, counter>>
    BY DEF Use, Get, Close, CloseShut, CloseHandle, Release, references, output
  <1>2. /\ party' \in [Senders -> Parties]
        /\ \/ count' = count + 1 /\ Cardinality(Holding') = Cardinality(Holding) + 1
           \/ count' = count - 1 /\ Cardinality(Holding') = Cardinality(Holding) - 1
           \/ count' = count /\ Cardinality(Holding') = Cardinality(Holding)
    BY UserJoins, UserLeaves, UserStays
       DEF Drift, Use, Get, Close, CloseShut, CloseHandle, Release, references, Decrease, Parties
  <1>3. CountersAgree'
    <2> DEFINE b == Boole(closer # "done") + Boole(isRegistered)
    <2>1. Cardinality(Holding) \in Nat /\ b \in Nat /\ count = counter + b + Cardinality(Holding)
      BY PartiesFinite DEF Drift, CountersAgree, Boole
    <2>2. CountersAgree' <=> count' = counter' + Boole(closer' # "done") + Boole(isRegistered')
                                       + Cardinality(Holding')
      BY DEF CountersAgree
    <2>3. Boole(closer' # "done") + Boole(isRegistered') = b /\ counter' = counter
      BY <1>1
    <2>4. Boole(closer' # "done") \in Nat /\ Boole(isRegistered') \in Nat
      BY DEF Boole
    <2> HIDE DEF b
    <2>. QED
      BY <1>2, <2>1, <2>2, <2>3, <2>4 DEF Drift
  <1>. QED
    BY <1>1, <1>2, <1>3 DEF Drift, InSequence

(* The two counters never drift apart, whatever the kernel takes of a buffer and
   whenever completions are dispatched: where a partial write lets one of them fall
   short, the other falls short by as much. *)
THEOREM CountersNeverDrift == Spec => []CountersAgree
  <1>1. Init => Drift
    <2> SUFFICES ASSUME Init PROVE Drift
      OBVIOUS
    <2>1. Holding = {}
      BY DEF Init, Holding, Senders
    <2>2. Cardinality(Holding) = 0
      BY <2>1, FS_EmptySet
    <2>. QED
      BY <2>2 DEF Init, Drift, InSequence, CountersAgree, Boole, Parties
  <1>2. Drift /\ [Next]_vars => Drift'
    <2> SUFFICES ASSUME Drift, [Next]_vars PROVE Drift'
      OBVIOUS
    <2>1. CASE Next
      BY <2>1, FlowDrifts, WriteDrifts, UseDrifts DEF Next
    <2>2. CASE UNCHANGED vars
      <3>1. UNCHANGED <<opener, reader, closer, party, isRegistered, count, counter, Holding>>
        BY <2>2 DEF vars, references, output, Holding
      <3>. QED
        BY <3>1 DEF Drift, InSequence, CountersAgree
    <2>. QED
      BY <2>1, <2>2
  <1>3. Drift => CountersAgree
    BY DEF Drift
  <1>. QED
    BY <1>1, <1>2, <1>3, PTL DEF Spec

-----------------------------------------------------------------------------
(***************************************************************************)
(* The refinement: who holds the connection, step by step.                 *)
(***************************************************************************)

(* The holders are told apart. *)
LEMMA KindsDiffer ==
  /\ ReadOperation # Manager
  /\ \A i : WriteOperation(i) \notin {ReadOperation, Manager}
  /\ \A u : User(u) \notin {ReadOperation, Manager}
  /\ \A i, u : WriteOperation(i) # User(u)
  /\ \A i, j : WriteOperation(i) = WriteOperation(j) => i = j
  /\ \A u, v : User(u) = User(v) => u = v
  BY DEF ReadOperation, Manager, WriteOperation, User

(* Who is among them. *)
LEMMA HoldersAre ==
  /\ ReadOperation \in Holders <=> closer # "done"
  /\ Manager \in Holders <=> isRegistered
  /\ \A i : WriteOperation(i) \in Holders <=> i \in 1 .. Pending
  /\ \A u : User(u) \in Holders <=> u \in Holding
  /\ \A h \in Holders : \/ h \in {ReadOperation, Manager}
                        \/ \E i \in 1 .. Pending : h = WriteOperation(i)
                        \/ \E u \in Holding : h = User(u)
  BY KindsDiffer DEF Holders

(* The counter goes down to zero exactly when the only holder lets go. *)
LEMMA LastHolder ==
  ASSUME IInv, NEW h \in Holders
  PROVE  count = 1 <=> Holders = {h}
  <1> DEFINE x == Cardinality(Sending)
             y == Cardinality(Holding)
             R == closer # "done"
  <1>1. writes \in Nat /\ x \in Nat /\ y \in Nat /\ Pending = writes + x /\ Pending \in Nat
    BY PartiesFinite, ConstantsAssumption DEF IInv, TypeOK, Pending
  <1>2. count = Boole(R) + Boole(isRegistered) + Pending + y
    BY <1>1, PartiesFinite DEF IInv, ReferencesAccounted, Boole
  <1>3. y = 0 <=> Holding = {}
    BY PartiesFinite
  <1>4. y = 1 <=> \E u : Holding = {u}
    BY PartiesFinite, FS_Singleton
  <1> HIDE DEF x, y, R
  <1>5. Boole(R) = (IF R THEN 1 ELSE 0) /\ Boole(isRegistered) = (IF isRegistered THEN 1 ELSE 0)
    BY DEF Boole
  <1>6. Holders = (IF R THEN {ReadOperation} ELSE {}) \cup (IF isRegistered THEN {Manager} ELSE {})
                    \cup {WriteOperation(i) : i \in 1 .. Pending} \cup {User(u) : u \in Holding}
    BY DEF Holders, R
  <1>7. ASSUME Holders = {h} PROVE count = 1
    <2>0. Pending = 0 \/ WriteOperation(1) \in Holders
      BY <1>1, HoldersAre
    <2>1. CASE h = ReadOperation
      <3>1. R /\ ~isRegistered /\ Pending = 0 /\ Holding = {}
        BY <1>7, <2>0, <2>1, HoldersAre, KindsDiffer DEF R
      <3>. QED BY <1>1, <1>2, <1>3, <1>5, <3>1
    <2>2. CASE h = Manager
      <3>1. ~R /\ isRegistered /\ Pending = 0 /\ Holding = {}
        BY <1>7, <2>0, <2>2, HoldersAre, KindsDiffer DEF R
      <3>. QED BY <1>1, <1>2, <1>3, <1>5, <3>1
    <2>3. ASSUME NEW i \in 1 .. Pending, h = WriteOperation(i) PROVE count = 1
      <3>1. ~R /\ ~isRegistered /\ Holding = {}
        BY <1>7, <2>3, HoldersAre, KindsDiffer DEF R
      <3>2. \A j \in 1 .. Pending : WriteOperation(j) = WriteOperation(i)
        BY <1>6, <1>7, <2>3
      <3>3. \A j \in 1 .. Pending : j = i
        BY <3>2 DEF WriteOperation
      <3>4. Pending = 1
        BY <1>1, <3>3
      <3>. QED BY <1>1, <1>2, <1>3, <1>5, <3>1, <3>4
    <2>4. ASSUME NEW u \in Holding, h = User(u) PROVE count = 1
      <3>1. ~R /\ ~isRegistered /\ Pending = 0
        BY <1>7, <2>0, <2>4, HoldersAre, KindsDiffer DEF R
      <3>2. \A v \in Holding : User(v) = User(u)
        BY <1>6, <1>7, <2>4
      <3>3. Holding = {u}
        BY <3>2 DEF User
      <3>4. y = 1
        BY <1>4, <3>3
      <3>. QED BY <1>1, <1>2, <1>5, <3>1, <3>4
    <2>. QED
      BY <1>6, <2>1, <2>2, <2>3, <2>4
  <1>8. ASSUME count = 1 PROVE Holders = {h}
    <2>1. \/ R /\ ~isRegistered /\ Pending = 0 /\ y = 0
          \/ ~R /\ isRegistered /\ Pending = 0 /\ y = 0
          \/ ~R /\ ~isRegistered /\ Pending = 1 /\ y = 0
          \/ ~R /\ ~isRegistered /\ Pending = 0 /\ y = 1
      BY <1>1, <1>2, <1>5, <1>8
    <2>2. \E g : Holders = {g}
      BY <1>1, <1>3, <1>4, <1>6, <2>1
    <2>. QED
      BY <2>2
  <1>. QED
    BY <1>7, <1>8

(* A step of the registry, from what becomes of the holders. *)
Kept == Holders' = Holders /\ destroyed' = destroyed
Gained(h) == Holders' = Holders \cup {h} /\ destroyed' = destroyed
Lost(h) ==
  /\ h \in Holders
  /\ Holders' = Holders \ {h}
  /\ destroyed' = (destroyed \/ count = 1)

LEMMA KeptMaps ==
  ASSUME Kept
  PROVE  UNCHANGED Registry!vars
  BY DEF Kept, Registry!vars

LEMMA AdmitMaps ==
  ASSUME Gained(Manager), Manager \notin Holders, Holders # {}
  PROVE  Registry!Next
  <1>1. Registry!Members = {}
    BY DEF Registry!Members
  <1>2. Registry!Cardinality(Registry!Members) = 0
    BY <1>1, FS_EmptySet DEF Cardinality, Registry!Cardinality
  <1> HIDE DEF Holders
  <1>3. Registry!Admit(Connection)
    BY <1>1, <1>2 DEF Gained, Registry!Admit
  <1>. QED
    BY <1>3 DEF Registry!Next

LEMMA AcquireMaps ==
  ASSUME NEW a \in Agents, Gained(a), isRegistered
  PROVE  Registry!Next
  <1>1. Registry!Members = {Connection}
    BY HoldersAre DEF Registry!Members
  <1>2. Registry!Acquire(a, {Connection})
    BY <1>1 DEF Gained, Registry!Acquire
  <1>. QED
    BY <1>2 DEF Registry!Next

LEMMA DropMaps ==
  ASSUME IInv, NEW h \in Agents \cup {Manager}, Lost(h)
  PROVE  Registry!Next
  <1>1. count = 1 <=> Holders = {h}
    BY LastHolder DEF Lost
  <1> HIDE DEF Holders
  <1>2. {o \in {Connection} : destroyed'} =
          IF Holders = {h} THEN {o \in {Connection} : destroyed} \cup {Connection}
                           ELSE {o \in {Connection} : destroyed}
    BY <1>1 DEF Lost
  <1>3. Registry!Drop(Connection, h)
    BY <1>2 DEF Lost, Registry!Drop
  <1>. QED
    BY <1>3 DEF Registry!Next

(* The connection is handed over with the reference of its constructor. *)
LEMMA InitMaps == Init => Registry!Init
  <1> SUFFICES ASSUME Init PROVE Registry!Init
    OBVIOUS
  <1>1. Sending = {} /\ Holding = {} /\ Pending = 0
    BY FS_EmptySet DEF Init, Sending, Holding, Senders, Pending
  <1>2. Holders = {ReadOperation}
    BY <1>1 DEF Init, Holders
  <1>. QED
    BY <1>2 DEF Init, Registry!Init, Agents

(* Without a write begun or ended the holders are those of the flags and the
   users. *)
LEMMA PendingStays ==
  ASSUME UNCHANGED <<writes, party>>
  PROVE  Pending' = Pending /\ Holding' = Holding
  BY DEF Pending, Sending, Holding

LEMMA HoldersStay ==
  ASSUME closer' = "done" <=> closer = "done",
         UNCHANGED <<isRegistered, Pending, Holding, destroyed>>
  PROVE  Kept
  BY DEF Kept, Holders

(* The manager's reference comes and goes. *)
LEMMA ManagerJoins ==
  ASSUME isRegistered', UNCHANGED <<closer, Pending, Holding, destroyed>>
  PROVE  Gained(Manager)
  BY DEF Gained, Holders

LEMMA ManagerLeaves ==
  ASSUME isRegistered, ~isRegistered', closer' = "done" <=> closer = "done",
         UNCHANGED <<Pending, Holding>>, Decrease
  PROVE  Lost(Manager)
  BY KindsDiffer DEF Lost, Holders, Decrease

(* That of a write operation, the last by number. *)
LEMMA WriteJoins ==
  ASSUME Pending \in Nat, Pending' = Pending + 1,
         UNCHANGED <<closer, isRegistered, Holding, destroyed>>
  PROVE  Gained(WriteOperation(Pending'))
  <1>1. 1 .. Pending' = (1 .. Pending) \cup {Pending'}
    OBVIOUS
  <1>. QED
    BY <1>1 DEF Gained, Holders

LEMMA WriteLeaves ==
  ASSUME Pending \in Nat, Pending >= 1, Pending' = Pending - 1,
         UNCHANGED <<closer, isRegistered, Holding>>, Decrease
  PROVE  Lost(WriteOperation(Pending))
  <1>1. 1 .. Pending' = (1 .. Pending) \ {Pending} /\ Pending \in 1 .. Pending
    OBVIOUS
  <1>2. WriteOperation(Pending) \in Holders
    BY <1>1, HoldersAre
  <1>3. Holders' = Holders \ {WriteOperation(Pending)}
    BY <1>1, KindsDiffer DEF Holders
  <1>. QED
    BY <1>2, <1>3 DEF Lost, Decrease

(* That of a user. *)
LEMMA UserGains ==
  ASSUME TypeOK, NEW u \in Users, Become(u, "away", "holding"),
         UNCHANGED <<closer, isRegistered, writes, destroyed>>
  PROVE  Gained(User(u))
  <1>1. Pending' = Pending
    BY UserJoins DEF TypeOK, Pending
  <1>2. Holding' = Holding \cup {u}
    BY DEF TypeOK, Become, Holding, Senders
  <1>. QED
    BY <1>1, <1>2 DEF Gained, Holders

LEMMA UserLoses ==
  ASSUME TypeOK, NEW u \in Users, Become(u, "holding", "away"),
         UNCHANGED <<closer, isRegistered, writes>>, Decrease
  PROVE  Lost(User(u))
  <1>1. Pending' = Pending
    BY UserLeaves DEF TypeOK, Pending
  <1>2. u \in Holding /\ Holding' = Holding \ {u}
    BY DEF TypeOK, Become, Holding, Senders
  <1>3. User(u) \in Holders
    BY <1>2, HoldersAre
  <1>4. Holders' = Holders \ {User(u)}
    BY <1>1, <1>2, KindsDiffer DEF Holders
  <1>. QED
    BY <1>3, <1>4 DEF Lost, Decrease

(* open() registers the connection, and deregisters it again if the stream does
   not start. *)
LEMMA OpenMaps ==
  ASSUME IInv, Open
  PROVE  Registry!Next \/ Kept
  <1>1. UNCHANGED <<writes, party>> /\ (closer' = "done" <=> closer = "done")
    BY DEF Open, Register, RegisterFails, StartStream, StartFails, CheckStatus, InitiateRead,
         InitiateReadFails, Opened, OpenFailed, Opener, IInv, InSequence, output
  <1>2. Pending' = Pending /\ Holding' = Holding
    BY <1>1, PendingStays
  <1>3. CASE Register
    <2>1. Gained(Manager)
      BY <1>2, <1>3, ManagerJoins DEF Register
    <2>2. Manager \notin Holders /\ ReadOperation \in Holders
      BY <1>3, HoldersAre DEF IInv, RegistrationFollows, InSequence, Register, Opener
    <2>. QED
      BY <2>1, <2>2, AdmitMaps
  <1>4. CASE StartFails
    <2>1. Lost(Manager)
      BY <1>1, <1>2, <1>4, ManagerLeaves
         DEF IInv, RegistrationFollows, StartFails, Opener
    <2>. QED
      BY <2>1, DropMaps
  <1>5. CASE ~Register /\ ~StartFails
    <2>1. UNCHANGED <<isRegistered, destroyed>>
      BY <1>5 DEF Open, RegisterFails, StartStream, CheckStatus, InitiateRead,
           InitiateReadFails, Opened, OpenFailed, references
    <2>. QED
      BY <1>1, <1>2, <2>1, HoldersStay
  <1>. QED
    BY <1>3, <1>4, <1>5

(* Reading changes nothing for the registry. *)
LEMMA ReadMaps ==
  ASSUME IInv, Read
  PROVE  Kept
  <1>1. /\ UNCHANGED <<writes, party, isRegistered, destroyed>>
        /\ closer' = "done" <=> closer = "done"
    BY DEF Read, ReadCompletes, ReadAgain, ReadEnds, IInv, InSequence, output, references
  <1>. QED
    BY <1>1, PendingStays, HoldersStay

(* handle_close() drops the manager's reference, then that of the read operation. *)
LEMMA CloseMaps ==
  ASSUME IInv, HandleClose
  PROVE  Registry!Next \/ Kept
  <1>1. UNCHANGED <<writes, party>>
    BY DEF HandleClose, CloseBegin, CloseMark, CloseStop, CloseJoin, CloseCount,
         CloseDeregister, CloseSocket, CloseRelease, output
  <1>2. Pending' = Pending /\ Holding' = Holding
    BY <1>1, PendingStays
  <1>3. CASE CloseDeregister
    <2>1. closer # "done" /\ closer' # "done"
      BY <1>3 DEF CloseDeregister, Closer
    <2>2. CASE isRegistered
      <3>1. Lost(Manager)
        BY <1>2, <1>3, <2>1, <2>2, ManagerLeaves DEF CloseDeregister
      <3>. QED
        BY <3>1, DropMaps
    <2>3. CASE ~isRegistered
      BY <1>2, <1>3, <2>1, <2>3, HoldersStay DEF CloseDeregister, references
    <2>. QED
      BY <2>2, <2>3
  <1>4. CASE CloseRelease
    <2>1. closer # "done" /\ closer' = "done" /\ isRegistered' = isRegistered /\ Decrease
      BY <1>4 DEF CloseRelease, Closer
    <2>2. Lost(ReadOperation)
      BY <1>2, <2>1, HoldersAre, KindsDiffer DEF Lost, Holders, Decrease
    <2>. QED
      BY <2>2, DropMaps DEF Agents
  <1>5. CASE ~CloseDeregister /\ ~CloseRelease
    <2>1. UNCHANGED <<isRegistered, destroyed>> /\ closer # "done" /\ closer' # "done"
      BY <1>5 DEF HandleClose, CloseBegin, CloseMark, CloseStop, CloseJoin, CloseCount, CloseSocket,
           Closer, references
    <2>. QED
      BY <1>2, <2>1, HoldersStay
  <1>. QED
    BY <1>3, <1>4, <1>5

(* Each write operation begins with a lookup, as it were, and ends with a drop. *)
LEMMA WriteMaps ==
  ASSUME IInv, Write, ~PartialWrites
  PROVE  Registry!Next \/ Kept
  <1>1. /\ writes \in Nat /\ Cardinality(Sending) \in Nat /\ Pending \in Nat
        /\ Pending = writes + Cardinality(Sending) /\ Pending <= MaxWrites /\ MaxWrites \in Nat
    BY PartiesFinite, ConstantsAssumption DEF IInv, TypeOK, PendingCounted, Pending
  <1>2. \A i \in 1 .. MaxWrites : WriteOperation(i) \in Agents
    BY DEF Agents
  <1>3. ASSUME NEW s \in Senders, Send(s)
        PROVE  Registry!Next
    <2>1. Cardinality(Sending') = Cardinality(Sending) + 1 /\ Holding' = Holding
      BY <1>3, SenderJoins DEF IInv, TypeOK, Send
    <2>2. Pending' = Pending + 1 /\ Pending' <= MaxWrites
      BY <1>1, <1>3, <2>1 DEF Send, Pending
    <2>3. UNCHANGED <<closer, isRegistered, destroyed>> /\ isRegistered
      BY <1>3 DEF Send, IInv, OutputFollows
    <2>4. Gained(WriteOperation(Pending'))
      BY <1>1, <2>1, <2>2, <2>3, WriteJoins
    <2>5. WriteOperation(Pending') \in Agents
      BY <1>1, <1>2, <2>2
    <2>. QED
      BY <2>3, <2>4, <2>5, AcquireMaps
  <1>4. ASSUME NEW s \in Senders, WriteStarts(s)
        PROVE  Kept
    <2>1. Cardinality(Sending') = Cardinality(Sending) - 1 /\ Holding' = Holding
      BY <1>4, SenderLeaves DEF IInv, TypeOK, WriteStarts
    <2>2. Pending' = Pending
      BY <1>1, <1>4, <2>1 DEF WriteStarts, Pending
    <2>. QED
      BY <1>4, <2>1, <2>2, HoldersStay DEF WriteStarts, references
  <1>5. ASSUME Pending >= 1, Pending' = Pending - 1, Decrease,
               UNCHANGED <<closer, isRegistered, Holding>>
        PROVE  Registry!Next
    <2>1. Lost(WriteOperation(Pending))
      BY <1>1, <1>5, WriteLeaves
    <2>2. WriteOperation(Pending) \in Agents
      BY <1>1, <1>2, <1>5
    <2>. QED
      BY <2>1, <2>2, DropMaps
  <1>6. ASSUME NEW s \in Senders, WriteFails(s)
        PROVE  Registry!Next
    <2>1. /\ Cardinality(Sending) >= 1
          /\ Cardinality(Sending') = Cardinality(Sending) - 1 /\ Holding' = Holding
      BY <1>6, SenderLeaves DEF IInv, TypeOK, WriteFails
    <2>2. Pending >= 1 /\ Pending' = Pending - 1
      BY <1>1, <1>6, <2>1 DEF WriteFails, Pending
    <2>. QED
      BY <1>5, <1>6, <2>1, <2>2 DEF WriteFails
  <1>7. CASE WriteCompletes
    <2>1. Sending' = Sending /\ Holding' = Holding
      BY <1>7 DEF WriteCompletes, Sending, Holding
    <2>2. Pending >= 1 /\ Pending' = Pending - 1
      BY <1>1, <1>7, <2>1 DEF WriteCompletes, Pending
    <2>. QED
      BY <1>5, <1>7, <2>1, <2>2 DEF WriteCompletes
  <1>8. ~WriteContinues
    BY DEF WriteContinues
  <1>. QED
    BY <1>3, <1>4, <1>6, <1>7, <1>8 DEF Write

(* A user gets hold of a registered connection and lets go of it. *)
LEMMA UseMaps ==
  ASSUME IInv, NEW u \in Users, Use(u)
  PROVE  Registry!Next \/ Kept
  <1>1. User(u) \in Agents
    BY DEF Agents
  <1>2. CASE Get(u)
    <2>1. Gained(User(u)) /\ isRegistered
      BY <1>2, UserGains DEF IInv, Get, output
    <2>. QED
      BY <1>1, <2>1, AcquireMaps
  <1>3. CASE Release(u)
    <2>1. Lost(User(u))
      BY <1>3, UserLoses DEF IInv, Release, output
    <2>. QED
      BY <1>1, <2>1, DropMaps
  <1>4. CASE Close(u) \/ CloseShut(u) \/ CloseHandle(u)
    <2>1. Holding' = Holding /\ Sending' = Sending
      BY <1>4, UserStays DEF IInv, TypeOK, Close, CloseShut, CloseHandle, Parties
    <2>2. UNCHANGED <<closer, isRegistered, writes, destroyed>>
      BY <1>4 DEF Close, CloseShut, CloseHandle, references, output
    <2>. QED
      BY <2>1, <2>2, HoldersStay DEF Pending
  <1>. QED
    BY <1>2, <1>3, <1>4 DEF Use

(* While the kernel takes whole buffers the connection keeps the rules of the
   registry: it is reclaimed at once when its last holder lets go, and nobody gets
   hold of one that is not registered. *)
THEOREM ConnectionImplementsRegistry ==
  ASSUME ~PartialWrites
  PROVE  Spec => ImplementsRegistry
  <1>1. IInv /\ [Next]_vars => [Registry!Next]_(Registry!vars)
    <2> SUFFICES ASSUME IInv, [Next]_vars PROVE Registry!Next \/ UNCHANGED Registry!vars
      OBVIOUS
    <2>1. CASE Next
      BY <2>1, OpenMaps, ReadMaps, CloseMaps, WriteMaps, UseMaps, KeptMaps DEF Next
    <2>2. CASE UNCHANGED vars
      <3>1. UNCHANGED <<closer, isRegistered, writes, party, destroyed>>
        BY <2>2 DEF vars, references, output
      <3>. QED
        BY <3>1, PendingStays, HoldersStay, KeptMaps
    <2>. QED
      BY <2>1, <2>2
  <1>. QED
    BY <1>1, InitMaps, InductiveInvariant, PTL DEF Spec, ImplementsRegistry, Registry!Spec

=============================================================================

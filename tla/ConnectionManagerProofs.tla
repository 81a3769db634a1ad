----------------------- MODULE ConnectionManagerProofs -----------------------
(***************************************************************************)
(* Safety of ConnectionManager for every set of connections and threads    *)
(* and every limit.                                                        *)
(***************************************************************************)
EXTENDS ConnectionManager, FiniteSetTheorems, SequenceTheorems, TLAPS

-----------------------------------------------------------------------------
(***************************************************************************)
(* Facts about duplicate-free sequences, as the list and the snapshots are.*)
(***************************************************************************)
(* Appending a new element (insert_tail() in register_()) adds it to the range
   and keeps the sequence free of duplicates. *)
LEMMA AppendFacts ==
  ASSUME NEW S, NEW s \in Seq(S), NEW e \in S
  PROVE  /\ Append(s, e) \in Seq(S)
         /\ Append(s, e) # << >>
         /\ ToSet(Append(s, e)) = ToSet(s) \cup {e}
         /\ IsInjective(s) /\ e \notin ToSet(s) => IsInjective(Append(s, e))
  <1>1. /\ Append(s, e) \in Seq(S)
        /\ Len(Append(s, e)) = Len(s) + 1
        /\ \A i \in 1 .. Len(s) : Append(s, e)[i] = s[i]
        /\ Append(s, e)[Len(s) + 1] = e
    OBVIOUS
  <1>2. ToSet(Append(s, e)) = ToSet(s) \cup {e}
    BY <1>1 DEF ToSet
  <1>3. ASSUME IsInjective(s), e \notin ToSet(s) PROVE IsInjective(Append(s, e))
    BY <1>1, <1>3 DEF ToSet, IsInjective
  <1>. QED
    BY <1>1, <1>2, <1>3

(* Unlinking one element (the iterator's remove() in deregister()) takes it out
   of the range of a duplicate-free sequence. *)
LEMMA RemoveAtFacts ==
  ASSUME NEW S, NEW s \in Seq(S), NEW i \in 1 .. Len(s), IsInjective(s)
  PROVE  /\ RemoveAt(s, i) \in Seq(S)
         /\ ToSet(RemoveAt(s, i)) = ToSet(s) \ {s[i]}
         /\ IsInjective(RemoveAt(s, i))
  <1> DEFINE r == RemoveAt(s, i)
  <1>1. /\ r \in Seq(S)
        /\ Len(r) = Len(s) - 1
        /\ \A j \in 1 .. Len(r) : r[j] = IF j < i THEN s[j] ELSE s[j + 1]
    <2> DEFINE a == SubSeq(s, 1, i - 1)
               b == SubSeq(s, i + 1, Len(s))
    <2>1. /\ a \in Seq(S)
          /\ Len(a) = i - 1
          /\ \A j \in 1 .. i - 1 : a[j] = s[j]
      OBVIOUS
    <2>2. /\ b \in Seq(S)
          /\ Len(b) = Len(s) - i
          /\ \A j \in 1 .. Len(s) - i : b[j] = s[j + i]
      OBVIOUS
    <2>3. r = a \o b
      BY DEF RemoveAt
    <2> HIDE DEF a, b, r
    <2>4. /\ a \o b \in Seq(S)
          /\ Len(a \o b) = Len(a) + Len(b)
          /\ \A j \in 1 .. Len(a) + Len(b) :
               (a \o b)[j] = IF j <= Len(a) THEN a[j] ELSE b[j - Len(a)]
      BY <2>1, <2>2, ConcatProperties
    <2>5. Len(s) \in Nat /\ Len(a) + Len(b) = Len(s) - 1
      BY <2>1, <2>2
    <2>6. ASSUME NEW j \in 1 .. Len(s) - 1
          PROVE  (a \o b)[j] = IF j < i THEN s[j] ELSE s[j + 1]
      <3>1. CASE j < i
        BY <3>1, <2>1, <2>4, <2>5
      <3>2. CASE ~(j < i)
        <4>1. /\ j - (i - 1) \in 1 .. Len(s) - i
              /\ (j - (i - 1)) + i = j + 1
          BY <3>2, <2>5
        <4>2. b[j - (i - 1)] = s[j + 1]
          BY <4>1, <2>2
        <4>. QED BY <3>2, <4>2, <2>1, <2>4, <2>5
      <3>. QED BY <3>1, <3>2
    <2>. QED BY <2>3, <2>4, <2>5, <2>6
  <1> HIDE DEF r
  <1>2. ToSet(r) \subseteq ToSet(s) \ {s[i]}
    BY <1>1 DEF ToSet, IsInjective
  <1>3. ASSUME NEW x \in ToSet(s) \ {s[i]} PROVE x \in ToSet(r)
    <2>1. PICK j \in 1 .. Len(s) : s[j] = x /\ j # i
      BY DEF ToSet
    <2>2. CASE j < i
      <3>1. j \in 1 .. Len(r) /\ r[j] = x
        BY <1>1, <2>1, <2>2
      <3>. QED BY <3>1, <1>1 DEF ToSet
    <2>3. CASE j > i
      <3>1. j - 1 \in 1 .. Len(r) /\ r[j - 1] = x
        BY <1>1, <2>1, <2>3
      <3>. QED BY <3>1, <1>1 DEF ToSet
    <2>. QED BY <2>1, <2>2, <2>3
  <1>4. ASSUME NEW m \in 1 .. Len(r), NEW n \in 1 .. Len(r), r[m] = r[n]
        PROVE  m = n
    <2> DEFINE old(j) == IF j < i THEN j ELSE j + 1
    <2>1. /\ old(m) \in 1 .. Len(s) /\ r[m] = s[old(m)]
          /\ old(n) \in 1 .. Len(s) /\ r[n] = s[old(n)]
      BY <1>1
    <2>2. old(m) = old(n)
      <3>1. DOMAIN s = 1 .. Len(s)
        OBVIOUS
      <3> HIDE DEF old
      <3>. QED BY <1>4, <2>1, <3>1 DEF IsInjective
    <2>. QED BY <2>2
  <1>5. IsInjective(r)
    BY <1>4 DEF IsInjective
  <1>. QED
    BY <1>1, <1>2, <1>3, <1>5 DEF r

(* Dropping the head (the walk over a snapshot) removes just that element. *)
LEMMA TailFacts ==
  ASSUME NEW S, NEW s \in Seq(S), s # << >>, IsInjective(s)
  PROVE  /\ Head(s) \in S
         /\ Head(s) \in ToSet(s)
         /\ Tail(s) \in Seq(S)
         /\ Len(s) \in Nat \ {0}
         /\ Tail(s) = << >> <=> Len(s) = 1
         /\ ToSet(Tail(s)) = ToSet(s) \ {Head(s)}
         /\ IsInjective(Tail(s))
  <1>1. /\ Len(s) \in Nat \ {0}
        /\ Tail(s) \in Seq(S)
        /\ Len(Tail(s)) = Len(s) - 1
        /\ \A j \in 1 .. Len(Tail(s)) : Tail(s)[j] = s[j + 1]
        /\ Head(s) = s[1]
    OBVIOUS
  <1>2. Head(s) \in S /\ Head(s) \in ToSet(s)
    BY <1>1 DEF ToSet
  <1>3. ToSet(Tail(s)) \subseteq ToSet(s) \ {Head(s)}
    BY <1>1 DEF ToSet, IsInjective
  <1>4. ASSUME NEW x \in ToSet(s) \ {Head(s)} PROVE x \in ToSet(Tail(s))
    <2>1. PICK j \in 1 .. Len(s) : s[j] = x /\ j # 1
      BY <1>1 DEF ToSet
    <2>2. j - 1 \in 1 .. Len(Tail(s)) /\ s[(j - 1) + 1] = x
      BY <1>1, <2>1
    <2>3. Tail(s)[j - 1] = x
      BY <1>1, <2>2
    <2>4. j - 1 \in DOMAIN Tail(s)
      BY <1>1, <2>2
    <2>. QED BY <2>3, <2>4 DEF ToSet
  <1>5. IsInjective(Tail(s))
    BY <1>1 DEF IsInjective
  <1>6. Tail(s) = << >> <=> Len(s) = 1
    <2>1. Tail(s) = << >> <=> Len(Tail(s)) = 0
      BY <1>1, EmptySeq
    <2>. QED BY <1>1, <2>1
  <1>. QED
    BY <1>1, <1>2, <1>3, <1>4, <1>5, <1>6

(* A lookup result is a sequence of one. *)
LEMMA SingletonFacts ==
  ASSUME NEW S, NEW e \in S
  PROVE  /\ <<e>> \in Seq(S)
         /\ <<e>> # << >>
         /\ Len(<<e>>) = 1
         /\ Head(<<e>>) = e
         /\ Tail(<<e>>) = << >>
         /\ ToSet(<<e>>) = {e}
         /\ IsInjective(<<e>>)
  <1>1. /\ <<e>> \in Seq(S)
        /\ Len(<<e>>) = 1
        /\ <<e>>[1] = e
        /\ DOMAIN <<e>> = {1}
        /\ Head(<<e>>) = e
        /\ Tail(<<e>>) = << >>
    OBVIOUS
  <1>2. ToSet(<<e>>) = {e}
    BY <1>1 DEF ToSet
  <1>3. IsInjective(<<e>>)
    BY <1>1 DEF IsInjective
  <1>. QED BY <1>1, <1>2, <1>3

(* The empty sequence has an empty range. *)
LEMMA EmptyFacts ==
  ASSUME NEW S
  PROVE  /\ << >> \in Seq(S)
         /\ ToSet(<< >>) = {}
         /\ IsInjective(<< >>)
         /\ \A s \in Seq(S) : /\ ToSet(s) \subseteq S
                              /\ s # << >> <=> ToSet(s) # {}
  <1>1. ToSet(<< >>) = {} /\ IsInjective(<< >>)
    BY DEF ToSet, IsInjective
  <1>2. ASSUME NEW s \in Seq(S)
        PROVE  ToSet(s) \subseteq S /\ (s # << >> <=> ToSet(s) # {})
    <2>1. ToSet(s) \subseteq S
      BY DEF ToSet
    <2>2. ASSUME s # << >> PROVE ToSet(s) # {}
      <3>1. 1 \in DOMAIN s
        BY <2>2
      <3>. QED BY <3>1 DEF ToSet
    <2>. QED BY <2>1, <2>2, <1>1
  <1>. QED BY <1>1, <1>2

-----------------------------------------------------------------------------
(***************************************************************************)
(* The invariant is split in two: Shape does not mention the counter; what *)
(* remains follows from how a step changes the sets of holders.            *)
(***************************************************************************)
Parties == Threads \cup {Dispatcher, Manager}

Types ==
  /\ isActive \in BOOLEAN
  /\ connections \in Seq(Connections)
  /\ phase \in [Connections -> Phases]
  /\ count \in [Connections -> Int]
  /\ isRegistered \in [Connections -> BOOLEAN]
  /\ status \in [Connections -> Statuses]
  /\ shut \in [Connections -> BOOLEAN]
  /\ destroyed \in SUBSET Connections
  /\ task \in [Threads -> Tasks]
  /\ again \in [Threads -> BOOLEAN]
  /\ held \in [Threads -> Seq(Connections)]

Shape ==
  /\ Types
  /\ ListsAreInjective
  /\ HeldFollowsTask
  /\ FlagFollowsPhase
  /\ LeavingIsListed

(* A step that neither takes nor drops a reference to c, that takes one for
   holder h, and that drops the one of h. *)
Same(c) ==
  /\ Holders(c)' = Holders(c)
  /\ count'[c] = count[c]
  /\ c \in destroyed' <=> c \in destroyed
  /\ phase'[c] = "none" <=> phase[c] = "none"

Gain(c, h) ==
  /\ h \in Parties
  /\ h \notin Holders(c)
  /\ Holders(c)' = Holders(c) \cup {h}
  /\ count'[c] = count[c] + 1
  /\ c \notin destroyed
  /\ c \notin destroyed'
  /\ phase'[c] # "none"

Loss(c, h) ==
  /\ h \in Holders(c)
  /\ Holders(c)' = Holders(c) \ {h}
  /\ count'[c] = count[c] - 1
  /\ c \in destroyed' <=> c \in destroyed \/ count[c] = 1
  /\ phase'[c] # "none"

Unmoved == \A c \in Connections : Same(c)

Balanced == \A c \in Connections : Same(c) \/ (\E h : Gain(c, h)) \/ (\E h : Loss(c, h))

(* A connection has finitely many holders. *)
LEMMA HoldersFinite ==
  ASSUME NEW c \in Connections
  PROVE  /\ IsFiniteSet(Holders(c))
         /\ Cardinality(Holders(c)) \in Nat
         /\ Cardinality(Holders(c)) = 0 <=> Holders(c) = {}
  <1>1. IsFiniteSet({Dispatcher, Manager})
    <2>1. {Dispatcher, Manager} = {Dispatcher} \cup {Manager}
      OBVIOUS
    <2>2. IsFiniteSet({Dispatcher})
      BY FS_Singleton
    <2>. QED BY <2>1, <2>2, FS_AddElement
  <1>2. IsFiniteSet(Parties)
    BY <1>1, FS_Union, ConstantsAssumption DEF Parties
  <1>3. IsFiniteSet(Holders(c))
    BY <1>2, FS_Subset DEF Holders, Parties
  <1>. QED
    BY <1>3, FS_CardinalityType, FS_EmptySet

(* The counter follows the set of holders through every balanced step. *)
LEMMA Accounting ==
  ASSUME IInv, Shape', Balanced
  PROVE  IInv'
  <1> SUFFICES ASSUME NEW c \in Connections
               PROVE  /\ count'[c] = Cardinality(Holders(c)')
                      /\ Cardinality(Holders(c)') \in Nat
                      /\ phase'[c] = "none" => Holders(c)' = {}
                      /\ c \in destroyed' <=> phase'[c] # "none" /\ Holders(c)' = {}
    BY DEF IInv, TypeOK, Shape, Types, DeletedWhenUnheld, ReferencesAccounted
  <1>1. /\ IsFiniteSet(Holders(c))
        /\ Cardinality(Holders(c)) \in Nat
        /\ Cardinality(Holders(c)) = 0 <=> Holders(c) = {}
    BY HoldersFinite
  <1>2. /\ count[c] = Cardinality(Holders(c))
        /\ phase[c] = "none" => Holders(c) = {}
        /\ c \in destroyed <=> phase[c] # "none" /\ Holders(c) = {}
    BY DEF IInv, DeletedWhenUnheld, ReferencesAccounted
  <1>3. CASE Same(c)
    BY <1>1, <1>2, <1>3 DEF Same
  <1>4. ASSUME NEW h, Gain(c, h)
        PROVE  /\ count'[c] = Cardinality(Holders(c)')
               /\ Cardinality(Holders(c)') \in Nat
               /\ phase'[c] = "none" => Holders(c)' = {}
               /\ c \in destroyed' <=> phase'[c] # "none" /\ Holders(c)' = {}
    <2>1. Cardinality(Holders(c) \cup {h}) = Cardinality(Holders(c)) + 1
      BY <1>1, <1>4, FS_AddElement DEF Gain
    <2>. QED BY <1>1, <1>2, <1>4, <2>1 DEF Gain
  <1>5. ASSUME NEW h, Loss(c, h)
        PROVE  /\ count'[c] = Cardinality(Holders(c)')
               /\ Cardinality(Holders(c)') \in Nat
               /\ phase'[c] = "none" => Holders(c)' = {}
               /\ c \in destroyed' <=> phase'[c] # "none" /\ Holders(c)' = {}
    <2>1. /\ IsFiniteSet(Holders(c) \ {h})
          /\ Cardinality(Holders(c) \ {h}) = Cardinality(Holders(c)) - 1
      BY <1>1, <1>5, FS_RemoveElement DEF Loss
    <2>2. /\ Cardinality(Holders(c) \ {h}) \in Nat
          /\ Cardinality(Holders(c) \ {h}) = 0 <=> Holders(c) \ {h} = {}
      BY <2>1, FS_CardinalityType, FS_EmptySet
    <2>. QED BY <1>1, <1>2, <1>5, <2>1, <2>2 DEF Loss
  <1>. QED
    BY <1>3, <1>4, <1>5 DEF Balanced

-----------------------------------------------------------------------------
(***************************************************************************)
(* The effect of every action on Shape and on the holders.                 *)
(***************************************************************************)

(* What IInv says of one connection and one thread, for citation. *)
LEMMA Unfolded ==
  ASSUME IInv
  PROVE  /\ Shape
         /\ \A c \in Connections :
              /\ Holders(c) # {} => c \notin destroyed
              /\ phase[c] = "none" => Holders(c) = {} /\ c \notin destroyed
              /\ count[c] = Cardinality(Holders(c))
  BY DEF IInv, Shape, TypeOK, Types, DeletedWhenUnheld, ReferencesAccounted

(* A step that leaves the list, the snapshots and the counters alone, and
   neither starts nor ends the dispatch's interest in a connection. *)
LEMMA Quiet ==
  ASSUME UNCHANGED <<connections, held, count, destroyed>>,
         \A c \in Connections :
           /\ phase'[c] = "none" <=> phase[c] = "none"
           /\ phase'[c] = "done" <=> phase[c] = "done"
  PROVE  Unmoved
  BY DEF Unmoved, Same, Holders, Registered

(* The steps of open() and handle_close() that change no reference. *)
LEMMA QuietLifecycle ==
  ASSUME IInv, NEW c \in Connections,
         \/ OpenFails(c) \/ Rejected(c) \/ AssignRegistered(c) \/ StartFails(c)
         \/ Opened(c) \/ HandleClose(c) \/ BeginDeregister(c)
  PROVE  Shape' /\ Unmoved /\ UNCHANGED isActive
  <1>1. Shape
    BY Unfolded
  <1> USE DEF Goto, managerVars, threadVars
  <1>2. Types'
    BY <1>1 DEF Shape, Types, Phases, Statuses, OpenFails, Rejected, AssignRegistered,
                StartFails, Opened, HandleClose, BeginDeregister
  <1>3. ListsAreInjective' /\ HeldFollowsTask'
    BY <1>1 DEF Shape, ListsAreInjective, HeldFollowsTask, OpenFails, Rejected,
                AssignRegistered, StartFails, Opened, HandleClose, BeginDeregister
  <1>4. FlagFollowsPhase' /\ LeavingIsListed'
    <2>1. CASE OpenFails(c) \/ Rejected(c)
      BY <1>1, <2>1 DEF Shape, Types, FlagFollowsPhase, LeavingIsListed, Registered, OpenFails,
                        Rejected
    <2>2. CASE AssignRegistered(c)
      BY <1>1, <2>2 DEF Shape, Types, FlagFollowsPhase, LeavingIsListed, Registered,
                        AssignRegistered
    <2>3. CASE StartFails(c) \/ Opened(c) \/ HandleClose(c)
      <3>1. /\ phase[c] \in {"starting", "open"}
            /\ \E to \in {"open", "closing"} : phase' = [phase EXCEPT ![c] = to]
            /\ UNCHANGED <<connections, isRegistered>>
        BY <2>3 DEF StartFails, Opened, HandleClose
      <3>. QED
        BY <1>1, <3>1 DEF Shape, Types, FlagFollowsPhase, LeavingIsListed, Registered
    <2>4. CASE BeginDeregister(c)
      <3>1. UNCHANGED connections /\ phase[c] = "closing"
        BY <2>4 DEF BeginDeregister
      <3>2. CASE isRegistered[c]
        BY <1>1, <2>4, <3>1, <3>2 DEF Shape, Types, FlagFollowsPhase, LeavingIsListed, Registered,
                                      BeginDeregister
      <3>3. CASE ~isRegistered[c]
        BY <1>1, <2>4, <3>1, <3>3 DEF Shape, Types, FlagFollowsPhase, LeavingIsListed, Registered,
                                      BeginDeregister
      <3>. QED
        BY <3>2, <3>3
    <2>. QED
      BY <2>1, <2>2, <2>3, <2>4
  <1>5. Unmoved
    <2>1. UNCHANGED <<connections, held, count, destroyed>>
      BY DEF OpenFails, Rejected, AssignRegistered, StartFails, Opened, HandleClose,
             BeginDeregister
    <2>2. \A d \in Connections :
            /\ phase'[d] = "none" <=> phase[d] = "none"
            /\ phase'[d] = "done" <=> phase[d] = "done"
      BY <1>1 DEF Shape, Types, OpenFails, Rejected, AssignRegistered, StartFails, Opened,
                  HandleClose, BeginDeregister
    <2>. QED BY <2>1, <2>2, Quiet
  <1>6. UNCHANGED isActive
    BY DEF OpenFails, Rejected, AssignRegistered, StartFails, Opened, HandleClose,
           BeginDeregister
  <1>. QED
    BY <1>2, <1>3, <1>4, <1>5, <1>6 DEF Shape

(* The steps of the threads that change no reference. *)
LEMMA QuietThread ==
  ASSUME IInv, NEW t \in Threads,
         \/ Close(t) \/ Wait(t) \/ WakeUp(t) \/ AbortClose(t) \/ AbortDone(t)
  PROVE  Shape' /\ Unmoved /\ UNCHANGED isActive
  <1>1. Shape
    BY Unfolded
  <1> USE DEF Become, managerVars, connectionVars, threadVars, ShutDown
  <1>2. Types'
    <2>1. UNCHANGED <<isActive, connections, phase, count, isRegistered, destroyed, held>>
      BY DEF Close, Wait, WakeUp, AbortClose, AbortDone
    <2>2. CASE Close(t) \/ AbortClose(t)
      <3>1. PICK c : ShutDown(c)
        BY <2>2 DEF Close, AbortClose
      <3>2. status' \in [Connections -> Statuses] /\ shut' \in [Connections -> BOOLEAN]
        BY <1>1, <3>1 DEF Shape, Types, Statuses
      <3>3. task' \in [Threads -> Tasks] /\ again' \in [Threads -> BOOLEAN]
        BY <1>1, <2>2 DEF Shape, Types, Tasks, Close, AbortClose
      <3>. QED
        BY <1>1, <2>1, <3>2, <3>3 DEF Shape, Types
    <2>3. CASE Wait(t) \/ WakeUp(t) \/ AbortDone(t)
      <3>1. task' \in [Threads -> Tasks] /\ again' \in [Threads -> BOOLEAN]
        BY <1>1, <2>3 DEF Shape, Types, Tasks, Wait, WakeUp, AbortDone
      <3>2. UNCHANGED <<status, shut>>
        BY <2>3 DEF Wait, WakeUp, AbortDone
      <3>. QED
        BY <1>1, <2>1, <3>1, <3>2 DEF Shape, Types
    <2>. QED
      BY <2>2, <2>3
  <1>3. ListsAreInjective' /\ FlagFollowsPhase' /\ LeavingIsListed'
    BY <1>1 DEF Shape, ListsAreInjective, FlagFollowsPhase, LeavingIsListed, Registered,
                Close, Wait, WakeUp, AbortClose, AbortDone
  <1>4. HeldFollowsTask'
    BY <1>1 DEF Shape, Types, HeldFollowsTask, Close, Wait, WakeUp, AbortClose, AbortDone
  <1>5. Unmoved
    BY Quiet DEF Close, Wait, WakeUp, AbortClose, AbortDone
  <1>6. UNCHANGED isActive
    BY DEF Close, Wait, WakeUp, AbortClose, AbortDone
  <1>. QED
    BY <1>2, <1>3, <1>4, <1>5, <1>6 DEF Shape

(* start() and stop(), and steps that change nothing. *)
LEMMA QuietManager ==
  ASSUME IInv, Start \/ Stop \/ UNCHANGED vars
  PROVE  Shape' /\ Unmoved
  <1>1. Shape
    BY Unfolded
  <1> USE DEF connectionVars, threadVars, vars
  <1>2. Shape'
    BY <1>1 DEF Shape, Types, ListsAreInjective, HeldFollowsTask, FlagFollowsPhase,
                LeavingIsListed, Registered, Start, Stop
  <1>3. Unmoved
    BY Quiet DEF Start, Stop
  <1>. QED
    BY <1>2, <1>3

(* The constructor: the dispatch becomes the first holder. *)
LEMMA ConstructStep ==
  ASSUME IInv, NEW c \in Connections, Construct(c)
  PROVE  /\ Shape'
         /\ Gain(c, Dispatcher)
         /\ \A d \in Connections \ {c} : Same(d)
         /\ UNCHANGED isActive
  <1>1. Shape
    BY Unfolded
  <1> USE DEF Goto, managerVars, threadVars
  <1>2. Shape'
    BY <1>1 DEF Shape, Types, Phases, ListsAreInjective, HeldFollowsTask, FlagFollowsPhase,
                LeavingIsListed, Registered, Construct
  <1>3. Holders(c) = {} /\ c \notin destroyed /\ count[c] = 0
    BY Unfolded, HoldersFinite DEF Construct
  <1>4. Gain(c, Dispatcher)
    BY <1>1, <1>3 DEF Gain, Parties, Shape, Types, Holders, Registered, Construct
  <1>5. ASSUME NEW d \in Connections, d # c PROVE Same(d)
    BY <1>1, <1>5 DEF Same, Shape, Types, Holders, Registered, Construct
  <1>. QED
    BY <1>2, <1>4, <1>5 DEF Construct

(* register_(): the list becomes a holder. *)
LEMMA RegisterStep ==
  ASSUME IInv, NEW c \in Connections, Register(c)
  PROVE  /\ Shape'
         /\ Gain(c, Manager)
         /\ \A d \in Connections \ {c} : Same(d)
         /\ UNCHANGED isActive
  <1>1. Shape
    BY Unfolded
  <1> USE DEF Goto, threadVars
  <1>2. c \notin Registered
    BY <1>1 DEF Shape, LeavingIsListed, FlagFollowsPhase, Register
  <1>3. /\ connections' \in Seq(Connections)
        /\ Registered' = Registered \cup {c}
        /\ IsInjective(connections')
    BY <1>1, <1>2, AppendFacts DEF Shape, Types, ListsAreInjective, Registered, Register
  <1>4. Shape'
    BY <1>1, <1>3 DEF Shape, Types, Phases, ListsAreInjective, HeldFollowsTask,
                      FlagFollowsPhase, LeavingIsListed, Register
  <1>5. Dispatcher \in Holders(c) /\ c \notin destroyed
    BY Unfolded DEF Holders, Register
  <1>6. Gain(c, Manager)
    BY <1>1, <1>2, <1>3, <1>5, ConstantsAssumption
       DEF Gain, Parties, Shape, Types, Holders, Register
  <1>7. ASSUME NEW d \in Connections, d # c PROVE Same(d)
    BY <1>1, <1>3, <1>7 DEF Same, Shape, Types, Holders, Register
  <1>. QED
    BY <1>4, <1>6, <1>7 DEF Register

(* deregister(): the list lets go. *)
LEMMA DeregisterStep ==
  ASSUME IInv, NEW c \in Connections, Deregister(c)
  PROVE  /\ Shape'
         /\ Loss(c, Manager)
         /\ \A d \in Connections \ {c} : Same(d)
         /\ UNCHANGED isActive
  <1>1. Shape
    BY Unfolded
  <1> USE DEF Goto, Decrease
  <1>2. /\ connections' \in Seq(Connections)
        /\ c \in Registered
        /\ Registered' = Registered \ {c}
        /\ IsInjective(connections')
    <2>1. PICK i \in 1 .. Len(connections) :
            /\ connections[i] = c
            /\ connections' = RemoveAt(connections, i)
      BY <1>1 DEF Shape, Types, Deregister
    <2>2. c \in Registered
      BY <1>1, <2>1 DEF Shape, Types, Registered, ToSet
    <2>. QED
      BY <1>1, <2>1, <2>2, RemoveAtFacts DEF Shape, Types, ListsAreInjective, Registered
  <1>3. Types'
    BY <1>1, <1>2 DEF Shape, Types, Phases, Tasks, Deregister
  <1>4. Shape'
    BY <1>1, <1>2, <1>3 DEF Shape, Types, ListsAreInjective, HeldFollowsTask,
                            FlagFollowsPhase, LeavingIsListed, Deregister
  <1>5. Loss(c, Manager)
    BY <1>1, <1>2, ConstantsAssumption DEF Loss, Shape, Types, Holders, Deregister
  <1>6. ASSUME NEW d \in Connections, d # c PROVE Same(d)
    BY <1>1, <1>2, <1>6 DEF Same, Shape, Types, Holders, Deregister
  <1>. QED
    BY <1>4, <1>5, <1>6 DEF Deregister

(* The final handle_close(): the dispatch lets go. *)
LEMMA FinishStep ==
  ASSUME IInv, NEW c \in Connections, Finish(c)
  PROVE  /\ Shape'
         /\ Loss(c, Dispatcher)
         /\ \A d \in Connections \ {c} : Same(d)
         /\ UNCHANGED isActive
  <1>1. Shape
    BY Unfolded
  <1> USE DEF Goto, Decrease, managerVars, threadVars
  <1>2. Shape'
    BY <1>1 DEF Shape, Types, Phases, ListsAreInjective, HeldFollowsTask, FlagFollowsPhase,
                LeavingIsListed, Registered, Finish
  <1>3. Loss(c, Dispatcher)
    BY <1>1, ConstantsAssumption DEF Loss, Shape, Types, Holders, Registered, Finish
  <1>4. ASSUME NEW d \in Connections, d # c PROVE Same(d)
    BY <1>1, <1>4 DEF Same, Shape, Types, Holders, Registered, Finish
  <1>. QED
    BY <1>2, <1>3, <1>4 DEF Finish

(* The lookups and abortLeast/MostRecent(): the thread becomes a holder of a
   registered connection. *)
LEMMA TakeStep ==
  ASSUME IInv, NEW t \in Threads, NEW c \in Registered,
         Take(t, c) \/ AbortOne(t, c)
  PROVE  /\ Shape'
         /\ Gain(c, t)
         /\ \A d \in Connections \ {c} : Same(d)
         /\ UNCHANGED isActive
  <1>1. Shape
    BY Unfolded
  <1>2. c \in Connections
    BY <1>1, EmptyFacts DEF Shape, Types, Registered
  <1>3. /\ held[t] = << >>
        /\ ToSet(held[t]) = {}
        /\ <<c>> \in Seq(Connections)
        /\ Len(<<c>>) = 1
        /\ <<c>> # << >>
        /\ ToSet(<<c>>) = {c}
        /\ IsInjective(<<c>>)
    BY <1>1, <1>2, SingletonFacts, EmptyFacts
       DEF Shape, HeldFollowsTask, Take, AbortOne, Become
  <1>4. PICK one \in Seq(Connections) : one = <<c>>
    BY <1>3
  <1>5. PICK next \in {"using", "aborting"} : task' = [task EXCEPT ![t] = next]
    BY DEF Take, AbortOne, Become
  <1>6. /\ UNCHANGED <<isActive, connections, phase, isRegistered, status, shut,
                       destroyed, again>>
        /\ held' = [held EXCEPT ![t] = one]
        /\ count' = [count EXCEPT ![c] = @ + 1]
    BY <1>4 DEF Take, AbortOne, managerVars
  <1>7. one # << >> /\ Len(one) = 1 /\ ToSet(one) = {c} /\ IsInjective(one)
    BY <1>3, <1>4
  <1>8. Types'
    BY <1>1, <1>2, <1>5, <1>6 DEF Shape, Types, Tasks
  <1>9. /\ ListsAreInjective'
        /\ HeldFollowsTask'
        /\ FlagFollowsPhase'
        /\ LeavingIsListed'
    BY <1>1, <1>5, <1>6, <1>7
       DEF Shape, Types, ListsAreInjective, HeldFollowsTask, FlagFollowsPhase,
           LeavingIsListed, Registered
  <1>10. Gain(c, t)
    <2>1. c \notin destroyed /\ phase[c] # "none"
      BY <1>2, Unfolded DEF Holders
    <2>2. t \notin Holders(c)
      BY <1>3, ConstantsAssumption DEF Holders
    <2>3. Holders(c)' = Holders(c) \cup {t}
      BY <1>1, <1>3, <1>6, <1>7, ConstantsAssumption DEF Shape, Types, Holders, Registered
    <2>4. count'[c] = count[c] + 1
      BY <1>1, <1>2, <1>6 DEF Shape, Types
    <2>. QED
      BY <1>6, <2>1, <2>2, <2>3, <2>4 DEF Gain, Parties
  <1>11. ASSUME NEW d \in Connections, d # c PROVE Same(d)
    BY <1>1, <1>3, <1>6, <1>7, <1>11 DEF Same, Shape, Types, Holders, Registered
  <1>. QED
    BY <1>6, <1>8, <1>9, <1>10, <1>11 DEF Shape

(* The snapshot of abort(): the thread becomes a holder of every registered
   connection. *)
LEMMA SnapshotStep ==
  ASSUME IInv, NEW t \in Threads,
         AbortAgain(t) \/ \E wait \in BOOLEAN : AbortAll(t, wait)
  PROVE  /\ Shape'
         /\ \A c \in Registered : Gain(c, t)
         /\ \A c \in Connections \ Registered : Same(c)
         /\ Registered # {}
         /\ UNCHANGED isActive
  <1>1. Shape
    BY Unfolded
  <1>2. /\ Registered \subseteq Connections
        /\ held[t] = << >>
        /\ ToSet(held[t]) = {}
    BY <1>1, EmptyFacts
       DEF Shape, Types, Registered, HeldFollowsTask, AbortAgain, AbortAll, Become
  <1>3. /\ UNCHANGED <<isActive, connections, phase, isRegistered, status, shut, destroyed>>
        /\ connections # << >>
        /\ held' = [held EXCEPT ![t] = connections]
        /\ count' = [c \in Connections |-> IF c \in Registered THEN count[c] + 1 ELSE count[c]]
        /\ task' = [task EXCEPT ![t] = "aborting"]
    BY DEF AbortAgain, AbortAll, Snapshot, Become, managerVars
  <1>4. again' \in [Threads -> BOOLEAN]
    BY <1>1 DEF Shape, Types, AbortAgain, AbortAll
  <1>5. Types'
    <2>1. count' \in [Connections -> Int]
      BY <1>1, <1>3 DEF Shape, Types
    <2>2. task' \in [Threads -> Tasks] /\ held' \in [Threads -> Seq(Connections)]
      BY <1>1, <1>3 DEF Shape, Types, Tasks
    <2>. QED
      BY <1>1, <1>3, <1>4, <2>1, <2>2 DEF Shape, Types
  <1>6. /\ ListsAreInjective'
        /\ HeldFollowsTask'
        /\ FlagFollowsPhase'
        /\ LeavingIsListed'
    BY <1>1, <1>3 DEF Shape, Types, ListsAreInjective, HeldFollowsTask, FlagFollowsPhase,
                      LeavingIsListed, Registered
  <1>7. ASSUME NEW c \in Registered PROVE Gain(c, t)
    <2>1. c \notin destroyed /\ phase[c] # "none"
      BY <1>2, Unfolded DEF Holders
    <2>2. t \notin Holders(c)
      BY <1>2, ConstantsAssumption DEF Holders
    <2>3. Holders(c)' = Holders(c) \cup {t}
      BY <1>1, <1>2, <1>3, ConstantsAssumption DEF Shape, Types, Holders, Registered
    <2>4. count'[c] = count[c] + 1
      BY <1>2, <1>3
    <2>. QED
      BY <1>3, <2>1, <2>2, <2>3, <2>4 DEF Gain, Parties
  <1>8. ASSUME NEW c \in Connections \ Registered PROVE Same(c)
    BY <1>1, <1>2, <1>3, <1>8 DEF Same, Shape, Types, Holders, Registered
  <1>9. Registered # {}
    BY <1>1, <1>3, EmptyFacts DEF Shape, Types, Registered
  <1>. QED
    BY <1>2, <1>3, <1>5, <1>6, <1>7, <1>8, <1>9 DEF Shape

(* The caller of a lookup, or the walk over the snapshot, lets go. *)
LEMMA ReleaseStep ==
  ASSUME IInv, NEW t \in Threads, Release(t) \/ AbortRelease(t)
  PROVE  /\ Shape'
         /\ Head(held[t]) \in Connections
         /\ Loss(Head(held[t]), t)
         /\ \A d \in Connections \ {Head(held[t])} : Same(d)
         /\ UNCHANGED isActive
  <1>1. Shape
    BY Unfolded
  <1>2. held[t] \in Seq(Connections) /\ held[t] # << >> /\ IsInjective(held[t])
    BY <1>1 DEF Shape, Types, ListsAreInjective, HeldFollowsTask, Release, AbortRelease, Become
  <1>3. PICK c, rest : c = Head(held[t]) /\ rest = Tail(held[t])
    OBVIOUS
  <1>4. /\ c \in Connections
        /\ c \in ToSet(held[t])
        /\ rest \in Seq(Connections)
        /\ rest = << >> <=> Len(held[t]) = 1
        /\ Len(held[t]) > 1 <=> Len(held[t]) # 1
        /\ ToSet(rest) = ToSet(held[t]) \ {c}
        /\ IsInjective(rest)
    BY <1>2, <1>3, TailFacts
  <1>5. /\ UNCHANGED <<isActive, connections, phase, isRegistered, status, shut, again>>
        /\ held' = [held EXCEPT ![t] = rest]
        /\ count' = [count EXCEPT ![c] = @ - 1]
        /\ destroyed' = IF count[c] = 1 THEN destroyed \cup {c} ELSE destroyed
    <2>1. CASE AbortRelease(t)
      BY <1>3, <2>1 DEF AbortRelease, Decrease, managerVars
    <2>2. CASE Release(t)
      <3>1. Len(held[t]) = 1
        BY <1>1, <2>2 DEF Shape, HeldFollowsTask, Release, Become
      <3>. QED
        BY <1>3, <1>4, <2>2, <3>1 DEF Release, Decrease, managerVars
    <2>. QED BY <2>1, <2>2
  <1>6. PICK next \in Tasks :
          /\ task' = [task EXCEPT ![t] = next]
          /\ next \in {"idle", "restart"} => rest = << >>
          /\ next = "aborting" => rest # << >>
          /\ next \in {"idle", "restart", "aborting"}
    <2>1. CASE AbortRelease(t)
      BY <1>4, <2>1 DEF AbortRelease, Become, Tasks
    <2>2. CASE Release(t)
      <3>1. Len(held[t]) = 1
        BY <1>1, <2>2 DEF Shape, HeldFollowsTask, Release, Become
      <3>. QED
        BY <1>4, <2>2, <3>1 DEF Release, Become, Tasks
    <2>. QED BY <2>1, <2>2
  <1>7. Types'
    BY <1>1, <1>4, <1>5, <1>6 DEF Shape, Types
  <1>8. HeldFollowsTask'
    BY <1>1, <1>5, <1>6 DEF Shape, Types, HeldFollowsTask
  <1>9. ListsAreInjective' /\ FlagFollowsPhase' /\ LeavingIsListed'
    BY <1>1, <1>4, <1>5
       DEF Shape, Types, ListsAreInjective, FlagFollowsPhase, LeavingIsListed, Registered
  <1>10. Loss(c, t)
    <2>1. t \in Holders(c)
      BY <1>4 DEF Holders
    <2>2. Holders(c)' = Holders(c) \ {t}
      BY <1>1, <1>4, <1>5, ConstantsAssumption DEF Shape, Types, Holders, Registered
    <2>3. phase[c] # "none"
      BY <1>4, <2>1, Unfolded
    <2>. QED
      BY <1>1, <1>4, <1>5, <2>1, <2>2, <2>3 DEF Loss, Shape, Types
  <1>11. ASSUME NEW d \in Connections, d # c PROVE Same(d)
    BY <1>1, <1>4, <1>5, <1>11 DEF Same, Shape, Types, Holders, Registered
  <1>. QED
    BY <1>3, <1>4, <1>5, <1>7, <1>8, <1>9, <1>10, <1>11 DEF Shape

-----------------------------------------------------------------------------
(* The connections a lookup or abortLeast/MostRecent() can hand out are in the
   list. *)
LEMMA LookupStep ==
  ASSUME IInv, NEW t \in Threads, NEW c \in Connections, NEW i \in 1 .. Len(connections) + 1,
         \/ GetById(t, c) \/ GetByAddress(t, c) \/ GetByIndex(t, i)
         \/ AbortLeastRecent(t) \/ AbortMostRecent(t)
  PROVE  \E d \in Registered : Take(t, d) \/ AbortOne(t, d)
  <1>1. connections \in Seq(Connections)
    BY DEF IInv, TypeOK
  <1>2. connections # << >>
        => Head(connections) \in Registered /\ Last(connections) \in Registered
    <2> SUFFICES ASSUME connections # << >>
                 PROVE  Head(connections) \in Registered /\ Last(connections) \in Registered
      OBVIOUS
    <2>1. 1 \in DOMAIN connections /\ Len(connections) \in DOMAIN connections
      BY <1>1
    <2>. QED BY <1>1, <2>1 DEF Registered, ToSet, Last
  <1>3. CASE GetById(t, c)
    BY <1>2, <1>3 DEF GetById, Found
  <1>4. CASE GetByAddress(t, c)
    BY <1>4 DEF GetByAddress
  <1>5. CASE GetByIndex(t, i)
    <2>1. i \in DOMAIN connections => connections[i] \in Registered
      BY DEF Registered, ToSet
    <2>. QED BY <1>2, <1>5, <2>1 DEF GetByIndex
  <1>6. CASE AbortLeastRecent(t)
    BY <1>2, <1>6 DEF AbortLeastRecent
  <1>7. CASE AbortMostRecent(t)
    BY <1>2, <1>7 DEF AbortMostRecent
  <1>. QED
    BY <1>3, <1>4, <1>5, <1>6, <1>7

(* The kinds of steps a thread takes. *)
LEMMA ThreadCases ==
  ASSUME IInv, NEW t \in Threads, ThreadStep(t)
  PROVE  \/ \E d \in Registered : Take(t, d) \/ AbortOne(t, d)
         \/ AbortAgain(t) \/ \E wait \in BOOLEAN : AbortAll(t, wait)
         \/ Release(t) \/ AbortRelease(t)
         \/ Close(t) \/ Wait(t) \/ WakeUp(t) \/ AbortClose(t) \/ AbortDone(t)
  <1>1. connections \in Seq(Connections)
    BY DEF IInv, TypeOK
  <1>2. Len(connections) \in Nat
    BY <1>1
  <1>3. 1 \in 1 .. Len(connections) + 1
    BY <1>2
  <1>4. CASE \E c \in Connections : GetById(t, c) \/ GetByAddress(t, c)
    BY <1>3, <1>4, LookupStep
  <1>5. CASE \/ \E i \in 1 .. Len(connections) + 1 : GetByIndex(t, i)
             \/ AbortLeastRecent(t)
             \/ AbortMostRecent(t)
    <2>1. connections # << >>
      BY <1>5 DEF GetByIndex, AbortLeastRecent, AbortMostRecent
    <2>2. Connections # {}
      BY <1>1, <2>1, EmptyFacts
    <2>. QED BY <1>3, <1>5, <2>2, LookupStep
  <1>. QED
    BY <1>4, <1>5 DEF ThreadStep

(* The initial state has no connections and no holders. *)
LEMMA InitInvariant == Init => IInv
  <1> SUFFICES ASSUME Init PROVE IInv
    OBVIOUS
  <1>1. /\ << >> \in Seq(Connections)
        /\ ToSet(<< >>) = {}
        /\ IsInjective(<< >>)
    BY EmptyFacts
  <1>2. Registered = {} /\ TypeOK
    BY <1>1 DEF Init, TypeOK, Phases, Statuses, Tasks, Registered
  <1>3. ListsAreInjective /\ HeldFollowsTask
    BY <1>1 DEF Init, ListsAreInjective, HeldFollowsTask
  <1>4. FlagFollowsPhase /\ LeavingIsListed
    BY <1>2 DEF Init, FlagFollowsPhase, LeavingIsListed
  <1>5. \A c \in Connections : Holders(c) = {}
    BY <1>1, <1>2, ConstantsAssumption DEF Init, Holders
  <1>6. DeletedWhenUnheld /\ ReferencesAccounted
    BY <1>5, FS_EmptySet DEF Init, DeletedWhenUnheld, ReferencesAccounted
  <1>. QED
    BY <1>2, <1>3, <1>4, <1>6 DEF IInv

(* Every step keeps the shape and is balanced. *)
LEMMA EveryStep ==
  ASSUME IInv, [Next]_vars
  PROVE  Shape' /\ Balanced
  <1>1. ASSUME NEW c \in Connections, Lifecycle(c)
        PROVE  Shape' /\ Balanced
    <2>1. CASE Construct(c)
      BY <2>1, ConstructStep DEF Balanced
    <2>2. CASE Register(c)
      BY <2>2, RegisterStep DEF Balanced
    <2>3. CASE Deregister(c)
      BY <2>3, DeregisterStep DEF Balanced
    <2>4. CASE Finish(c)
      BY <2>4, FinishStep DEF Balanced
    <2>5. CASE \/ OpenFails(c) \/ Rejected(c) \/ AssignRegistered(c) \/ StartFails(c)
               \/ Opened(c) \/ HandleClose(c) \/ BeginDeregister(c)
      BY <2>5, QuietLifecycle DEF Balanced, Unmoved
    <2>. QED
      BY <1>1, <2>1, <2>2, <2>3, <2>4, <2>5 DEF Lifecycle
  <1>2. ASSUME NEW t \in Threads, ThreadStep(t)
        PROVE  Shape' /\ Balanced
    <2>1. ASSUME NEW d \in Registered, Take(t, d) \/ AbortOne(t, d)
          PROVE  Shape' /\ Balanced
      <3>1. d \in Connections
        BY EmptyFacts DEF IInv, TypeOK, Registered
      <3>. QED BY <2>1, <3>1, TakeStep DEF Balanced
    <2>2. CASE AbortAgain(t) \/ \E wait \in BOOLEAN : AbortAll(t, wait)
      BY <2>2, SnapshotStep DEF Balanced
    <2>3. CASE Release(t) \/ AbortRelease(t)
      BY <2>3, ReleaseStep DEF Balanced
    <2>4. CASE \/ Close(t) \/ Wait(t) \/ WakeUp(t) \/ AbortClose(t) \/ AbortDone(t)
      BY <2>4, QuietThread DEF Balanced, Unmoved
    <2>. QED
      BY <1>2, <2>1, <2>2, <2>3, <2>4, ThreadCases
  <1>3. CASE Start \/ Stop \/ UNCHANGED vars
    BY <1>3, QuietManager DEF Balanced, Unmoved
  <1>. QED
    BY <1>1, <1>2, <1>3 DEF Next

(* The inductive invariant holds in every reachable state. *)
THEOREM InductiveInvariant == Spec => []IInv
  <1>1. Init => IInv
    BY InitInvariant
  <1>2. IInv /\ [Next]_vars => IInv'
    BY EveryStep, Accounting
  <1>. QED
    BY <1>1, <1>2, PTL DEF Spec

(* Type correctness; in particular no counter ever drops below zero, whoever
   calls decrease(). *)
THEOREM TypeCorrect == Spec => []TypeOK
  <1>1. IInv => TypeOK
    BY DEF IInv
  <1>. QED
    BY <1>1, InductiveInvariant, PTL

(* increase() and decrease() are balanced: the counter of a connection is the
   number of those who hold a reference. *)
THEOREM ReferencesBalanced == Spec => []ReferencesAccounted
  <1>1. IInv => ReferencesAccounted
    BY DEF IInv
  <1>. QED
    BY <1>1, InductiveInvariant, PTL

(* Nobody can reach a connection that has deleted itself. *)
THEOREM NoUseAfterDelete == Spec => []HeldIsAlive
  <1>1. IInv => HeldIsAlive
    BY DEF IInv, TypeOK, DeletedWhenUnheld, HeldIsAlive
  <1>. QED
    BY <1>1, InductiveInvariant, PTL

(* The assertion of ~Net_ConnectionBase_T(). *)
THEOREM DeletedAfterDeregistering == Spec => []DestroyedIsUnregistered
  <1>1. IInv => DestroyedIsUnregistered
    <2> SUFFICES ASSUME IInv, NEW c \in destroyed
                 PROVE  ~isRegistered[c] /\ c \notin Registered
      BY DEF DestroyedIsUnregistered
    <2>1. c \in Connections /\ Holders(c) = {}
      BY DEF IInv, TypeOK, DeletedWhenUnheld
    <2>2. c \notin Registered
      BY <2>1 DEF Holders
    <2>. QED
      BY <2>1, <2>2 DEF IInv, LeavingIsListed
  <1>. QED
    BY <1>1, InductiveInvariant, PTL

(* deregister() always finds the connection in the list. *)
THEOREM DeregisterFinds == Spec => []LeavingIsListed
  <1>1. IInv => LeavingIsListed
    BY DEF IInv
  <1>. QED
    BY <1>1, InductiveInvariant, PTL

-----------------------------------------------------------------------------
(***************************************************************************)
(* The condition variable.                                                 *)
(***************************************************************************)

(* No step empties the list, or begins to wait for an empty one, without the
   waiters being awake afterwards. *)
LEMMA WakeupStep ==
  ASSUME IInv, NoLostWakeup, [Next]_vars
  PROVE  NoLostWakeup'
  <1>0. /\ connections \in Seq(Connections)
        /\ task \in [Threads -> Tasks]
    BY DEF IInv, TypeOK
  <1>1. ASSUME UNCHANGED connections,
               \A t \in Threads : task'[t] = "waiting" => task[t] = "waiting"
        PROVE  NoLostWakeup'
    BY <1>1 DEF NoLostWakeup
  <1>2. ASSUME NEW c \in Connections, Lifecycle(c)
        PROVE  NoLostWakeup'
    <2>1. CASE Register(c)
      <3>1. connections' # << >>
        BY <1>0, <2>1, AppendFacts DEF Register
      <3>. QED BY <3>1 DEF NoLostWakeup
    <2>2. CASE Deregister(c)
      BY <2>2 DEF Deregister, NoLostWakeup
    <2>3. CASE \/ Construct(c) \/ Finish(c) \/ OpenFails(c) \/ Rejected(c)
               \/ AssignRegistered(c) \/ StartFails(c) \/ Opened(c) \/ HandleClose(c)
               \/ BeginDeregister(c)
      <3>1. UNCHANGED <<connections, task>>
        BY <2>3 DEF Construct, Finish, OpenFails, Rejected, AssignRegistered, StartFails,
                    Opened, HandleClose, BeginDeregister, managerVars, threadVars
      <3>. QED BY <1>1, <3>1
    <2>. QED
      BY <1>2, <2>1, <2>2, <2>3 DEF Lifecycle
  <1>3. ASSUME NEW t \in Threads, ThreadStep(t)
        PROVE  NoLostWakeup'
    <2> USE DEF Become, managerVars
    <2>1. CASE Wait(t)
      BY <2>1 DEF Wait, NoLostWakeup
    <2>2. CASE WakeUp(t)
      <3>1. UNCHANGED connections
        BY <2>2 DEF WakeUp
      <3>2. CASE connections = << >>
        BY <1>0, <1>1, <2>2, <3>1, <3>2 DEF WakeUp
      <3>3. CASE connections # << >>
        BY <3>1, <3>3 DEF NoLostWakeup
      <3>. QED BY <3>2, <3>3
    <2>3. CASE Close(t)
      BY <1>1, <2>3 DEF Close, threadVars
    <2>4. ASSUME UNCHANGED connections,
                 NEW v, v # "waiting", task' = [task EXCEPT ![t] = v]
          PROVE  NoLostWakeup'
      BY <1>0, <1>1, <2>4
    <2>5. CASE \/ \E d \in Registered : Take(t, d) \/ AbortOne(t, d)
               \/ AbortAgain(t) \/ \E wait \in BOOLEAN : AbortAll(t, wait)
      BY <2>4, <2>5 DEF Take, AbortOne, AbortAgain, AbortAll
    <2>6. CASE Release(t) \/ AbortClose(t) \/ AbortDone(t)
      BY <2>4, <2>6 DEF Release, AbortClose, AbortDone
    <2>7. CASE AbortRelease(t)
      BY <2>4, <2>7 DEF AbortRelease
    <2>. QED
      BY <1>3, <2>1, <2>2, <2>3, <2>5, <2>6, <2>7, ThreadCases
  <1>4. CASE Start \/ Stop \/ UNCHANGED vars
    BY <1>1, <1>4 DEF Start, Stop, vars, threadVars
  <1>. QED
    BY <1>2, <1>3, <1>4 DEF Next

(* A thread blocked in wait() is signalled when the list becomes empty: the
   broadcast() of deregister(), and the loop in wait(), lose no wakeup. *)
THEOREM WaitersAreSignalled == Spec => []NoLostWakeup
  <1>1. Init => NoLostWakeup
    BY DEF Init, NoLostWakeup
  <1>2. IInv /\ NoLostWakeup /\ [Next]_vars => NoLostWakeup'
    BY WakeupStep
  <1>. QED
    BY <1>1, <1>2, InductiveInvariant, PTL DEF Spec

-----------------------------------------------------------------------------
(***************************************************************************)
(* The refinement: every step of the manager, the connections and their    *)
(* callers is a step of the registry, or none.                             *)
(***************************************************************************)

(* A list has at least as many entries as members. *)
LEMMA MembersFitList ==
  ASSUME connections \in Seq(Connections)
  PROVE  Cardinality(Registered) <= Len(connections)
  <1>1. connections \in Surjection(1 .. Len(connections), Registered)
    BY DEF Surjection, Registered, ToSet
  <1>2. /\ IsFiniteSet(1 .. Len(connections))
        /\ Cardinality(1 .. Len(connections)) = Len(connections)
    <2>1. Len(connections) \in Nat
      OBVIOUS
    <2>. QED BY <2>1, FS_Interval
  <1>. QED
    BY <1>1, <1>2, FS_Surjection

(* The registry's members are the connections in the list. *)
LEMMA MembersAreRegistered ==
  ASSUME IInv
  PROVE  Registry!Members = Registered
  <1>1. Registered \subseteq Connections
    BY EmptyFacts DEF IInv, TypeOK, Registered
  <1>. QED
    BY <1>1, ConstantsAssumption DEF Registry!Members, Holders

(* Taking references for h, as the registry sees it. *)
LEMMA GainMaps ==
  ASSUME Shape, Shape', NEW h, NEW S \in SUBSET Connections,
         \A c \in S : Gain(c, h),
         \A c \in Connections \ S : Same(c)
  PROVE  /\ [c \in Connections |-> Holders(c)]' =
              [c \in Connections |-> IF c \in S THEN Holders(c) \cup {h} ELSE Holders(c)]
         /\ destroyed' = destroyed
  <1>1. destroyed \subseteq Connections /\ destroyed' \subseteq Connections
    BY DEF Shape, Types
  <1>. QED
    BY <1>1 DEF Gain, Same

(* The same for a single connection. *)
LEMMA GainOneMaps ==
  ASSUME Shape, Shape', NEW h, NEW c \in Connections,
         Gain(c, h),
         \A d \in Connections \ {c} : Same(d)
  PROVE  /\ [d \in Connections |-> Holders(d)]' =
              [d \in Connections |-> IF d \in {c} THEN Holders(d) \cup {h} ELSE Holders(d)]
         /\ destroyed' = destroyed
  <1>1. destroyed \subseteq Connections /\ destroyed' \subseteq Connections
    BY DEF Shape, Types
  <1>. QED
    BY <1>1 DEF Gain, Same

(* Dropping the reference of h, as the registry sees it. *)
LEMMA LossMaps ==
  ASSUME IInv, Shape', NEW h, NEW c \in Connections,
         Loss(c, h),
         \A d \in Connections \ {c} : Same(d)
  PROVE  /\ [d \in Connections |-> Holders(d)]' =
              [[d \in Connections |-> Holders(d)] EXCEPT ![c] = @ \ {h}]
         /\ destroyed' = IF Holders(c) = {h} THEN destroyed \cup {c} ELSE destroyed
         /\ h \in Holders(c)
  <1>1. destroyed \subseteq Connections /\ destroyed' \subseteq Connections
    BY DEF IInv, TypeOK, Shape, Types
  <1>2. /\ count[c] = Cardinality(Holders(c))
        /\ IsFiniteSet(Holders(c))
    BY Unfolded, HoldersFinite
  <1>3. count[c] = 1 <=> Holders(c) = {h}
    <2>1. Holders(c) = {h} => count[c] = 1
      BY <1>2, FS_Singleton
    <2>2. ASSUME count[c] = 1 PROVE Holders(c) = {h}
      <3>1. /\ IsFiniteSet(Holders(c) \ {h})
            /\ Cardinality(Holders(c) \ {h}) = 0
        <4>1. /\ IsFiniteSet(Holders(c) \ {h})
              /\ Cardinality(Holders(c) \ {h}) = Cardinality(Holders(c)) - 1
          BY <1>2, FS_RemoveElement DEF Loss
        <4>. QED BY <1>2, <2>2, <4>1
      <3>2. Holders(c) \ {h} = {}
        BY <3>1, FS_EmptySet
      <3>. QED BY <3>2 DEF Loss
    <2>. QED BY <2>1, <2>2
  <1>4. destroyed' = IF Holders(c) = {h} THEN destroyed \cup {c} ELSE destroyed
    BY <1>1, <1>3 DEF Loss, Same
  <1>5. [d \in Connections |-> Holders(d)]' =
          [[d \in Connections |-> Holders(d)] EXCEPT ![c] = @ \ {h}]
    BY DEF Loss, Same
  <1>. QED
    BY <1>4, <1>5 DEF Loss

(* A step without effect on the references is no step of the registry. *)
LEMMA UnmovedMaps ==
  ASSUME Shape, Shape', Unmoved
  PROVE  UNCHANGED <<[c \in Connections |-> Holders(c)], destroyed>>
  <1>1. destroyed \subseteq Connections /\ destroyed' \subseteq Connections
    BY DEF Shape, Types
  <1>. QED
    BY <1>1 DEF Unmoved, Same

(* The registry starts empty, as the manager does. *)
LEMMA InitMaps == Init => Registry!Init
  <1> SUFFICES ASSUME Init PROVE Registry!Init
    OBVIOUS
  <1>1. Registered = {} /\ \A t \in Threads : ToSet(held[t]) = {}
    BY EmptyFacts DEF Init, Registered
  <1>2. \A c \in Connections : Holders(c) = {}
    BY <1>1 DEF Init, Holders
  <1>3. [c \in Connections |-> Holders(c)] \in
          [Connections -> {{}} \cup {{a} : a \in Threads \cup {Dispatcher}}]
    BY <1>2
  <1>. QED
    BY <1>3 DEF Init, Registry!Init

(* Every step of the implementation maps to a step of the registry. *)
LEMMA StepMaps ==
  ASSUME IInv, [Next]_vars
  PROVE  [Registry!Next]_(Registry!vars)
  <1>1. Shape /\ Shape'
    BY Unfolded, EveryStep
  <1> USE DEF Registry!Next, Registry!vars
  <1>2. ASSUME NEW c \in Connections, Lifecycle(c)
        PROVE  Registry!Next \/ UNCHANGED Registry!vars
    <2>1. CASE Construct(c)
      <3>1. /\ Gain(c, Dispatcher)
            /\ \A d \in Connections \ {c} : Same(d)
            /\ UNCHANGED isActive
        BY <2>1, ConstructStep
      <3>2. /\ [d \in Connections |-> Holders(d)]' =
                [d \in Connections |-> IF d \in {c} THEN Holders(d) \cup {Dispatcher}
                                                  ELSE Holders(d)]
            /\ destroyed' = destroyed
        BY <1>1, <3>1, GainOneMaps
      <3>3. Holders(c) = {} /\ c \notin destroyed
        BY <2>1, Unfolded DEF Construct, Goto
      <3>4. Registry!Create(c, Dispatcher)
        BY <3>1, <3>2, <3>3 DEF Registry!Create
      <3>. QED BY <3>4
    <2>2. CASE Register(c)
      <3>1. /\ Gain(c, Manager)
            /\ \A d \in Connections \ {c} : Same(d)
            /\ UNCHANGED isActive
        BY <2>2, RegisterStep
      <3>2. /\ [d \in Connections |-> Holders(d)]' =
                [d \in Connections |-> IF d \in {c} THEN Holders(d) \cup {Manager}
                                                  ELSE Holders(d)]
            /\ destroyed' = destroyed
        BY <1>1, <3>1, GainOneMaps
      <3>3. Dispatcher \in Holders(c)
        BY <2>2 DEF Holders, Register, Goto
      <3>4. Cardinality(Registered) < MaxConnections
        <4>1. connections \in Seq(Connections) /\ Len(connections) < MaxConnections
          BY <1>1, <2>2 DEF Shape, Types, Register
        <4>2. Cardinality(Registered) <= Len(connections)
          BY <4>1, MembersFitList
        <4>3. Len(connections) \in Nat
          BY <4>1
        <4>4. IsFiniteSet(Registered)
          <5>1. connections \in Surjection(1 .. Len(connections), Registered)
            BY <4>1 DEF Surjection, Registered, ToSet
          <5>. QED BY <5>1, FS_Interval, FS_Surjection
        <4>5. Cardinality(Registered) \in Nat
          BY <4>4, FS_CardinalityType
        <4>. QED BY <4>1, <4>2, <4>3, <4>5, ConstantsAssumption
      <3>5. Registry!Admit(c)
        <4>1. Manager \notin Holders(c)
          BY <3>1 DEF Gain
        <4>2. c \notin Registry!Members
          BY <4>1 DEF Registry!Members
        <4>3. isActive
          BY <2>2 DEF Register
        <4>4. Registry!Members = Registered
          BY MembersAreRegistered
        <4>5. [d \in Connections |-> Holders(d)]' =
                [[d \in Connections |-> Holders(d)] EXCEPT ![c] = @ \cup {Manager}]
          BY <3>2
        <4>6. [d \in Connections |-> Holders(d)][c] # {}
          BY <3>3
        <4>7. Registry!Cardinality(Registry!Members) < MaxConnections
          BY <3>4, <4>4 DEF Cardinality, Registry!Cardinality
        <4>8. UNCHANGED <<isActive, destroyed>>
          BY <3>1, <3>2
        <4>. HIDE DEF Holders
        <4>. QED
          BY <4>2, <4>3, <4>5, <4>6, <4>7, <4>8 DEF Registry!Admit
      <3>. QED BY <3>5
    <2>3. CASE Deregister(c)
      <3>1. /\ Loss(c, Manager)
            /\ \A d \in Connections \ {c} : Same(d)
            /\ UNCHANGED isActive
        BY <2>3, DeregisterStep
      <3>2. Registry!Drop(c, Manager)
        BY <1>1, <3>1, LossMaps DEF Registry!Drop
      <3>. QED BY <3>2
    <2>4. CASE Finish(c)
      <3>1. /\ Loss(c, Dispatcher)
            /\ \A d \in Connections \ {c} : Same(d)
            /\ UNCHANGED isActive
        BY <2>4, FinishStep
      <3>2. Registry!Drop(c, Dispatcher)
        BY <1>1, <3>1, LossMaps DEF Registry!Drop
      <3>. QED BY <3>2
    <2>5. CASE \/ OpenFails(c) \/ Rejected(c) \/ AssignRegistered(c) \/ StartFails(c)
               \/ Opened(c) \/ HandleClose(c) \/ BeginDeregister(c)
      <3>1. Unmoved /\ UNCHANGED isActive
        BY <2>5, QuietLifecycle
      <3>. QED BY <1>1, <3>1, UnmovedMaps
    <2>. QED
      BY <1>2, <2>1, <2>2, <2>3, <2>4, <2>5 DEF Lifecycle
  <1>3. ASSUME NEW t \in Threads, ThreadStep(t)
        PROVE  Registry!Next \/ UNCHANGED Registry!vars
    <2>1. ASSUME NEW d \in Registered, Take(t, d) \/ AbortOne(t, d)
          PROVE  Registry!Next
      <3>1. d \in Connections
        BY <1>1, EmptyFacts DEF Shape, Types, Registered
      <3>2. /\ Gain(d, t)
            /\ \A c \in Connections \ {d} : Same(c)
            /\ UNCHANGED isActive
        BY <2>1, TakeStep
      <3>3. /\ [c \in Connections |-> Holders(c)]' =
                [c \in Connections |-> IF c \in {d} THEN Holders(c) \cup {t} ELSE Holders(c)]
            /\ destroyed' = destroyed
        BY <1>1, <3>1, <3>2, GainOneMaps
      <3>4. Registry!Acquire(t, {d})
        BY <3>1, <3>2, <3>3, MembersAreRegistered DEF Registry!Acquire
      <3>. QED BY <3>1, <3>4
    <2>2. CASE AbortAgain(t) \/ \E wait \in BOOLEAN : AbortAll(t, wait)
      <3>1. Registered \subseteq Connections
        BY <1>1, EmptyFacts DEF Shape, Types, Registered
      <3>2. /\ \A c \in Registered : Gain(c, t)
            /\ \A c \in Connections \ Registered : Same(c)
            /\ Registered # {}
            /\ UNCHANGED isActive
        BY <2>2, SnapshotStep
      <3>3. /\ [c \in Connections |-> Holders(c)]' =
                [c \in Connections |-> IF c \in Registered THEN Holders(c) \cup {t}
                                                         ELSE Holders(c)]
            /\ destroyed' = destroyed
        BY <1>1, <3>1, <3>2, GainMaps
      <3>4. Registry!Acquire(t, Registered)
        BY <3>1, <3>2, <3>3, MembersAreRegistered DEF Registry!Acquire
      <3>. QED BY <3>1, <3>4
    <2>3. CASE Release(t) \/ AbortRelease(t)
      <3>1. PICK c \in Connections : c = Head(held[t])
        BY <2>3, ReleaseStep
      <3>2. /\ Loss(c, t)
            /\ \A d \in Connections \ {c} : Same(d)
            /\ UNCHANGED isActive
        BY <2>3, <3>1, ReleaseStep
      <3>3. Registry!Drop(c, t)
        BY <1>1, <3>2, LossMaps DEF Registry!Drop
      <3>. QED BY <3>3
    <2>4. CASE \/ Close(t) \/ Wait(t) \/ WakeUp(t) \/ AbortClose(t) \/ AbortDone(t)
      <3>1. Unmoved /\ UNCHANGED isActive
        BY <2>4, QuietThread
      <3>. QED BY <1>1, <3>1, UnmovedMaps
    <2>. QED
      BY <1>3, <2>1, <2>2, <2>3, <2>4, ThreadCases
  <1>4. CASE Start \/ Stop
    <2>1. Unmoved
      BY <1>4, QuietManager
    <2>2. isActive' = ~isActive
      BY <1>1, <1>4 DEF Shape, Types, Start, Stop
    <2>. QED
      BY <1>1, <2>1, <2>2, UnmovedMaps DEF Registry!Switch
  <1>5. CASE UNCHANGED vars
    <2>1. Unmoved
      BY <1>5, QuietManager
    <2>. QED
      BY <1>1, <1>5, <2>1, UnmovedMaps DEF vars
  <1>. QED
    BY <1>2, <1>3, <1>4, <1>5 DEF Next

(* The manager with its counters, list and snapshots implements the registry:
   an object is reclaimed exactly when the last holder lets go, only a listed
   connection is ever handed out, and the limit is kept. *)
THEOREM ManagerImplementsRegistry == Spec => ImplementsRegistry
  <1>1. Init => Registry!Init
    BY InitMaps
  <1>2. IInv /\ [Next]_vars => [Registry!Next]_(Registry!vars)
    BY StepMaps
  <1>. QED
    BY <1>1, <1>2, InductiveInvariant, PTL DEF Spec, ImplementsRegistry, Registry!Spec

=============================================================================

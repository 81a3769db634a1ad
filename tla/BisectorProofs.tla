----------------------------- MODULE BisectorProofs -----------------------------
(***************************************************************************)
(* IRC_Module_Bisector_T cuts every stream into its messages, however long *)
(* the stream is and however the reads divide it.                          *)
(***************************************************************************)
EXTENDS Bisector, TLAPS

(* The body of the invariant, for a session that began in INITIAL. *)
Clean == BufferScanned /\ LengthsCounted /\ FramesKept /\ FramesAreMessages

(***************************************************************************)
(* What a stream is.                                                       *)
(***************************************************************************)
LEMMA StreamFacts ==
  ASSUME stream \in Streams
  PROVE  \A i \in Positions :
           /\ stream[i] \in {"char", "CR", "LF"}
           /\ stream[i] = "CR" => i > 1 /\ stream[i - 1] = "char"
           /\ stream[i] = "LF" <=> i > 1 /\ stream[i - 1] = "CR"
  BY DEF Streams, WellFormed

(* The first byte of a message is neither CR nor LF. *)
LEMMA StartIsText ==
  ASSUME stream \in Streams, NEW p \in Positions, MessageStart(p)
  PROVE  stream[p] = "char"
<1>1. CASE p = 1
  BY <1>1, StreamFacts
<1>2. CASE p # 1
  <2>1. stream[p - 1] = "LF" /\ p - 1 \in Positions
    BY <1>2, StreamLengthAssumption DEF MessageStart, Positions
  <2> QED BY <2>1, StreamFacts
<1> QED BY <1>1, <1>2

(***************************************************************************)
(* Types.                                                                  *)
(***************************************************************************)
LEMMA InitTypeOK == Init => TypeOK
  BY StreamLengthAssumption DEF Init, TypeOK, Conditions

(* No step changes the type of a variable, whatever its start condition. *)
LEMMA StepTypeOK == TypeOK /\ [Next]_vars => TypeOK'
<1> SUFFICES ASSUME TypeOK, [Next]_vars PROVE TypeOK'
  OBVIOUS
<1> USE StreamLengthAssumption DEF TypeOK, Conditions
<1>1. CASE Initialize
  BY <1>1 DEF Initialize
<1>2. ASSUME NEW n \in 1..(StreamLength - received), HandleDataMessage(n) PROVE TypeOK'
  BY <1>2 DEF HandleDataMessage
<1>3. CASE ScanText
  BY <1>3 DEF ScanText, Advance, sessionVars, bufferVars
<1>4. CASE ScanCR
  BY <1>4 DEF ScanCR, Advance, sessionVars, bufferVars
<1>5. CASE ScanStray
  BY <1>5 DEF ScanStray, Advance, sessionVars, bufferVars
<1>6. CASE FrameFound
  <2>1. Width \in Nat /\ Width >= 1
    BY DEF Width
  <2>2. ASSUME CutBlock(Width)
        PROVE  /\ first' \in Nat /\ block' \in Nat /\ frames' \subseteq Nat \X Nat
               /\ step' \in {"idle", "scanning", "astray"} /\ agreed' \in BOOLEAN
    BY <2>1, <2>2 DEF CutBlock, Agree
  <2>3. ASSUME HandOnBuffer
        PROVE  /\ first' \in Nat /\ block' \in Nat /\ frames' \subseteq Nat \X Nat
               /\ step' \in {"idle", "scanning", "astray"} /\ agreed' \in BOOLEAN
    BY <2>3 DEF HandOnBuffer, Agree
  <2> QED BY <1>6, <2>2, <2>3 DEF FrameFound, Advance, sessionVars
<1>7. CASE ScanEnd
  BY <1>7 DEF ScanEnd, sessionVars
<1>8. CASE UNCHANGED vars
  BY <1>8 DEF vars, sessionVars, bufferVars, scannerVars
<1> QED BY <1>1, <1>2, <1>3, <1>4, <1>5, <1>6, <1>7, <1>8 DEF Next

(***************************************************************************)
(* A step that hands nothing on keeps what was said of the frames.         *)
(***************************************************************************)
LEMMA FramesStay ==
  ASSUME FramesKept, FramesAreMessages, began = "INITIAL",
         stream' = stream, first' = first, frames' = frames
  PROVE  FramesKept' /\ FramesAreMessages'
  BY DEF FramesKept, FramesAreMessages, Message, MessageStart

(***************************************************************************)
(* A read.  A lone first byte is text, so that nothing is pending when it  *)
(* is not scanned.                                                         *)
(***************************************************************************)
LEMMA ReadKeeps ==
  ASSUME TypeOK, TypeOK', began = "INITIAL", Clean,
         NEW n \in 1..(StreamLength - received), HandleDataMessage(n)
  PROVE  Clean'
<1> USE DEF HandleDataMessage
<1>1. FramesKept' /\ FramesAreMessages'
  BY FramesStay DEF Clean
<1>2. Scanned = received + 1
  BY DEF Scanned
<1>3. CASE received + n - first + 1 < 2
  <2>1. n = 1 /\ first = received + 1 /\ first \in Positions
    BY <1>3, StreamLengthAssumption DEF Clean, BufferScanned, TypeOK, Positions
  <2>2. stream[first] = "char"
    BY <2>1, StartIsText DEF Clean, BufferScanned, TypeOK
  <2>3. Scanned' = first + 1 /\ received' = first
    BY <2>1 , <1>3 DEF Scanned, TypeOK
  <2>4. Pending(received + 1) = 0 /\ Pending(first + 1)' = 0
    BY <2>1, <2>2, <1>3 DEF Pending, TypeOK
  <2>5. BufferScanned'
    BY <1>2, <1>3, <2>1, <2>2, <2>3, <2>4 DEF Clean, BufferScanned, MessageStart, TypeOK
  <2>6. LengthsCounted'
    BY <1>3, <2>1, <2>3, <2>4 DEF Clean, LengthsCounted, TypeOK
  <2> QED BY <1>1, <2>5, <2>6 DEF Clean
<1>4. CASE ~(received + n - first + 1 < 2)
  <2>1. Scanned' = received + 1 /\ step' = "scanning"
    BY <1>4 DEF Scanned
  <2>2. position' = received + 1 /\ block' = received + 1
    BY <1>4
  <2>3. /\ Pending(Scanned)' = Pending(received + 1)
        /\ Pending(block)' = Pending(received + 1)
    BY <2>1, <2>2 DEF Pending
  <2>4. BufferScanned'
    BY <1>2, <1>4, <2>1, <2>3 DEF Clean, BufferScanned, MessageStart, TypeOK
  <2>5. LengthsCounted'
    <3>1. Pending(received + 1) \in {0, 1}
      BY DEF Pending
    <3>2. messageLength' <= block' - first' - Pending(block)'
      BY <2>2, <2>3, <3>1 DEF Clean, LengthsCounted, TypeOK
    <3>3. first' <= block' /\ block' <= position' /\ ~(position' > block')
      BY <2>2 DEF Clean, BufferScanned, TypeOK
    <3> QED BY <1>4, <2>1, <2>2, <3>2, <3>3 DEF LengthsCounted, TypeOK
  <2> QED BY <1>1, <2>4, <2>5 DEF Clean
<1> QED BY <1>3, <1>4

(***************************************************************************)
(* The scanner's steps inside of a message.                                *)
(***************************************************************************)
LEMMA TextKeeps ==
  ASSUME TypeOK, TypeOK', began = "INITIAL", Clean, ScanText
  PROVE  Clean'
<1> USE DEF ScanText, Scanning, Advance, bufferVars, sessionVars
<1>1. FramesKept' /\ FramesAreMessages'
  BY FramesStay DEF Clean
<1>2. PICK n \in 1..(received - position + 1) :
        /\ \A i \in position..(position + n - 1) : stream[i] = "char"
        /\ scanned' = scanned + more + n
        /\ position' = position + n
  OBVIOUS
<1>3. Scanned = position /\ Scanned' = position + n /\ step' = "scanning"
  BY <1>2 DEF Scanned
<1>4. Pending(position) = 0 /\ more = 0
  BY <1>3 DEF Clean, BufferScanned, Pending
<1>5. stream[position + n - 1] = "char"
  BY <1>2 DEF TypeOK
<1>6. Pending(position)' = 0
  BY <1>2, <1>5 DEF Pending, TypeOK
<1>7. Pending(block)' = Pending(block)
  BY DEF Pending
<1>8. BufferScanned'
  BY <1>2, <1>3, <1>4, <1>6 DEF Clean, BufferScanned, MessageStart, TypeOK
<1>9. LengthsCounted'
  BY <1>2, <1>3, <1>4, <1>6, <1>7 DEF Clean, LengthsCounted, TypeOK
<1> QED BY <1>1, <1>8, <1>9 DEF Clean

(* A CR is not counted before its LF is seen. *)
LEMMA CRKeeps ==
  ASSUME TypeOK, TypeOK', began = "INITIAL", Clean, ScanCR
  PROVE  Clean'
<1> USE DEF ScanCR, Scanning, Advance, bufferVars, sessionVars
<1>1. FramesKept' /\ FramesAreMessages'
  BY FramesStay DEF Clean
<1>2. Scanned = position /\ Scanned' = position + 1 /\ step' = "scanning"
  BY DEF Scanned
<1>3. Pending(position) = 0
  BY <1>2 DEF Clean, BufferScanned, Pending
<1>4. first <= position /\ stream[position] = "CR"
  BY <1>2 DEF Clean, BufferScanned
<1>5. Pending(position)' = 1
  BY <1>4 DEF Pending, TypeOK
<1>6. Pending(block)' = Pending(block)
  BY DEF Pending
<1>7. BufferScanned'
  BY <1>2, <1>4, <1>5 DEF Clean, BufferScanned, MessageStart, TypeOK
<1>8. LengthsCounted'
  BY <1>2, <1>3, <1>5, <1>6 DEF Clean, LengthsCounted, TypeOK
<1> QED BY <1>1, <1>7, <1>8 DEF Clean

(* At the end of a block its text is added to messageLength_. *)
LEMMA EndKeeps ==
  ASSUME TypeOK, TypeOK', began = "INITIAL", Clean, ScanEnd
  PROVE  Clean'
<1> USE DEF ScanEnd, sessionVars
<1>1. FramesKept' /\ FramesAreMessages'
  BY FramesStay DEF Clean
<1>2. Scanned = position /\ Scanned' = received + 1 /\ position = received + 1
  BY DEF Scanned, Clean, BufferScanned, TypeOK
<1>3. Pending(Scanned)' = Pending(position)
  BY <1>2 DEF Pending
<1>4. BufferScanned'
  BY <1>2, <1>3 DEF Clean, BufferScanned, MessageStart, TypeOK
<1>5. Pending(position) \in {0, 1} /\ Pending(block) \in {0, 1}
  BY DEF Pending
<1>6. Pending(received + 1)' = Pending(position)
  BY <1>2 DEF Pending
<1>7. messageLength + scanned <= received + 1 - first - Pending(position)
  <2>1. CASE position > block
    BY <1>2, <1>5, <2>1 DEF Clean, LengthsCounted, TypeOK
  <2>2. CASE position = block
    BY <1>2, <1>5, <2>2 DEF Clean, LengthsCounted, TypeOK
  <2> QED BY <2>1, <2>2 DEF Clean, LengthsCounted, TypeOK
<1>8. LengthsCounted'
  BY <1>6, <1>7 DEF LengthsCounted
<1> QED BY <1>1, <1>4, <1>8 DEF Clean

(***************************************************************************)
(* Nothing is a stray byte: an LF follows a CR, a CR is followed by an LF. *)
(***************************************************************************)
LEMMA NothingStray ==
  ASSUME TypeOK, Clean
  PROVE  ~ScanStray
<1> SUFFICES ASSUME ScanStray PROVE FALSE
  OBVIOUS
<1> USE DEF ScanStray, Scanning
<1>1. Scanned = position /\ position \in Positions /\ first <= position /\ first >= 1
  BY StreamLengthAssumption DEF Scanned, Clean, BufferScanned, TypeOK, Positions
<1>2. CASE condition = "INITIAL" /\ stream[position] = "LF"
  <2>1. position > 1 /\ stream[position - 1] = "CR"
    BY <1>1, <1>2, StreamFacts DEF TypeOK
  <2>2. position = first
    BY <1>1, <1>2, <2>1 DEF Clean, BufferScanned, Pending, TypeOK
  <2>3. stream[position] = "char"
    BY <1>1, <2>2, StartIsText DEF Clean, BufferScanned, TypeOK
  <2> QED BY <1>2, <2>3
<1>3. CASE condition = "end_of_frame" /\ stream[position] # "LF"
  <2>1. position > 1 /\ stream[position - 1] = "CR"
    BY <1>1, <1>3 DEF Clean, BufferScanned, Pending, TypeOK
  <2> QED BY <1>1, <1>3, <2>1, StreamFacts DEF TypeOK
<1> QED BY <1>2, <1>3

(***************************************************************************)
(* The end of a message.  The width is right, whether the boundary lies in *)
(* one block or in two, and the length is not too great.                   *)
(***************************************************************************)
LEMMA BoundaryFound ==
  ASSUME TypeOK, Clean, FrameFound
  PROVE  /\ Message(first, position)
         /\ position \in Positions /\ first <= position /\ position <= received
         /\ block + Width = position + 1
         /\ Length <= position - first + 1
<1> USE DEF FrameFound, Scanning
<1>1. Scanned = position /\ position \in Positions /\ first <= position /\ first >= 1
  BY StreamLengthAssumption DEF Scanned, Clean, BufferScanned, TypeOK, Positions
<1>2. Message(first, position)
  BY <1>1 DEF Message, Clean, BufferScanned, MessageStart, TypeOK
<1>3. position > 1 /\ stream[position - 1] = "CR" /\ Pending(position) = 1
  BY <1>1, StreamFacts DEF Clean, BufferScanned, TypeOK
<1>4. CASE position > block
  <2>1. scanned = position - block - 1
    BY <1>3, <1>4 DEF Clean, LengthsCounted
  <2>2. scanned = 0 => stream[block] = "CR"
    BY <1>3, <2>1 DEF TypeOK
  <2>3. Width = scanned + 2
    BY <2>2 DEF Width
  <2>4. Pending(block) \in {0, 1}
    BY DEF Pending
  <2> QED BY <1>1, <1>2, <2>1, <2>3, <2>4 DEF Length, Clean, LengthsCounted, TypeOK
<1>5. CASE position = block
  <2>1. scanned = 0
    BY <1>5 DEF Clean, LengthsCounted, TypeOK
  <2>2. Width = 1 /\ Length = messageLength + 2
    BY <1>5, <2>1 DEF Width, Length, TypeOK
  <2>3. messageLength <= block - first - 1
    BY <1>3, <1>5 DEF Clean, LengthsCounted
  <2> QED BY <1>1, <1>2, <1>5, <2>2, <2>3 DEF TypeOK
<1>6. block <= position
  BY DEF Clean, LengthsCounted
<1> QED BY <1>4, <1>5, <1>6 DEF TypeOK

(* At the end of a message exactly that message is handed on. *)
LEMMA FrameKeeps ==
  ASSUME TypeOK, TypeOK', began = "INITIAL", Clean, FrameFound
  PROVE  Clean'
<1>1. /\ Message(first, position)
      /\ position \in Positions /\ first <= position /\ position <= received
      /\ block + Width = position + 1
      /\ Length <= position - first + 1
  BY BoundaryFound
<1>2. /\ stream' = stream /\ received' = received /\ began' = began
      /\ condition' = "INITIAL" /\ messageLength' = 0 /\ scanned' = 0 /\ more' = 0
      /\ position' = position + 1 /\ step = "scanning" /\ stream[position] = "LF"
  BY DEF FrameFound, Scanning, Advance, sessionVars
<1>3. /\ frames' = frames \cup {<<first, position>>}
      /\ first' = position + 1
      /\ \/ step' = "scanning" /\ block' = position + 1
         \/ step' = "idle" /\ position = received
  <2>1. CASE Length < received - first + 1
    <3>1. CutBlock(Width)
      BY <2>1 DEF FrameFound
    <3>2. Width \in Nat
      BY DEF Width, TypeOK
    <3>3. block + Width - 1 = position
      BY <1>1, <1>2, <3>2 DEF TypeOK, Positions
    <3> QED BY <1>1, <1>2, <3>1, <3>3 DEF CutBlock
  <2>2. CASE ~(Length < received - first + 1)
    <3>1. HandOnBuffer
      BY <2>2 DEF FrameFound
    <3>2. Length \in Nat
      BY DEF Length, TypeOK
    <3>3. position = received
      BY <1>1, <2>2, <3>2 DEF TypeOK, Positions
    <3> QED BY <3>1, <3>3 DEF HandOnBuffer
  <2> QED BY <2>1, <2>2
<1>4. Scanned' = position + 1
  BY <1>2, <1>3 DEF Scanned
<1>6. Pending(Scanned)' = 0 /\ (step' = "scanning" => Pending(block)' = 0)
  BY <1>2, <1>3, <1>4 DEF Pending, TypeOK
<1>7. BufferScanned'
  BY <1>1, <1>2, <1>3, <1>4, <1>6 DEF BufferScanned, MessageStart, TypeOK, Positions
<1>8. LengthsCounted'
  <2>1. CASE step' = "scanning"
    BY <1>2, <1>3, <1>6, <2>1 DEF LengthsCounted, TypeOK
  <2>2. CASE step' = "idle" /\ position = received
    <3>1. Pending(received + 1)' = 0
      BY <1>2, <1>3, <2>2 DEF Pending, TypeOK
    <3> QED BY <1>2, <1>3, <2>2, <3>1 DEF LengthsCounted, TypeOK
  <2> QED BY <1>3, <2>1, <2>2
<1>9. FramesKept'
  <2>1. FramesKept /\ \A i \in first..(position - 1) : stream[i] # "LF"
    BY <1>1 DEF Clean, Message
  <2>2. <<first, position>>[2] = position
    OBVIOUS
  <2>3. SUFFICES ASSUME NEW l \in 1..position, stream[l] = "LF"
                 PROVE  \E f \in frames' : f[2] = l
    BY <1>1, <1>2, <1>3 DEF FramesKept, TypeOK, Positions
  <2>4. CASE l = position
    BY <1>3, <2>2, <2>4
  <2>5. CASE l # position
    <3>1. l \in 1..(first - 1)
      BY <1>1, <2>1, <2>3, <2>5 DEF TypeOK, Positions
    <3> QED BY <1>3, <2>1, <2>3, <3>1 DEF FramesKept
  <2> QED BY <2>4, <2>5
<1>10. FramesAreMessages'
  <2>1. \A f \in frames : Message(f[1], f[2])
    BY DEF Clean, FramesAreMessages
  <2>2. \A f \in frames' : Message(f[1], f[2])
    BY <1>1, <1>3, <2>1
  <2> QED BY <1>2, <2>2 DEF FramesAreMessages, Message, MessageStart
<1> QED BY <1>7, <1>8, <1>9, <1>10 DEF Clean

(***************************************************************************)
(* The invariant.                                                          *)
(***************************************************************************)
LEMMA InitIInv == Init => IInv
<1> SUFFICES ASSUME Init PROVE IInv
  OBVIOUS
<1>1. TypeOK
  BY InitTypeOK
<1>2. Scanned = 1 /\ Pending(1) = 0
  BY DEF Init, Scanned, Pending
<1>3. BufferScanned /\ LengthsCounted /\ FramesKept /\ FramesAreMessages
  BY <1>2 DEF Init, BufferScanned, LengthsCounted, FramesKept, FramesAreMessages, MessageStart
<1>4. NothingKept
  BY DEF Init, NothingKept
<1> QED BY <1>1, <1>3, <1>4 DEF IInv

(* A session that begins with the scanner in INITIAL begins clean. *)
LEMMA InitializeKeeps ==
  ASSUME Initialize, condition = "INITIAL", more = 0
  PROVE  Clean'
<1> USE DEF Initialize
<1>1. Scanned' = 1
  BY DEF Scanned
<1>2. Pending(Scanned)' = 0 /\ Pending(received + 1)' = 0
  BY <1>1 DEF Pending
<1>3. BufferScanned'
  BY <1>1, <1>2 DEF BufferScanned, MessageStart
<1>4. LengthsCounted' /\ FramesKept' /\ FramesAreMessages'
  BY <1>2 DEF LengthsCounted, FramesKept, FramesAreMessages
<1> QED BY <1>3, <1>4 DEF Clean

(* The end of the block, and of a message, forget what yymore() has kept. *)
LEMMA StepNothingKept == NothingKept /\ [Next]_vars => NothingKept'
<1> SUFFICES ASSUME NothingKept, [Next]_vars PROVE NothingKept'
  OBVIOUS
<1> USE DEF NothingKept
<1>1. CASE Initialize
  BY <1>1 DEF Initialize
<1>2. ASSUME NEW n \in 1..(StreamLength - received), HandleDataMessage(n)
      PROVE  NothingKept'
  BY <1>2 DEF HandleDataMessage
<1>3. CASE ScanText
  BY <1>3 DEF ScanText
<1>4. CASE ScanCR
  BY <1>4 DEF ScanCR
<1>5. CASE ScanStray
  BY <1>5 DEF ScanStray, Scanning, sessionVars, bufferVars
<1>6. CASE FrameFound
  BY <1>6 DEF FrameFound
<1>7. CASE ScanEnd
  BY <1>7 DEF ScanEnd
<1>8. CASE UNCHANGED vars
  BY <1>8 DEF vars, scannerVars
<1> QED BY <1>1, <1>2, <1>3, <1>4, <1>5, <1>6, <1>7, <1>8 DEF Next

(* Each step, of each kind, keeps the invariant. *)
LEMMA StepIInv == IInv /\ [Next]_vars => IInv'
<1> SUFFICES ASSUME IInv, [Next]_vars PROVE IInv'
  OBVIOUS
<1>1. TypeOK /\ TypeOK' /\ NothingKept'
  BY StepTypeOK, StepNothingKept DEF IInv
<1>2. SUFFICES ASSUME began' = "INITIAL" PROVE Clean'
  BY <1>1 DEF IInv, Clean
<1>3. CASE Initialize
  BY <1>2, <1>3, InitializeKeeps DEF Initialize, IInv, NothingKept
<1>4. ASSUME ~Initialize PROVE began = "INITIAL" /\ Clean
  <2>1. began' = began
    BY <1>4 DEF Next, vars, sessionVars, HandleDataMessage, ScanText, ScanCR, ScanStray,
                FrameFound, ScanEnd
  <2> QED BY <1>2, <2>1 DEF IInv, Clean
<1>5. CASE ~Initialize /\ \E n \in 1..(StreamLength - received) : HandleDataMessage(n)
  BY <1>1, <1>4, <1>5, ReadKeeps
<1>6. CASE ~Initialize /\ ScanText
  BY <1>1, <1>4, <1>6, TextKeeps
<1>7. CASE ~Initialize /\ ScanCR
  BY <1>1, <1>4, <1>7, CRKeeps
<1>8. CASE ~Initialize /\ ScanStray
  BY <1>1, <1>4, <1>8, NothingStray
<1>9. CASE ~Initialize /\ FrameFound
  BY <1>1, <1>4, <1>9, FrameKeeps
<1>10. CASE ~Initialize /\ ScanEnd
  BY <1>1, <1>4, <1>10, EndKeeps
<1>11. CASE ~Initialize /\ UNCHANGED vars
  <2> USE <1>11 DEF vars, sessionVars, bufferVars, scannerVars
  <2>1. Clean
    BY <1>4, <1>11
  <2>2. Scanned' = Scanned /\ Pending(Scanned)' = Pending(Scanned)
        /\ Pending(block)' = Pending(block) /\ Pending(position)' = Pending(position)
        /\ Pending(received + 1)' = Pending(received + 1)
    BY DEF Scanned, Pending
  <2>3. BufferScanned'
    BY <2>1, <2>2 DEF Clean, BufferScanned, MessageStart
  <2>4. LengthsCounted'
    BY <2>1, <2>2 DEF Clean, LengthsCounted
  <2>5. FramesKept' /\ FramesAreMessages'
    BY <2>1, <1>4, <1>11, FramesStay DEF Clean
  <2> QED BY <2>3, <2>4, <2>5 DEF Clean
<1> QED BY <1>3, <1>5, <1>6, <1>7, <1>8, <1>9, <1>10, <1>11 DEF Next

(* The buffer begins at the begin of a message and is scanned to where the scanner stands, in every session that begins in INITIAL. *)
THEOREM InductiveInvariant == Spec => []IInv
<1> QED BY InitIInv, StepIInv, PTL DEF Spec

(***************************************************************************)
(* Every variable of the bisector has its type.                            *)
(***************************************************************************)
THEOREM TypeCorrect == Spec => []TypeOK
<1>1. IInv => TypeOK
  BY DEF IInv
<1> QED BY <1>1, InductiveInvariant, PTL

(***************************************************************************)
(* handleDataMessage() hands on the messages of the stream and nothing     *)
(* else.                                                                   *)
(***************************************************************************)
THEOREM HandsOnMessages == Spec => []FramesAreMessages
<1>1. IInv => FramesAreMessages
  BY DEF IInv, FramesAreMessages
<1> QED BY <1>1, InductiveInvariant, PTL

(***************************************************************************)
(* It hands each of them on with the read that completes it.               *)
(***************************************************************************)
THEOREM WithholdsNothing == Spec => []NothingWithheld
<1>1. IInv => NothingWithheld
  <2> SUFFICES ASSUME IInv, began = "INITIAL", step = "idle",
                      NEW l \in 1..received, stream[l] = "LF"
               PROVE  \E f \in frames : f[2] = l
    BY DEF NothingWithheld
  <2>1. BufferScanned /\ FramesKept /\ TypeOK /\ Scanned = received + 1
    BY DEF IInv, Scanned
  <2>2. l \in 1..(first - 1)
    BY <2>1 DEF BufferScanned, TypeOK
  <2> QED BY <2>1, <2>2 DEF FramesKept
<1> QED BY <1>1, InductiveInvariant, PTL

=============================================================================

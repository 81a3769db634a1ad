-------------------------------- MODULE Bisector --------------------------------
(***************************************************************************)
(* IRC_Module_Bisector_T: cuts what is read from an IRC connection into    *)
(* messages, each of which ends with CR LF.  A read may end anywhere, also *)
(* between CR and LF.  What has been read of the next message is kept in   *)
(* buffer_, a chain of blocks that is never copied: a message is handed on *)
(* as the blocks it lies in, the first and the last of them cut.  The ends *)
(* are found by a scanner that flex has made of bisector.l; it is given the*)
(* block that was read last, returns the lengths of what it has matched,   *)
(* and -1 for the end of a message.                                        *)
(*                                                                         *)
(* A byte is known by its position in the session's stream, so that a chain*)
(* is the positions it holds.  The stream is what a server sends:          *)
(* messages, none of them empty, without a stray CR or LF.                 *)
(***************************************************************************)
EXTENDS Integers

CONSTANT StreamLength  \* the bytes of a session (a bound)

ASSUME StreamLengthAssumption == StreamLength \in Nat

Positions == 1..StreamLength

WellFormed(s) ==
  \A i \in Positions :
    /\ s[i] = "CR" => i > 1 /\ s[i - 1] = "char"
    /\ s[i] = "LF" <=> i > 1 /\ s[i - 1] = "CR"

Streams == {s \in [Positions -> {"char", "CR", "LF"}] : WellFormed(s)}

VARIABLES
  stream,         \* the bytes of this session
  received,       \* how many of them have been read
  first,          \* buffer_ is the bytes from here to received
  block,          \* rd_ptr() of its last block, message_block_p
  messageLength,  \* messageLength_: of what was scanned in earlier blocks
  scanned,        \* scanned_bytes: in this block
  position,       \* scanner: the byte it looks at next
  condition,      \* scanner: its start condition
  more,           \* scanner: the length of the text kept by yymore()
  step,           \* what handleDataMessage() is doing
  frames,         \* what has been handed on: the first and the last byte of each
  began,          \* the start condition at the begin of the session
  agreed          \* every ACE_ASSERT on the length of a message held

bufferVars == <<first, block, messageLength>>
scannerVars == <<position, condition, more>>
sessionVars == <<stream, received, began>>

vars == <<sessionVars, bufferVars, scanned, scannerVars, step, frames, agreed>>

Conditions == {"INITIAL", "end_of_frame"}

(***************************************************************************)
(* The type of every variable.                                             *)
(***************************************************************************)
TypeOK ==
  /\ stream \in Streams
  /\ received \in 0..StreamLength
  /\ first \in Nat
  /\ block \in Nat
  /\ messageLength \in Nat
  /\ scanned \in Nat
  /\ position \in Nat
  /\ condition \in Conditions
  /\ more \in Nat
  /\ step \in {"idle", "scanning", "astray"}
  /\ frames \subseteq Nat \X Nat
  /\ began \in Conditions
  /\ agreed \in BOOLEAN

Init ==
  /\ stream \in Streams
  /\ received = 0
  /\ first = 1 /\ block = 1 /\ messageLength = 0
  /\ scanned = 0
  /\ position = 1 /\ condition = "INITIAL" /\ more = 0
  /\ step = "idle"
  /\ frames = {}
  /\ began = "INITIAL"
  /\ agreed = TRUE

(***************************************************************************)
(* initialize() for another session: the buffer is released, the scanner's *)
(* start condition stays as it is.                                         *)
(***************************************************************************)
Initialize ==
  /\ step # "scanning"
  /\ stream' \in Streams
  /\ received' = 0
  /\ first' = 1 /\ block' = 1 /\ messageLength' = 0
  /\ position' = 1
  /\ step' = "idle"
  /\ frames' = {}
  /\ began' = condition
  /\ agreed' = TRUE
  /\ UNCHANGED <<scanned, condition, more>>

-----------------------------------------------------------------------------
(***************************************************************************)
(* handleDataMessage()                                                     *)
(***************************************************************************)

(* Faulty: waits until there are more bytes than a boundary has. *)
HandleDataMessageLate(n) ==
  /\ step = "idle"
  /\ received' = received + n
  /\ block' = received + 1
  /\ IF received + n - first + 1 <= 2
     THEN UNCHANGED <<step, scanned, position>>
     ELSE /\ step' = "scanning"
          /\ scanned' = 0
          /\ position' = received + 1
  /\ UNCHANGED <<stream, first, messageLength, condition, more, frames, began, agreed>>

(* A block of n bytes is chained to the buffer.  It is scanned unless there is
   one byte in all. *)
HandleDataMessage(n) ==
  /\ step = "idle"
  /\ received' = received + n
  /\ block' = received + 1
  /\ IF received + n - first + 1 < 2
     THEN UNCHANGED <<step, scanned, position>>
     ELSE /\ step' = "scanning"
          /\ scanned' = 0
          /\ position' = received + 1
  /\ UNCHANGED <<stream, first, messageLength, condition, more, frames, began, agreed>>

Scanning(byte) ==
  /\ step = "scanning"
  /\ position <= received
  /\ stream[position] = byte

Advance(n) == position' = position + n

(* <INITIAL>{MESSAGE} matches all that is not CR or LF. *)
ScanText ==
  /\ Scanning("char")
  /\ condition = "INITIAL"
  /\ \E n \in 1..(received - position + 1) :
       /\ \A i \in position..(position + n - 1) : stream[i] = "char"
       /\ position + n <= received => stream[position + n] # "char"
       /\ scanned' = scanned + more + n
       /\ Advance(n)
  /\ more' = 0
  /\ UNCHANGED <<sessionVars, bufferVars, condition, step, frames, agreed>>

(* <INITIAL>"\x0D" returns nothing. *)
ScanCR ==
  /\ Scanning("CR")
  /\ condition = "INITIAL"
  /\ condition' = "end_of_frame"
  /\ Advance(1)
  /\ more' = 0
  /\ UNCHANGED <<sessionVars, bufferVars, scanned, step, frames, agreed>>

(* {CHAR}: an LF in INITIAL, or no LF in end_of_frame, which only a start
   condition of an earlier session makes possible.  yymore() counts the byte
   again with the text that follows. *)
ScanStray ==
  /\ \/ condition = "INITIAL" /\ Scanning("LF")
     \/ condition = "end_of_frame" /\ (Scanning("char") \/ Scanning("CR"))
  /\ condition' = "INITIAL"
  /\ scanned' = scanned + more + 1
  /\ more' = more + 1
  /\ Advance(1)
  /\ UNCHANGED <<sessionVars, bufferVars, step, frames, agreed>>

(* Faulty: does not see that the CR was in the block before. *)
WidthUnsplit == scanned + 2

(* The message ends so many bytes after block.  A single LF at its begin has
   its CR in the block before. *)
Width == IF scanned = 0 /\ stream[block] = "LF" THEN 1 ELSE scanned + 2

Length == messageLength + (IF scanned = 0 THEN 0 ELSE scanned) + 2

Agree(length) == agreed' = (agreed /\ Length = length)

(* Faulty: moves rd_ptr() back. *)
CutBlockBackwards(width) ==
  /\ frames' = frames \cup {<<first, block + width - 1>>}
  /\ Agree(block + width - first)
  /\ first' = block - width
  /\ block' = block - width
  /\ step' = IF block + width = position + 1 THEN step ELSE "astray"

(* "more data to scan": the block is cut in two.  (Bound: what becomes of a
   session after a cut in the wrong place is not followed.) *)
CutBlock(width) ==
  /\ frames' = frames \cup {<<first, block + width - 1>>}
  /\ Agree(block + width - first)
  /\ first' = block + width
  /\ block' = block + width
  /\ step' = IF block + width = position + 1 THEN step ELSE "astray"

(* "no more data to scan" *)
HandOnBuffer ==
  /\ frames' = frames \cup {<<first, received>>}
  /\ Agree(received - first + 1)
  /\ first' = received + 1
  /\ step' = "idle"
  /\ UNCHANGED block

(* <end_of_frame>"\x0A" returns -1. *)
FrameFound ==
  /\ Scanning("LF")
  /\ condition = "end_of_frame"
  /\ condition' = "INITIAL"
  /\ IF Length < received - first + 1 THEN CutBlock(Width) ELSE HandOnBuffer
  /\ messageLength' = 0
  /\ scanned' = 0
  /\ Advance(1)
  /\ more' = 0
  /\ UNCHANGED sessionVars

(* <<EOF>> returns 0. *)
ScanEnd ==
  /\ step = "scanning"
  /\ position > received
  /\ messageLength' = messageLength + scanned
  /\ more' = 0
  /\ step' = "idle"
  /\ UNCHANGED <<sessionVars, first, block, scanned, position, condition, frames, agreed>>

Next ==
  \/ Initialize
  \/ \E n \in 1..(StreamLength - received) : HandleDataMessage(n)
  \/ ScanText \/ ScanCR \/ ScanStray \/ FrameFound \/ ScanEnd

Spec == Init /\ [][Next]_vars

-----------------------------------------------------------------------------
(* A message begins at p. *)
MessageStart(p) == p = 1 \/ stream[p - 1] = "LF"

(* The bytes from f to l are one. *)
Message(f, l) ==
  /\ MessageStart(f)
  /\ f <= l /\ stream[l] = "LF"
  /\ \A i \in f..(l - 1) : stream[i] # "LF"

(***************************************************************************)
(* What is handed on are the messages of the stream, however the reads     *)
(* divide them, when the session has begun with the scanner in INITIAL.    *)
(***************************************************************************)
FramesAreMessages ==
  began = "INITIAL" => \A f \in frames : Message(f[1], f[2])

(***************************************************************************)
(* When a read has been handled every message that it completed has been   *)
(* handed on: none waits for the next read.                                *)
(***************************************************************************)
NothingWithheld ==
  began = "INITIAL" /\ step = "idle" =>
    \A l \in 1..received : stream[l] = "LF" => \E f \in frames : f[2] = l

(***************************************************************************)
(* What makes them inductive: the buffer begins at the begin of a message, *)
(* and holds no end of one that the scanner has passed.                    *)
(***************************************************************************)
(* A CR right before p that is in the buffer is not counted yet. *)
Pending(p) == IF p > first /\ stream[p - 1] = "CR" THEN 1 ELSE 0

(* How far the buffer has been scanned. *)
Scanned == IF step = "scanning" THEN position ELSE received + 1

BufferScanned ==
  /\ first \in 1..(received + 1)
  /\ MessageStart(first)
  /\ first <= Scanned /\ Scanned <= received + 1
  /\ \A i \in first..(Scanned - 1) : stream[i] # "LF"
  /\ condition = "end_of_frame" <=> Pending(Scanned) = 1
  /\ more = 0
  /\ step # "astray"

(* A lone byte that was not scanned is missing from messageLength_. *)
LengthsCounted ==
  /\ step = "idle" => messageLength <= received + 1 - first - Pending(received + 1)
  /\ step = "scanning" =>
       /\ first <= block /\ block <= position
       /\ messageLength <= block - first - Pending(block)
       /\ scanned = position - block - (IF position > block THEN Pending(position) ELSE 0)

FramesKept ==
  \A l \in 1..(first - 1) : stream[l] = "LF" => \E f \in frames : f[2] = l

(* No text is kept between reads. *)
NothingKept == step # "scanning" => more = 0

IInv ==
  /\ TypeOK
  /\ NothingKept
  /\ began = "INITIAL" =>
       BufferScanned /\ LengthsCounted /\ FramesKept /\ FramesAreMessages

(***************************************************************************)
(* ACE_ASSERT (messageLength_ == message_p->total_length ()): the length   *)
(* that has been added up is that of the blocks.                           *)
(***************************************************************************)
LengthsAgree == began = "INITIAL" => agreed

(***************************************************************************)
(* initialize() "resets" a module that is used again: sessions do not      *)
(* depend on how the one before has ended.                                 *)
(***************************************************************************)
SessionsIndependent == \A f \in frames : Message(f[1], f[2])

=============================================================================

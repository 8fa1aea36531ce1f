--------------------------- MODULE TransferProofs ---------------------------
(***************************************************************************)
(* What holds of the two sides of a connection for every number of calls   *)
(* and every configuration: a header is read as it was written, the read   *)
(* loop leaves the sending side alone and gives up on no frame that got an *)
(* id, and one direction of a connection is a channel of whole messages.   *)
(***************************************************************************)
EXTENDS Transfer, SenderProofs

-----------------------------------------------------------------------------
(* Arithmetic of % with a divisor that is no literal. *)

\* A number below the divisor is its own remainder.
LEMMA SmallMod ==
  ASSUME NEW d \in Nat, NEW x \in Nat, x < d
  PROVE  x % d = x
OBVIOUS

\* Adding the divisor once changes no remainder.
LEMMA ModOfSum ==
  ASSUME NEW d \in Nat, NEW x \in Nat, x < d
  PROVE  (x + d) % d = x
OBVIOUS

\* Flags of one bit each above a nibble can be told apart.
LEMMA FlagBits ==
  ASSUME NEW t \in 0 .. 15, NEW x \in {0, 1}, NEW y \in {0, 1}, NEW z \in {0, 1}
  PROVE  LET b == t + 128 * x + 64 * y + 32 * z
         IN  /\ b % 16 = t
             /\ (b \div 128) % 2 = x
             /\ (b \div 64) % 2 = y
             /\ (b \div 32) % 2 = z
             /\ (b \div 16) % 2 = 0
<1>1. CASE x = 0 /\ y = 0 /\ z = 0  BY <1>1
<1>2. CASE x = 0 /\ y = 0 /\ z = 1  BY <1>2
<1>3. CASE x = 0 /\ y = 1 /\ z = 0  BY <1>3
<1>4. CASE x = 0 /\ y = 1 /\ z = 1  BY <1>4
<1>5. CASE x = 1 /\ y = 0 /\ z = 0  BY <1>5
<1>6. CASE x = 1 /\ y = 0 /\ z = 1  BY <1>6
<1>7. CASE x = 1 /\ y = 1 /\ z = 0  BY <1>7
<1>8. CASE x = 1 /\ y = 1 /\ z = 1  BY <1>8
<1> QED BY <1>1, <1>2, <1>3, <1>4, <1>5, <1>6, <1>7, <1>8

(***************************************************************************)
(* The first byte: type and flags do not overlap, and Rsv3 stays clear.    *)
(***************************************************************************)
LEMMA FirstByteRead ==
  ASSUME NEW m \in OutFrames
  PROVE  LET w == Assemble(m)
         IN  /\ TypeOf(w) = m.type
             /\ Fin(w) <=> m.isComplete \/ IsControlType(m.type)
             /\ Compressed(w) <=> m.doCompress
             /\ IsStream(w) <=> m.streamlize
             /\ ~Rsv3(w)
<1> DEFINE flag(p) == IF p THEN 1 ELSE 0
           x == flag(m.isComplete \/ IsControlType(m.type))
           y == flag(m.doCompress)
           z == flag(m.streamlize)
           b == m.type + 128 * x + 64 * y + 32 * z
<1>1. Assemble(m).b0 = b
  BY DEF Assemble, FirstByte, Weight, OutFrames
<1>2. /\ b % 16 = m.type /\ (b \div 128) % 2 = x /\ (b \div 64) % 2 = y
      /\ (b \div 32) % 2 = z /\ (b \div 16) % 2 = 0
  <2>1. m.type \in 0 .. 15 /\ x \in {0, 1} /\ y \in {0, 1} /\ z \in {0, 1}
    BY DEF OutFrames
  <2> HIDE DEF x, y, z
  <2> QED BY <2>1, FlagBits
<1>3. /\ x = 1 <=> m.isComplete \/ IsControlType(m.type)
      /\ y = 1 <=> m.doCompress
      /\ z = 1 <=> m.streamlize
  OBVIOUS
<1> HIDE DEF b, x, y, z
<1> QED BY <1>1, <1>2, <1>3 DEF TypeOf, Fin, Compressed, IsStream, Rsv3, Bit

(***************************************************************************)
(* The length: every size comes back from the two, four or ten bytes, and  *)
(* a frame with a stream header never looks too short for it.              *)
(***************************************************************************)
LEMMA LengthRead ==
  ASSUME NEW m \in OutFrames
  PROVE  LET w == Assemble(m)
         IN  /\ Size(w) = MsgSize(m)
             /\ Masked(w) <=> m.doMask
             /\ ShortSize(w) = LengthCode(MsgSize(m))
<1>1. MsgSize(m) \in Nat
  BY DEF OutFrames, MsgSize, Weight, streamBytes
<1> DEFINE n == MsgSize(m)
           b == LengthCode(n) + Weight(m.doMask, 128)
<1>2. LengthCode(n) \in 0 .. 127
  BY <1>1 DEF LengthCode
<1>3. b % 128 = LengthCode(n) /\ (((b \div 128) % 2 = 1) <=> m.doMask)
  <2>1. CASE m.doMask
    BY <1>2, <2>1 DEF Weight
  <2>2. CASE ~m.doMask
    BY <1>2, <2>2 DEF Weight
  <2> QED BY <2>1, <2>2
<1>4. Assemble(m).b1 = b /\ Assemble(m).ext = ExtendedLength(n)
  BY DEF Assemble
<1>5. (IF LengthCode(n) \in {126, 127} THEN ExtendedLength(n) ELSE LengthCode(n)) = n
  BY <1>1 DEF ExtendedLength, LengthCode
<1> QED BY <1>3, <1>4, <1>5 DEF Size, Masked, ShortSize, Bit

(***************************************************************************)
(* The stream header: an id below the cancel bit and that bit come back.   *)
(***************************************************************************)
LEMMA StreamHeaderRead ==
  ASSUME NEW id \in 0 .. CancelBit - 1, NEW cancel \in BOOLEAN
  PROVE  LET h == StreamHeader(id, cancel)
         IN  (h >= CancelBit <=> cancel) /\ h % CancelBit = id
<1>1. CancelBit \in Nat \ {0}
  BY CodecAssumption
<1>2. id % (2 * CancelBit) = id
  BY <1>1, SmallMod
<1>3. CASE cancel
  BY <1>1, <1>2, <1>3, ModOfSum DEF StreamHeader
<1>4. CASE ~cancel
  BY <1>1, <1>2, <1>4, SmallMod DEF StreamHeader
<1> QED BY <1>3, <1>4

(***************************************************************************)
(* What assemble writes, parseMeta and the read loop take as what it was,  *)
(* for every frame whose stream id is below the cancel bit, on whatever    *)
(* connection and with whatever payload.                                   *)
(***************************************************************************)
THEOREM FrameRoundTrip ==
  ASSUME NEW m \in OutFrames, m.streamlize => m.streamId < CancelBit
  PROVE  ReadsAs(Assemble(m), m)
<1>1. ASSUME m.streamlize
      PROVE  Cancel(Assemble(m)) = m.cancelStream /\ StreamId(Assemble(m)) = m.streamId
  <2>1. m.streamId \in 0 .. CancelBit - 1 /\ m.cancelStream \in BOOLEAN
    BY <1>1, CodecAssumption DEF OutFrames
  <2>2. Assemble(m).header = StreamHeader(m.streamId, m.cancelStream)
    BY <1>1 DEF Assemble
  <2>3. IsStream(Assemble(m)) = TRUE
    BY <1>1, FirstByteRead DEF IsStream, Bit
  <2> QED BY <2>1, <2>2, <2>3, StreamHeaderRead DEF Cancel, StreamId
<1> QED BY <1>1, FirstByteRead, LengthRead DEF ReadsAs

(***************************************************************************)
(* The peer does not refuse a frame that patchMsg and assemble have built  *)
(* for a connection with its negotiated outcome, if the stream id is one   *)
(* of those patchMsg gives out below the cancel bit, and a control frame   *)
(* keeps to its limit (README.md:619).                                     *)
(***************************************************************************)
THEOREM SendableIsAccepted ==
  ASSUME NEW m \in OutFrames, NEW outcome \in Negotiated, NEW isClient \in BOOLEAN,
         Sendable(m, outcome, isClient),
         m.streamlize => m.streamId \in 1 .. CancelBit - 1
  PROVE  ~Refused(Assemble(m), outcome, isClient)
<1> DEFINE w == Assemble(m)
<1>1. /\ TypeOf(w) = m.type /\ ~Rsv3(w)
      /\ Fin(w) <=> m.isComplete \/ IsControlType(m.type)
      /\ Compressed(w) <=> m.doCompress
      /\ IsStream(w) <=> m.streamlize
  BY FirstByteRead
<1>2. (Masked(w) <=> m.doMask) /\ ShortSize(w) = LengthCode(MsgSize(m))
  BY LengthRead
<1>3. m.streamlize => StreamId(w) # 0
  BY FrameRoundTrip, CodecAssumption DEF ReadsAs
<1>4. IsControlType(m.type) => ShortSize(w) <= 125
  BY <1>2 DEF Sendable, OutFrames, MsgSize, Weight, LengthCode
<1>5. IsStream(w) => ShortSize(w) >= streamBytes
  BY <1>1, <1>2 DEF OutFrames, MsgSize, Weight, LengthCode, streamBytes
<1>6. m.type # 0 /\ ShortSize(w) \in Nat
  BY <1>2 DEF OutFrames, MsgSize, Weight, LengthCode, streamBytes
<1> HIDE DEF w
<1>7. ParseMeta(w, outcome, isClient) = NoError
  BY <1>1, <1>2, <1>4, <1>5, <1>6
  DEF ParseMeta, Sendable, NoError, ProtocolError, MessageTooBig, streamBytes
<1> QED BY <1>1, <1>3, <1>7 DEF Refused, w

(***************************************************************************)
(* The limit is sharp: setup lets a MaxStreams of 1 << 15 through          *)
(* (config.go:96), and a frame with that id, which cancels nothing, reads  *)
(* as a cancel of stream 0, at which the peer ends the connection.         *)
(***************************************************************************)
THEOREM TopIdIsRefused ==
  ASSUME NEW m \in OutFrames, NEW outcome \in Negotiated, NEW isClient \in BOOLEAN,
         m.streamlize, m.streamId = CancelBit
  PROVE  /\ Cancel(Assemble(m)) /\ StreamId(Assemble(m)) = 0
         /\ Refused(Assemble(m), outcome, isClient)
<1>1. CancelBit \in Nat \ {0}
  BY CodecAssumption
<1>2. CancelBit % (2 * CancelBit) = CancelBit
  BY <1>1, SmallMod
<1>3. Assemble(m).header = CancelBit
  BY <1>1, <1>2 DEF Assemble, StreamHeader
<1>4. CancelBit % CancelBit = 0
  BY <1>1, ModOfSum
<1>5. IsStream(Assemble(m))
  BY FirstByteRead
<1> QED BY <1>1, <1>3, <1>4, <1>5 DEF Cancel, StreamId, Refused

-----------------------------------------------------------------------------

(***************************************************************************)
(* Transfer only adds a reader: its steps are steps of Sender or leave     *)
(* Sender's variables as they are, so all that is proved of Sender holds   *)
(* here as well.                                                           *)
(***************************************************************************)
THEOREM TransferImplementsSender == TransferSpec => Spec
<1>1. TransferInit => Init
  BY DEF TransferInit
<1>2. [TransferNext]_allVars => [Next]_vars
  BY DEF TransferNext, Send, allVars
<1> QED BY <1>1, <1>2, PTL DEF TransferSpec, Spec

(***************************************************************************)
(* A step of the whole is a step of the sending side that leaves the       *)
(* reader alone, or the other way round.                                   *)
(***************************************************************************)
LEMMA TransferSteps ==
  ASSUME [TransferNext]_allVars
  PROVE  \/ [Next]_vars /\ UNCHANGED readerVars
         \/ Read /\ UNCHANGED <<vars, finals>>
BY DEF TransferNext, Send, Aside, allVars

(***************************************************************************)
(* A frame is written by CopyFrame, and the history takes note of it if it *)
(* is the last one of its message; the reader sees neither.                *)
(***************************************************************************)
LEMMA FinalsStep ==
  ASSUME TypeOK, [TransferNext]_allVars
  PROVE  \/ wire' = wire /\ finals' = finals
         \/ \E c \in Calls :
              /\ CopyFrame(c)
              /\ finals' = IF tag[c] = "fin" THEN Append(finals, Len(wire) + 1) ELSE finals
              /\ UNCHANGED readerVars
<1>1. CASE UNCHANGED allVars
  BY <1>1 DEF allVars, vars
<1>2. CASE Read /\ UNCHANGED <<vars, finals>>
  BY <1>2 DEF vars
<1>3. CASE Send /\ Aside
  <2>1. wire \in Seq(Frames) /\ Len(wire) \in Nat
    BY DEF TypeOK
  <2>2. CASE wire' = wire
    BY <1>3, <2>1, <2>2 DEF Aside
  <2>3. ASSUME NEW c \in Calls, CopyFrame(c)
        PROVE  finals' = IF tag[c] = "fin" THEN Append(finals, Len(wire) + 1) ELSE finals
    <3>1. Len(wire') = Len(wire) + 1
      BY <2>3, CopyPart
    <3>2. wire'[Len(wire) + 1].tag = "fin" <=> tag[c] = "fin"
      BY <2>3, CopyFacts
    <3> QED BY <1>3, <2>1, <3>1, <3>2 DEF Aside, Last
  <2> QED BY <1>3, <2>2, <2>3, WireGrows DEF Send, Aside
<1> QED BY <1>1, <1>2, <1>3 DEF TransferNext

\* What assemble is given for a frame of the wire.
LEMMA OutFrameType ==
  ASSUME TypeOK, NEW i \in DOMAIN wire
  PROVE  /\ OutFrame(wire[i]) \in OutFrames
         /\ OutFrame(wire[i]).streamlize = Streamlize(wire[i].call)
         /\ OutFrame(wire[i]).streamId = wire[i].sid
<1>1. wire[i].call \in Calls /\ wire[i].sid \in 0 .. MaxStreams /\ MaxStreams \in Nat
  BY FrameFacts, SenderAssumption
<1>2. streamable \in BOOLEAN /\ ChunkSize \in Nat /\ LastSize \in Nat
  BY TransferAssumption DEF TypeOK
<1> QED BY <1>1, <1>2 DEF OutFrame, OutFrames, Streamlize

(***************************************************************************)
(* What assemble writes parseMeta and Start read as what it was, on every  *)
(* connection whose MaxStreams is below the cancel bit, which is one less  *)
(* than what config.go:96 lets through.                                    *)
(***************************************************************************)
THEOREM WireIsReadableTheorem ==
  ASSUME MaxStreams < CancelBit
  PROVE  TransferSpec => []WireIsReadable
<1>1. TypeOK => WireIsReadable
  <2> SUFFICES ASSUME TypeOK, NEW i \in DOMAIN wire
               PROVE  ReadsAs(Assemble(OutFrame(wire[i])), OutFrame(wire[i]))
    BY DEF WireIsReadable
  <2>1. wire[i].sid < CancelBit
    BY FrameFacts, CodecAssumption, SenderAssumption
  <2> QED BY <2>1, OutFrameType, FrameRoundTrip
<1> QED BY <1>1, TransferImplementsSender, SenderTypeOK, PTL

-----------------------------------------------------------------------------
\* A stream header is read as an id below the cancel bit, whatever it was.
LEMMA StreamIdRange ==
  ASSUME NEW m \in OutFrames
  PROVE  StreamId(Assemble(m)) \in 0 .. CancelBit - 1
<1>1. CancelBit \in Nat \ {0}
  BY CodecAssumption
<1>2. ASSUME NEW d \in Nat \ {0}, NEW x \in Nat
      PROVE  x % d \in 0 .. d - 1
  BY <1>2
<1>3. m.streamId \in Nat
  BY DEF OutFrames
<1>4. Assemble(m).header \in Nat
  <2>1. m.streamId % (2 * CancelBit) \in Nat
    BY <1>1, <1>2, <1>3
  <2> QED BY <1>1, <2>1 DEF Assemble, StreamHeader
<1>5. Assemble(m).header % CancelBit \in 0 .. CancelBit - 1
  BY <1>1, <1>2, <1>4
<1> QED BY <1>1, <1>5 DEF StreamId

\* What the reader finds in the wire, if it finds anything.
LEMMA ArrivedFacts ==
  ASSUME TransferTypeOK, MayRead
  PROVE  /\ nread + 1 \in DOMAIN wire
         /\ Arrived \in Frames
         /\ StreamId(Assemble(OutFrame(Arrived))) \in 0 .. CancelBit - 1
<1>1. nread + 1 \in DOMAIN wire /\ wire \in Seq(Frames)
  BY DEF TransferTypeOK, TypeOK, MayRead
<1>2. Arrived \in Frames
  BY <1>1 DEF Arrived
<1>3. OutFrame(Arrived) \in OutFrames
  BY <1>1, OutFrameType DEF Arrived, TransferTypeOK
<1> QED BY <1>1, <1>2, <1>3, StreamIdRange

\* A pending message grows by the frame that arrived.
LEMMA FragmentsType ==
  ASSUME TransferTypeOK, MayRead
  PROVE  Append(Fragments(Assemble(OutFrame(Arrived))), Arrived) \in Seq(Frames)
<1>1. Fragments(Assemble(OutFrame(Arrived))) \in Seq(Frames)
  BY ArrivedFacts DEF Fragments, TransferTypeOK
<1> QED BY <1>1, ArrivedFacts, AppendFacts

(***************************************************************************)
(* Every variable of the two sides keeps its type; the reader never runs   *)
(* ahead of the wire, and it indexes its table within the stream ids.      *)
(***************************************************************************)
THEOREM TransferTypeOKTheorem == TransferSpec => []TransferTypeOK
<1>1. TransferInit => TransferTypeOK
  <2> SUFFICES ASSUME TransferInit PROVE TransferTypeOK
    OBVIOUS
  <2>1. Init /\ wire = << >>
    BY DEF TransferInit, Init
  <2>2. TypeOK
    BY <2>1, SenderAssumption
    DEF Init, TypeOK, Statuses, Kinds, Tags, Labels, StreamIds
  <2> QED BY <2>1, <2>2 DEF TransferInit, TransferTypeOK
<1>2. TransferTypeOK /\ TypeOK' /\ [TransferNext]_allVars => TransferTypeOK'
  <2> SUFFICES ASSUME TransferTypeOK, TypeOK', [TransferNext]_allVars
               PROVE  TransferTypeOK'
    OBVIOUS
  <2>1. CASE [Next]_vars /\ UNCHANGED readerVars
    <3>1. Len(wire') \in Nat /\ Len(wire) \in Nat /\ Len(wire') >= Len(wire)
      <4>1. CASE wire' = wire
        BY <4>1 DEF TypeOK, TransferTypeOK
      <4>2. ASSUME NEW c \in Calls, CopyFrame(c)
            PROVE  Len(wire') = Len(wire) + 1
        BY <4>2, CopyPart DEF TransferTypeOK
      <4>3. Len(wire) \in Nat
        BY DEF TypeOK, TransferTypeOK
      <4>4. wire' = wire \/ Len(wire') = Len(wire) + 1
        BY <2>1, <4>2, WireGrows
      <4> QED BY <4>1, <4>3, <4>4
    <3>2. finals' \in Seq(DOMAIN wire')
      <4>1. wire \in Seq(Frames) /\ finals \in Seq(DOMAIN wire) /\ Len(wire) \in Nat
        BY DEF TransferTypeOK, TypeOK
      <4>2. CASE wire' = wire /\ finals' = finals
        BY <4>1, <4>2
      <4>3. ASSUME NEW c \in Calls, CopyFrame(c),
                   finals' \in {finals, Append(finals, Len(wire) + 1)}
            PROVE  finals' \in Seq(DOMAIN wire')
        <5>1. DOMAIN wire = 1 .. Len(wire) /\ DOMAIN wire' = 1 .. Len(wire) + 1
          BY <4>3, CopyFacts DEF TransferTypeOK
        <5>2. finals \in Seq(1 .. Len(wire) + 1)
          BY <4>1, <5>1
        <5>3. Len(wire) + 1 \in 1 .. Len(wire) + 1
          BY <4>1
        <5>4. Append(finals, Len(wire) + 1) \in Seq(1 .. Len(wire) + 1)
          BY <5>2, <5>3, AppendFacts
        <5> QED BY <4>3, <5>1, <5>2, <5>4
      <4> QED BY <4>2, <4>3, FinalsStep DEF TransferTypeOK
    <3> QED BY <2>1, <3>1, <3>2 DEF TransferTypeOK, readerVars
  <2>2. CASE Read /\ UNCHANGED <<vars, finals>>
    <3> DEFINE raw == Assemble(OutFrame(Arrived))
    <3>1. TypeOK' /\ wire' = wire /\ Len(wire) \in Nat /\ finals' = finals
      <4>1. wire' = wire /\ finals' = finals
        BY <2>2 DEF vars
      <4>2. Len(wire) \in Nat
        BY DEF TypeOK, TransferTypeOK
      <4> QED BY <4>1, <4>2
    <3>2. CASE ReadShort \/ ReadError
      BY <3>1, <3>2 DEF ReadShort, ReadError, TransferTypeOK
    <3>3. CASE MayRead /\ ReadRefused(raw)
      BY <3>1, <3>3 DEF MayRead, ReadRefused, TransferTypeOK
    <3>4. CASE MayRead /\ ReadControl(raw)
      <4>1. <<Arrived>> \in Seq(Frames)
        BY <3>4, ArrivedFacts
      <4>2. delivered' \in Seq(Seq(Frames))
        BY <3>4, <4>1, AppendFacts DEF ReadControl, TransferTypeOK
      <4> QED BY <3>1, <3>4, <4>2 DEF MayRead, ReadControl, TransferTypeOK
    <3>5. CASE MayRead /\ ReadData(raw)
      <4>1. /\ Append(Fragments(raw), Arrived) \in Seq(Frames)
            /\ StreamId(raw) \in 0 .. CancelBit - 1
        BY <3>5, FragmentsType, ArrivedFacts
      <4> HIDE DEF raw
      <4>2. PICK more \in Seq(Frames) :
              /\ delivered' \in {delivered, Append(delivered, more)}
              /\ pending' \in { [pending EXCEPT ![StreamId(raw)] = << >>],
                                [pending EXCEPT ![StreamId(raw)] = more] }
        BY <3>5, <4>1 DEF ReadData
      <4>3. delivered' \in Seq(Seq(Frames))
        <5>1. delivered \in Seq(Seq(Frames))
          BY DEF TransferTypeOK
        <5> QED BY <4>2, <5>1, AppendFacts
      <4>4. pending' \in [0 .. CancelBit - 1 -> Seq(Frames)]
        <5>1. pending \in [0 .. CancelBit - 1 -> Seq(Frames)] /\ << >> \in Seq(Frames)
          BY DEF TransferTypeOK
        <5> QED BY <4>1, <4>2, <5>1
      <4> QED BY <3>1, <3>5, <4>3, <4>4 DEF MayRead, ReadData, TransferTypeOK
    <3> QED BY <2>2, <3>2, <3>3, <3>4, <3>5 DEF Read, RawOf
  <2> QED BY <2>1, <2>2, TransferSteps
<1> QED BY <1>1, <1>2, TransferImplementsSender, SenderTypeOK, PTL DEF TransferSpec

-----------------------------------------------------------------------------
(***************************************************************************)
(* Why a frame is refused.  SpentInv: a data message past patchMsg without *)
(* an id has left streamIdLock locked, and nobody ever unlocks it.         *)
(* EndTagInv: a control message is one frame, which is its last, as its    *)
(* payload is within the limit (OneFrame).                                 *)
(***************************************************************************)
SpentInv ==
  \A c \in Calls :
    Streamlize(c) /\ pc[c] \notin {"idle", "patchMsg"} /\ sid[c] = 0 =>
      streamIdLock # NoCall

EndTagInv ==
  \A c \in Calls : pc[c] = "idle" \/ IsControl(c) => tag[c] = "fin"

ControlFrameInv ==
  \A i \in DOMAIN wire : IsControl(wire[i].call) => wire[i].tag = "fin"

CallInv    == SpentInv /\ EndTagInv
RefusalInv == CallInv /\ ControlFrameInv

\* Every step of the sending side keeps what SpentInv and EndTagInv say of a call.
LEMMA SpentStep ==
  ASSUME TypeOK, PlaceInv, CallInv, [Next /\ OneFrame]_vars
  PROVE  CallInv'
<1> USE SenderAssumption
      DEF TypeOK, PlaceInv, CallInv, SpentInv, EndTagInv, Streamlize, IsControl, StreamIds,
          Labels, Kinds, Tags, Goto, env, ids, locks, local
<1>1. ASSUME NEW c \in Calls, NEW k \in Kinds, Begin(c, k) PROVE CallInv'
  BY <1>1 DEF Begin
<1>2. ASSUME NEW c \in Calls, NEW s \in StreamIds, TakeStreamId(c, s) PROVE CallInv'
  BY <1>2 DEF TakeStreamId
<1>3. ASSUME NEW c \in Calls, NEW s \in StreamIds, StreamIdsSpent(c, s) PROVE CallInv'
  BY <1>3 DEF StreamIdsSpent
<1>4. ASSUME NEW c \in Calls, LockMessage(c) PROVE CallInv'
  BY <1>4 DEF LockMessage
<1>5. ASSUME NEW c \in Calls, NEW t \in Tags, SpawnFrame(c, t) PROVE CallInv'
  <2>1. SpentInv'
    BY <1>5 DEF SpawnFrame
  <2>2. CASE OneFrame
    <3>1. \A d \in Calls : pc'[d] = "idle" => tag'[d] = "fin"
      BY <1>5 DEF SpawnFrame
    <3>2. \A d \in Calls : IsControl(d)' => tag'[d] = "fin"
      BY <2>2 DEF OneFrame
    <3> QED BY <2>1, <3>1, <3>2
  <2>3. CASE UNCHANGED vars
    BY <2>3 DEF vars
  <2> QED BY <2>2, <2>3
<1>6. ASSUME NEW c \in Calls, RefuseFrame(c) PROVE CallInv'
  BY <1>6 DEF RefuseFrame, Return
<1>7. ASSUME NEW c \in Calls, LockFrame(c) PROVE CallInv'
  BY <1>7 DEF LockFrame
<1>8. ASSUME NEW c \in Calls, ReleaseStreamId(c) PROVE CallInv'
  BY <1>8 DEF ReleaseStreamId
<1>9. ASSUME NEW c \in Calls, CopyFrame(c) PROVE CallInv'
  BY <1>9 DEF CopyFrame, Return
<1>10. ASSUME NEW c \in Calls, CopyError(c) PROVE CallInv'
  BY <1>10 DEF CopyError, Return
<1>11. ASSUME NEW c \in Calls, CloseUpdate(c) PROVE CallInv'
  BY <1>11 DEF CloseUpdate
<1>12. ASSUME NEW s \in {"Ready", "Closed", "Timeout"}, UpdateStatus(s) PROVE CallInv'
  BY <1>12 DEF UpdateStatus
<1>13. CASE CloseRaw
  BY <1>13 DEF CloseRaw
<1>14. CASE UNCHANGED vars
  BY <1>14 DEF vars
<1> HIDE DEF TypeOK, PlaceInv, CallInv, SpentInv, EndTagInv, Streamlize, IsControl,
             StreamIds, Labels, Kinds, Tags
<1> QED
  BY <1>1, <1>2, <1>3, <1>4, <1>5, <1>6, <1>7, <1>8, <1>9, <1>10, <1>11,
     <1>12, <1>13, <1>14 DEF Next, Step

\* The kind of a call whose frames are on the wire stays as it is.
LEMMA KindStays ==
  ASSUME TypeOK, [Next]_vars, NEW c \in Calls, pc[c] # "idle"
  PROVE  kind'[c] = kind[c]
BY DEF TypeOK, Next, Step, Begin, TakeStreamId, StreamIdsSpent, LockMessage, SpawnFrame,
       RefuseFrame, LockFrame, ReleaseStreamId, CopyFrame, CopyError, CloseUpdate,
       UpdateStatus, CloseRaw, vars, env, local

\* A frame of a control message that is written is its final one.
LEMMA ControlFrameStep ==
  ASSUME TypeOK, SenderInv, EndTagInv, ControlFrameInv, [Next]_vars
  PROVE  ControlFrameInv'
<1>1. ASSUME NEW i \in DOMAIN wire
      PROVE  kind'[wire[i].call] = kind[wire[i].call]
  BY FrameFacts, KindStays DEF SenderInv, WireInv
<1>2. CASE wire' = wire
  BY <1>1, <1>2 DEF ControlFrameInv, IsControl
<1>3. ASSUME NEW c \in Calls, CopyFrame(c)
      PROVE  ControlFrameInv'
  <2>1. /\ DOMAIN wire = 1 .. Len(wire) /\ DOMAIN wire' = 1 .. Len(wire) + 1
        /\ Len(wire) \in Nat
        /\ \A i \in 1 .. Len(wire) : wire'[i] = wire[i]
        /\ wire'[Len(wire) + 1].call = c
        /\ wire'[Len(wire) + 1].tag = "fin" <=> tag[c] = "fin"
        /\ kind' = kind
    BY <1>3, CopyFacts
  <2>2. ASSUME NEW i \in DOMAIN wire', kind'[wire'[i].call] \in {"control", "close"}
        PROVE  wire'[i].tag = "fin"
    <3>1. CASE i \in 1 .. Len(wire)
      BY <2>1, <2>2, <3>1 DEF ControlFrameInv, IsControl
    <3>2. CASE i = Len(wire) + 1
      BY <2>1, <2>2, <3>2 DEF EndTagInv, IsControl
    <3> QED BY <2>1, <3>1, <3>2
  <2> QED BY <2>2 DEF ControlFrameInv, IsControl
<1> QED BY <1>2, <1>3, WireGrows

\* The reasons for a refusal lie with the sending side, whatever the peer reads.
THEOREM RefusalInvariant == TransferSpec => [](TypeOK /\ SenderInv /\ RefusalInv)
<1>1. TransferInit => RefusalInv
  BY DEF TransferInit, Init, RefusalInv, CallInv, SpentInv, EndTagInv, ControlFrameInv
<1>2. [TransferNext]_allVars => [Next /\ OneFrame]_vars
  BY DEF TransferNext, Send, Aside, allVars
<1>3. TypeOK /\ SenderInv /\ RefusalInv /\ [TransferNext]_allVars => RefusalInv'
  BY <1>2, SpentStep, ControlFrameStep DEF RefusalInv, CallInv, SenderInv
<1> QED
  BY <1>1, <1>3, TransferImplementsSender, SenderInvariant, PTL DEF TransferSpec

\* Nobody unlocks a streamIdLock that patchMsg has left locked.
LEMMA LockIsKept ==
  ASSUME [Next]_vars, streamIdLock # NoCall
  PROVE  streamIdLock' # NoCall
BY DEF Next, Step, Begin, TakeStreamId, StreamIdsSpent, LockMessage, SpawnFrame,
       RefuseFrame, LockFrame, ReleaseStreamId, CopyFrame, CopyError, CloseUpdate,
       UpdateStatus, CloseRaw, vars, locks

\* A frame with an id, within the limits of the peer, is not refused.
LEMMA GoodFrameIsRead ==
  ASSUME TypeOK, ControlFrameInv, MaxStreams < CancelBit,
         Fits(ChunkSize), Fits(LastSize), NEW i \in DOMAIN wire,
         Streamlize(wire[i].call) => wire[i].sid # 0
  PROVE  ~Fatal(Assemble(OutFrame(wire[i])))
<1> DEFINE m == OutFrame(wire[i])
<1>1. /\ m \in OutFrames /\ m.streamlize = Streamlize(wire[i].call)
      /\ m.streamId = wire[i].sid
  BY OutFrameType
<1>2. wire[i].call \in Calls /\ wire[i].sid \in 0 .. MaxStreams
  BY FrameFacts
<1>3. m.streamlize => m.streamId \in 1 .. CancelBit - 1
  BY <1>1, <1>2, SenderAssumption, CodecAssumption
<1>4. ~TooLarge(Assemble(m))
  <2>1. Size(Assemble(m)) = MsgSize(m)
    BY <1>1, LengthRead
  <2>2. m.size \in {ChunkSize, LastSize}
    BY DEF OutFrame
  <2>3. MsgSize(m) \in {m.size, m.size + streamBytes}
    BY TransferAssumption, <2>2 DEF MsgSize, Weight
  <2> QED BY <2>1, <2>2, <2>3, TransferAssumption DEF TooLarge, Fits, streamBytes
<1>5. nego \in Negotiated
  BY DEF nego, Negotiated, TypeOK
<1>6. Sendable(m, nego, TRUE)
  <2>1. m.doCompress = FALSE /\ m.doMask = TRUE /\ nego.compressable = FALSE
        /\ nego.streamable = streamable
    BY DEF OutFrame, nego
  <2>2. IsControlType(m.type) <=> IsControl(wire[i].call)
    BY DEF OutFrame, IsControlType, IsControl
  <2>3. IsControl(wire[i].call) => m.size = LastSize
    BY DEF ControlFrameInv, OutFrame
  <2>4. m.doCompress <=> nego.compressable /\ ~IsControlType(m.type)
    BY <2>1
  <2>5. m.streamlize <=> nego.streamable /\ ~IsControlType(m.type)
    BY <1>1, <2>1, <2>2 DEF Streamlize
  <2>6. m.doMask <=> TRUE
    BY <2>1
  <2>7. IsControlType(m.type) => m.size <= 125
    BY <2>2, <2>3, TransferAssumption
  <2> QED BY <2>4, <2>5, <2>6, <2>7 DEF Sendable
<1>7. ~Refused(Assemble(m), nego, TRUE)
  BY <1>1, <1>3, <1>5, <1>6, SendableIsAccepted
<1> QED BY <1>4, <1>7 DEF Fatal

(***************************************************************************)
(* The peer gives up on this side's frames only after stream ids ran out,  *)
(* for all calls, limits and sizes, if MaxStreams is below the cancel bit. *)
(***************************************************************************)
THEOREM RefusedOnlyWhenSpentTheorem ==
  ASSUME MaxStreams < CancelBit
  PROVE  TransferSpec => []RefusedOnlyWhenSpent
<1> DEFINE Inv == TransferTypeOK /\ TypeOK /\ SenderInv /\ RefusalInv
<1>1. TransferInit => RefusedOnlyWhenSpent
  BY DEF TransferInit, RefusedOnlyWhenSpent
<1>2. Inv /\ RefusedOnlyWhenSpent /\ [TransferNext]_allVars => RefusedOnlyWhenSpent'
  <2> SUFFICES ASSUME Inv, RefusedOnlyWhenSpent, [TransferNext]_allVars,
                      Fits(ChunkSize), Fits(LastSize), reader' = "refused"
               PROVE  streamIdLock' # NoCall
    BY DEF RefusedOnlyWhenSpent, Fits
  <2>1. CASE [Next]_vars /\ UNCHANGED readerVars
    <3>1. streamIdLock # NoCall
      BY <2>1 DEF RefusedOnlyWhenSpent, readerVars
    <3> QED BY <2>1, <3>1, LockIsKept
  <2>2. CASE Read /\ UNCHANGED <<vars, finals>>
    <3>1. CASE reader = "refused"
      BY <2>2, <3>1 DEF RefusedOnlyWhenSpent, vars, locks
    <3>2. CASE reader # "refused"
      <4>1. MayRead /\ Fatal(Assemble(OutFrame(Arrived)))
        BY <2>2, <3>2
        DEF Read, ReadRefused, ReadControl, ReadData, ReadShort, ReadError, RawOf
      <4>2. nread + 1 \in DOMAIN wire
        BY <4>1, ArrivedFacts
      <4>3. Streamlize(Arrived.call) /\ Arrived.sid = 0
        BY <4>1, <4>2, GoodFrameIsRead DEF Arrived, RefusalInv
      <4>4. Arrived.call \in Calls /\ sid[Arrived.call] = 0
            /\ pc[Arrived.call] \notin {"idle", "patchMsg"}
        BY <4>2, <4>3, FrameFacts DEF Arrived, SenderInv, WireInv
      <4>5. streamIdLock # NoCall
        BY <4>3, <4>4 DEF RefusalInv, CallInv, SpentInv
      <4> QED BY <2>2, <4>5 DEF vars, locks
    <3> QED BY <3>1, <3>2
  <2> QED BY <2>1, <2>2, TransferSteps
<1> QED
  BY <1>1, <1>2, TransferImplementsSender, TransferTypeOKTheorem, RefusalInvariant, PTL
  DEF TransferSpec

-----------------------------------------------------------------------------
(***************************************************************************)
(* Plain connections on which no message is cut short (Cuts = FALSE).  A   *)
(* call that has returned after it wrote frames has ended its message, or  *)
(* nothing is written any more; so what follows a message on the wire      *)
(* follows its final frame.                                                *)
(***************************************************************************)
CancelInv == \A c \in Calls : tag[c] = "cancel" => streamable

PlainEnd ==
  ~streamable /\ rawOpen =>
    \A c \in Calls : Finished(c) /\ sent[c] > 0 =>
      Ended(c) \/ (CutShort(c) /\ status # "Ready" /\ \A d \in Calls : pc[d] # "copy")

PlainWhole ==
  ~streamable =>
    \A i, j \in DOMAIN wire :
      i < j /\ wire[i].call # wire[j].call =>
        \E k \in i .. j - 1 : wire[k].call = wire[i].call /\ wire[k].tag = "fin"

UncutInv == CancelInv /\ PlainEnd /\ PlainWhole

\* Writing a frame keeps PlainEnd: a call that has returned before has ended.
LEMMA PlainEndCopy ==
  ASSUME TypeOK, PlainEnd, CancelInv, NEW c \in Calls, CopyFrame(c)
  PROVE  PlainEnd'
<1>1. /\ Len(wire) \in Nat
      /\ DOMAIN wire = 1 .. Len(wire)
      /\ DOMAIN wire' = 1 .. Len(wire) + 1
      /\ \A i \in 1 .. Len(wire) : wire'[i] = wire[i]
      /\ wire'[Len(wire) + 1].call = c
      /\ wire'[Len(wire) + 1].tag = "fin" <=> tag[c] = "fin"
      /\ pc[c] = "copy" /\ rawOpen
      /\ \A d \in Calls : d # c => pc'[d] = pc[d]
      /\ tag[c] = "more" => pc'[c] = "frame"
      /\ UNCHANGED <<streamable, rawOpen, tag>>
  BY CopyFacts
<1>2. \A d \in Calls : d # c => sent'[d] = sent[d]
  BY CopyPart
<1>3. ASSUME ~streamable, NEW d \in Calls, pc'[d] \in {"closeUpdate", "done"}, sent'[d] > 0
      PROVE  \E k \in DOMAIN wire' : wire'[k].call = d /\ wire'[k].tag = "fin"
  <2>1. CASE d = c
    <3>1. tag[c] = "fin"
      BY <1>1, <1>3, <2>1 DEF CancelInv, TypeOK, Tags
    <3> QED BY <1>1, <2>1, <3>1
  <2>2. CASE d # c
    <3>1. Finished(d) /\ sent[d] > 0 /\ rawOpen /\ pc[c] = "copy"
      BY <1>1, <1>2, <1>3, <2>2 DEF Finished
    <3>2. Ended(d)
      BY <1>3, <3>1 DEF PlainEnd
    <3>3. PICK k \in DOMAIN wire : wire[k].call = d /\ wire[k].tag = "fin"
      BY <3>2 DEF Ended
    <3>4. k \in DOMAIN wire' /\ wire'[k] = wire[k]
      BY <1>1, <3>3
    <3> QED BY <3>3, <3>4
  <2> QED BY <2>1, <2>2
<1> QED BY <1>1, <1>3 DEF PlainEnd, Finished, Ended

\* Every other step keeps it, too: a message that is left unfinished is left
\* because of the status, and Ready does not come back.
LEMMA PlainEndStep ==
  ASSUME TypeOK, LockInv, PlaceInv, TagInv, EndTagInv, CancelInv, PlainEnd, Next, NoCut
  PROVE  PlainEnd'
<1>1. ASSUME wire' = wire
      PROVE  \A c \in Calls : Ended(c)' = Ended(c)
  BY <1>1 DEF Ended
<1> USE SenderAssumption
      DEF TypeOK, PlainEnd, CutShort, Finished, Streamlize, IsControl, StreamIds,
          Statuses, Labels, Kinds, Tags, Goto, env, ids, locks, local
<1>2. ASSUME NEW c \in Calls, NEW k \in Kinds, Begin(c, k) PROVE PlainEnd'
  BY <1>1, <1>2 DEF Begin
<1>3. ASSUME NEW c \in Calls, NEW s \in StreamIds, TakeStreamId(c, s) PROVE PlainEnd'
  BY <1>1, <1>3 DEF TakeStreamId
<1>4. ASSUME NEW c \in Calls, NEW s \in StreamIds, StreamIdsSpent(c, s) PROVE PlainEnd'
  BY <1>1, <1>4 DEF StreamIdsSpent, PlaceInv
<1>5. ASSUME NEW c \in Calls, LockMessage(c) PROVE PlainEnd'
  BY <1>1, <1>5 DEF LockMessage
<1>6. ASSUME NEW c \in Calls, NEW t \in Tags, SpawnFrame(c, t) PROVE PlainEnd'
  BY <1>1, <1>6 DEF SpawnFrame
<1>7. ASSUME NEW c \in Calls, RefuseFrame(c) PROVE PlainEnd'
  <2>1. /\ wire' = wire /\ sent' = sent /\ tag' = tag /\ status' = status
        /\ streamable' = streamable /\ rawOpen' = rawOpen
        /\ pc[c] = "frame" /\ status # "Ready"
        /\ \A d \in Calls : d # c => pc'[d] = pc[d]
        /\ pc'[c] = IF kind[c] = "close" THEN "closeUpdate" ELSE "done"
    BY <1>7 DEF RefuseFrame, Return
  <2>2. ~streamable => \A d \in Calls : pc[d] # "copy"
    BY <2>1 DEF LockInv, Critical
  <2>3. \A d \in Calls : pc'[d] = "copy" => pc[d] = "copy"
    BY <2>1
  <2>4. sent[c] > 0 => tag[c] = "more" /\ kind[c] # "close"
    BY <2>1 DEF TagInv, EndTagInv
  <2> QED BY <1>1, <2>1, <2>2, <2>3, <2>4
<1>8. ASSUME NEW c \in Calls, LockFrame(c) PROVE PlainEnd'
  BY <1>1, <1>8 DEF LockFrame, PlaceInv
<1>9. ASSUME NEW c \in Calls, ReleaseStreamId(c) PROVE PlainEnd'
  BY <1>1, <1>9 DEF ReleaseStreamId, PlaceInv
<1>10. ASSUME NEW c \in Calls, CopyFrame(c) PROVE PlainEnd'
  BY <1>10, PlainEndCopy
<1>11. ASSUME NEW c \in Calls, CopyError(c) PROVE PlainEnd'
  BY <1>1, <1>11 DEF CopyError, Return
<1>12. ASSUME NEW c \in Calls, CloseUpdate(c) PROVE PlainEnd'
  BY <1>1, <1>12 DEF CloseUpdate
<1>13. ASSUME NEW s \in {"Ready", "Closed", "Timeout"}, UpdateStatus(s) PROVE PlainEnd'
  BY <1>1, <1>13 DEF UpdateStatus, NoCut
<1>14. CASE CloseRaw
  BY <1>1, <1>14 DEF CloseRaw
<1> HIDE DEF TypeOK, PlainEnd, CutShort, Finished, Streamlize, IsControl, StreamIds,
             Statuses, Labels, Kinds, Tags
<1> QED
  BY <1>2, <1>3, <1>4, <1>5, <1>6, <1>7, <1>8, <1>9, <1>10, <1>11,
     <1>12, <1>13, <1>14 DEF Next, Step

\* What is written behind a message of a plain connection follows its final frame.
LEMMA PlainWholeCopy ==
  ASSUME TypeOK, SenderInv, PlainInv', PartInv, EndTagInv, PlainEnd, PlainWhole,
         NEW c \in Calls, CopyFrame(c)
  PROVE  PlainWhole'
<1> DEFINE n == Len(wire)
<1>1. /\ n \in Nat
      /\ DOMAIN wire = 1 .. n
      /\ DOMAIN wire' = 1 .. n + 1
      /\ \A i \in 1 .. n : wire'[i] = wire[i] /\ wire[i].call \in Calls
      /\ wire'[n + 1].call = c
      /\ pc[c] = "copy" /\ rawOpen
      /\ \A d \in Calls : d # c => pc'[d] = pc[d]
      /\ streamable' = streamable
  BY CopyFacts, FrameFacts
<1> HIDE DEF n
<1>2. ASSUME ~streamable, NEW i \in DOMAIN wire', NEW j \in DOMAIN wire',
             i < j, wire'[i].call # wire'[j].call
      PROVE  \E k \in i .. j - 1 : wire'[k].call = wire'[i].call /\ wire'[k].tag = "fin"
  <2> DEFINE d == wire[i].call
  <2>1. i \in 1 .. n /\ wire'[i] = wire[i] /\ d \in Calls
    BY <1>1, <1>2
  <2>2. CASE j \in 1 .. n
    <3>1. PICK k \in i .. j - 1 : wire[k].call = d /\ wire[k].tag = "fin"
      BY <1>1, <1>2, <2>1, <2>2 DEF PlainWhole
    <3>2. wire'[k] = wire[k]
      BY <1>1, <2>1, <2>2
    <3> QED BY <2>1, <3>1, <3>2
  <2>3. CASE j = n + 1
    <3>1. d # c /\ Finished(d)
      BY <1>1, <1>2, <2>1, <2>3 DEF PlainInv, Finished
    <3>2. sent[d] > 0
      <4>1. sent[d] \in Nat /\ i \in DOMAIN wire
        BY <1>1, <2>1 DEF TypeOK
      <4>2. wire[i].part \in 1 .. sent[d]
        BY <4>1 DEF PartInv
      <4> QED BY <4>1, <4>2
    <3>3. Ended(d)
      BY <1>1, <1>2, <2>1, <3>1, <3>2 DEF PlainEnd
    <3>4. PICK k \in DOMAIN wire : wire[k].call = d /\ wire[k].tag = "fin"
      BY <3>3 DEF Ended
    <3>5. k >= i
      BY <1>1, <2>1, <3>4 DEF SenderInv, FinIsLast
    <3>6. k \in i .. j - 1 /\ wire'[k] = wire[k]
      BY <1>1, <2>1, <2>3, <3>4, <3>5
    <3> QED BY <2>1, <3>4, <3>6
  <2> QED BY <1>1, <1>2, <2>2, <2>3
<1> QED BY <1>1, <1>2 DEF PlainWhole

\* Without cuts a plain connection carries one whole message behind the other.
THEOREM UncutInvariant ==
  ASSUME Cuts = FALSE
  PROVE  TransferSpec => []UncutInv
<1> DEFINE Inv == TypeOK /\ SenderInv /\ RefusalInv /\ MessageInv
<1>1. TransferInit => UncutInv
  BY DEF TransferInit, Init, UncutInv, CancelInv, PlainEnd, PlainWhole, Finished
<1>2. Inv /\ Inv' /\ UncutInv /\ [TransferNext]_allVars => UncutInv'
  <2> SUFFICES ASSUME Inv, Inv', UncutInv, [TransferNext]_allVars PROVE UncutInv'
    OBVIOUS
  <2>1. CASE UNCHANGED vars
    BY <2>1 DEF UncutInv, CancelInv, PlainEnd, PlainWhole, CutShort, Finished, Ended,
                vars, env, local
  <2>2. CASE Send /\ Aside
    <3>1. Next /\ NoCut
      BY <2>2 DEF Send
    <3>2. streamable' = streamable
      BY <3>1, WireGrows
    <3>3. CancelInv'
      BY <3>1, <3>2 DEF NoCut, CancelInv
    <3>4. PlainEnd'
      BY <3>1, PlainEndStep DEF UncutInv, SenderInv, MessageInv, RefusalInv, CallInv
    <3>5. PlainWhole'
      <4>1. CASE wire' = wire
        BY <3>2, <4>1 DEF UncutInv, PlainWhole
      <4>2. ASSUME NEW c \in Calls, CopyFrame(c) PROVE PlainWhole'
        BY <4>2, PlainWholeCopy DEF UncutInv, SenderInv, MessageInv, RefusalInv, CallInv
      <4> QED BY <3>1, <4>1, <4>2, WireGrows
    <3> QED BY <3>3, <3>4, <3>5 DEF UncutInv
  <2> QED BY <2>1, <2>2 DEF TransferNext, allVars
<1> QED
  BY <1>1, <1>2, TransferImplementsSender, RefusalInvariant, MessageInvariant, PTL
  DEF TransferSpec

-----------------------------------------------------------------------------
(***************************************************************************)
(* The final frames on the wire, in the order of their places, and the     *)
(* messages delivered, of which there is one for each of the first of      *)
(* these frames.                                                           *)
(***************************************************************************)
FinalsInv ==
  /\ \A k \in DOMAIN finals : finals[k] \in DOMAIN wire /\ wire[finals[k]].tag = "fin"
  /\ \A k, l \in DOMAIN finals : k < l => finals[k] < finals[l]
  /\ \A i \in DOMAIN wire : wire[i].tag = "fin" => \E k \in DOMAIN finals : finals[k] = i

CountInv ==
  /\ Len(delivered) <= Len(finals)
  /\ reader = "read" =>
       \A k \in DOMAIN finals : k <= Len(delivered) <=> finals[k] <= nread

MatchInv == \A k \in DOMAIN delivered : CallOf(delivered[k]) = wire[finals[k]].call

\* Frame i belongs to a message of stream s, and the final frame of call c is
\* among the first n frames.
OnStream(i, s) == ~IsControl(wire[i].call) /\ wire[i].sid = s
EndedBy(n, c)  == \E k \in 1 .. n : wire[k].call = c /\ wire[k].tag = "fin"

\* Frame i is the last one the reader has seen of the message it collects on
\* stream s: it has cancelled the message, or all frames up to it are collected.
PendingEnd(s, i) ==
  /\ wire[i].call = pending[s][1].call
  /\ OnStream(i, s)
  /\ wire[i].tag # "fin"
  /\ \A j \in i + 1 .. nread : wire[j].call # wire[i].call
  /\ \/ wire[i].tag = "cancel"
     \/ /\ wire[i].part = Len(pending[s])
        /\ \A j \in DOMAIN pending[s] :
             pending[s][j].call = wire[i].call /\ pending[s][j].part = j

(***************************************************************************)
(* The entries of pendingStreams: every message that has begun on a stream *)
(* has ended or is the one entry of that stream, which is there up to the  *)
(* last of its frames that was read.                                       *)
(***************************************************************************)
PendingInv ==
  reader = "read" =>
    \A s \in 0 .. CancelBit - 1 :
      /\ \A i \in 1 .. nread :
           OnStream(i, s) =>
             \/ EndedBy(nread, wire[i].call)
             \/ pending[s] # << >> /\ wire[i].call = pending[s][1].call
      /\ pending[s] # << >> => \E i \in 1 .. nread : PendingEnd(s, i)

ReaderInv == FinalsInv /\ CountInv /\ MatchInv /\ PendingInv

\* All that is known of the two sides when the reader takes a frame.
KnownInv ==
  /\ TransferTypeOK /\ TypeOK
  /\ SenderInv /\ StreamIdExclusive
  /\ RefusalInv /\ MessageInv /\ UncutInv

\* The call of a frame and the frame itself, as the reader sees them.
LEMMA ArrivedRead ==
  ASSUME KnownInv, MaxStreams < CancelBit, MayRead
  PROVE  LET raw == Assemble(OutFrame(Arrived))
         IN  /\ IsControlType(TypeOf(raw)) <=> IsControl(Arrived.call)
             /\ TypeOf(raw) = 8 => IsControl(Arrived.call)
             /\ Fin(raw) <=> Arrived.tag = "fin" \/ IsControl(Arrived.call)
             /\ StreamId(raw) = Arrived.sid
             /\ Cancel(raw) => Arrived.tag = "cancel"
             /\ ~Fatal(raw) /\ Streamlize(Arrived.call) => Arrived.sid # 0
             /\ Arrived.call \in Calls
             /\ Arrived.sid \in 0 .. CancelBit - 1
<1> DEFINE m == OutFrame(Arrived)
           raw == Assemble(m)
<1>1. nread + 1 \in DOMAIN wire /\ Arrived = wire[nread + 1]
  BY ArrivedFacts DEF KnownInv, Arrived
<1>2. /\ m \in OutFrames /\ m.streamlize = Streamlize(Arrived.call)
      /\ m.streamId = Arrived.sid
  BY <1>1, OutFrameType DEF KnownInv
<1>3. Arrived.call \in Calls /\ Arrived.sid \in 0 .. MaxStreams
  BY <1>1, FrameFacts DEF KnownInv
<1>4. Arrived.sid \in 0 .. CancelBit - 1
  BY <1>3, SenderAssumption, CodecAssumption
<1>5. ReadsAs(raw, m)
  BY <1>2, <1>4, CodecAssumption, FrameRoundTrip
<1>6. ~Streamlize(Arrived.call) => Arrived.sid = 0
  BY <1>1, <1>3 DEF KnownInv, SenderInv, WireInv, PlaceInv
<1>7. /\ m.type = 8 => IsControl(Arrived.call)
      /\ IsControlType(m.type) <=> IsControl(Arrived.call)
      /\ m.isComplete <=> Arrived.tag = "fin"
      /\ m.cancelStream <=> Arrived.tag = "cancel"
  <2>1. (m.type = 8 => IsControl(Arrived.call)) /\ (m.type >= 8 <=> IsControl(Arrived.call))
    BY DEF OutFrame, IsControl
  <2>2. m.isComplete = (Arrived.tag = "fin") /\ m.cancelStream = (Arrived.tag = "cancel")
    BY DEF OutFrame
  <2> QED BY <2>1, <2>2 DEF IsControlType
<1> HIDE DEF m, raw
<1>8. /\ TypeOf(raw) = m.type
      /\ Fin(raw) <=> m.isComplete \/ IsControlType(m.type)
      /\ IsStream(raw) <=> m.streamlize
      /\ m.streamlize => Cancel(raw) = m.cancelStream /\ StreamId(raw) = m.streamId
  BY <1>5 DEF ReadsAs
<1>9. StreamId(raw) = Arrived.sid
  BY <1>2, <1>6, <1>8 DEF StreamId
<1>10. Cancel(raw) => Arrived.tag = "cancel"
  BY <1>2, <1>7, <1>8 DEF Cancel
<1>11. ~Fatal(raw) /\ Streamlize(Arrived.call) => Arrived.sid # 0
  BY <1>2, <1>8, <1>9 DEF Fatal, Refused
<1> QED BY <1>3, <1>4, <1>7, <1>8, <1>9, <1>10, <1>11 DEF m, raw

(***************************************************************************)
(* A data frame that finds an entry for its stream belongs to the message  *)
(* of this entry: another message would have begun only behind the final   *)
(* frame of the one that is pending.                                       *)
(***************************************************************************)
LEMMA SameMessage ==
  ASSUME KnownInv, PendingInv, MayRead,
         ~IsControl(Arrived.call), Streamlize(Arrived.call) => Arrived.sid # 0,
         Arrived.sid \in 0 .. CancelBit - 1,
         pending[Arrived.sid] # << >>,
         NEW i \in 1 .. nread, PendingEnd(Arrived.sid, i)
  PROVE  wire[i].call = Arrived.call
<1> SUFFICES ASSUME wire[i].call # Arrived.call PROVE FALSE
  OBVIOUS
<1>1. /\ nread \in Nat /\ nread + 1 \in DOMAIN wire /\ i \in DOMAIN wire
      /\ Arrived = wire[nread + 1]
  BY ArrivedFacts DEF KnownInv, Arrived, TransferTypeOK, TypeOK
<1>2. /\ wire[i].sid = Arrived.sid /\ wire[i].tag # "fin"
      /\ \A j \in i + 1 .. nread : wire[j].call # wire[i].call
  BY DEF PendingEnd, OnStream
<1>3. \E k \in i .. nread : wire[k].call = wire[i].call /\ wire[k].tag = "fin"
  <2>1. CASE streamable
    <3>1. wire[i].sid \in StreamIds
      BY <1>1, <1>2, <2>1, FrameFacts, SenderAssumption
      DEF KnownInv, Streamlize, StreamIds
    <3> QED BY <1>1, <1>2, <3>1 DEF KnownInv, StreamIdExclusive
  <2>2. CASE ~streamable
    BY <1>1, <2>2 DEF KnownInv, UncutInv, PlainWhole
  <2> QED BY <2>1, <2>2
<1>4. PICK k \in i .. nread : wire[k].call = wire[i].call /\ wire[k].tag = "fin"
  BY <1>3
<1> QED BY <1>1, <1>2, <1>4

\* It is the next frame of this message, the first one if nothing is pending.
LEMMA NextOfMessage ==
  ASSUME KnownInv, PendingInv, MayRead,
         ~IsControl(Arrived.call), Streamlize(Arrived.call) => Arrived.sid # 0,
         Arrived.sid \in 0 .. CancelBit - 1
  PROVE  LET F == pending[Arrived.sid]
         IN  /\ Arrived.part = Len(F) + 1
             /\ \A j \in DOMAIN F : F[j].call = Arrived.call /\ F[j].part = j
<1> DEFINE F == pending[Arrived.sid]
           c == Arrived.call
<1>1. /\ nread \in Nat /\ DOMAIN wire = 1 .. Len(wire) /\ Len(wire) \in Nat
      /\ nread + 1 \in DOMAIN wire /\ Arrived = wire[nread + 1]
      /\ F \in Seq(Frames) /\ reader = "read"
  BY ArrivedFacts, FrameFacts DEF KnownInv, Arrived, TransferTypeOK, TypeOK, MayRead
<1>2. c \in Calls /\ sent[c] \in Nat /\ Arrived.part \in 1 .. sent[c]
  <2>1. c \in Calls
    BY <1>1, FrameFacts DEF KnownInv
  <2>2. wire[nread + 1].part \in 1 .. sent[wire[nread + 1].call]
    BY <1>1 DEF KnownInv, MessageInv, PartInv
  <2> QED BY <1>1, <2>1, <2>2 DEF KnownInv, TypeOK
<1>3. ASSUME NEW p \in 1 .. Arrived.part - 1
      PROVE  \E i \in 1 .. nread : wire[i].call = c /\ wire[i].part = p
  <2>1. p \in 1 .. sent[c]
    BY <1>2, <1>3
  <2>2. PICK i \in DOMAIN wire : wire[i].call = c /\ wire[i].part = p
    BY <1>2, <2>1 DEF KnownInv, MessageInv, PartInv
  <2>3. p \in Nat /\ p < wire[nread + 1].part
    BY <1>1, <1>2, <1>3
  <2>4. nread + 1 < i => wire[nread + 1].part < wire[i].part
    BY <1>1, <2>2 DEF KnownInv, MessageInv, PartInv
  <2>5. i # nread + 1
    BY <1>1, <1>2, <2>2, <2>3
  <2>6. ~(nread + 1 < i)
    BY <1>1, <1>2, <2>2, <2>3, <2>4
  <2> QED BY <1>1, <2>2, <2>5, <2>6
<1>4. ASSUME NEW i \in 1 .. nread, wire[i].call = c
      PROVE  /\ wire[i].part < Arrived.part /\ wire[i].tag = "more"
             /\ OnStream(i, Arrived.sid) /\ ~EndedBy(nread, c)
  <2>1. i \in DOMAIN wire /\ i < nread + 1
    BY <1>1
  <2>2. wire[i].part < Arrived.part /\ wire[i].tag = "more"
    BY <1>1, <1>4, <2>1 DEF KnownInv, MessageInv, PartInv, EndInv
  <2>3. OnStream(i, Arrived.sid)
    BY <1>1, <1>4, <2>1 DEF OnStream, KnownInv, SenderInv, WireInv
  <2>4. \A k \in 1 .. nread : wire[k].call = c => wire[k].tag # "fin"
    BY <1>1 DEF KnownInv, SenderInv, FinIsLast
  <2> QED BY <2>2, <2>3, <2>4 DEF EndedBy
<1>5. CASE F = << >>
  <2>1. ASSUME Arrived.part > 1 PROVE FALSE
    <3>1. 1 \in 1 .. Arrived.part - 1
      BY <1>2, <2>1
    <3>2. PICK i \in 1 .. nread : wire[i].call = c
      BY <1>3, <3>1
    <3> QED BY <1>1, <1>4, <1>5, <3>2 DEF PendingInv
  <2> QED BY <1>2, <1>5, <2>1
<1>6. CASE F # << >>
  <2>1. PICK i \in 1 .. nread : PendingEnd(Arrived.sid, i)
    BY <1>1, <1>6 DEF PendingInv
  <2>2. wire[i].call = c
    BY <1>6, <2>1, SameMessage
  <2>3. wire[i].tag = "more" /\ wire[i].part < Arrived.part
    BY <1>4, <2>2
  <2>4. /\ wire[i].part = Len(F)
        /\ \A j \in DOMAIN F : F[j].call = c /\ F[j].part = j
        /\ \A j \in i + 1 .. nread : wire[j].call # c
    BY <2>1, <2>2, <2>3 DEF PendingEnd
  <2>5. ASSUME Arrived.part # Len(F) + 1 PROVE FALSE
    <3>1. Len(F) + 1 \in 1 .. Arrived.part - 1
      BY <1>1, <1>2, <2>3, <2>4, <2>5
    <3>2. PICK k \in 1 .. nread : wire[k].call = c /\ wire[k].part = Len(F) + 1
      BY <1>3, <3>1
    <3>3. k < i
      <4>1. k \notin i + 1 .. nread /\ k # i
        BY <1>1, <2>4, <3>2
      <4> QED BY <1>1, <4>1
    <3>4. wire[k].part < wire[i].part
      <4>1. k \in DOMAIN wire /\ i \in DOMAIN wire
        BY <1>1
      <4> QED BY <2>2, <3>2, <3>3, <4>1 DEF KnownInv, MessageInv, PartInv
    <3> QED BY <1>1, <2>4, <3>2, <3>4
  <2> QED BY <2>4, <2>5
<1> QED BY <1>5, <1>6

-----------------------------------------------------------------------------
\* A step of the sending side leaves what the reader has seen as it was.
LEMMA SeenIsKept ==
  ASSUME KnownInv, [Next]_vars, UNCHANGED readerVars
  PROVE  /\ nread \in Nat /\ nread' = nread
         /\ \A i \in 1 .. nread : wire'[i] = wire[i]
         /\ \A i \in 1 .. nread, s \in 0 .. CancelBit - 1 : OnStream(i, s)' = OnStream(i, s)
         /\ \A c \in Calls : EndedBy(nread, c)' = EndedBy(nread, c)
<1>1. nread \in Nat /\ nread <= Len(wire) /\ Len(wire) \in Nat /\ nread' = nread
  BY DEF KnownInv, TransferTypeOK, TypeOK, readerVars
<1>2. \A i \in 1 .. Len(wire) : wire'[i] = wire[i]
  BY CopyFacts, WireGrows DEF KnownInv
<1>3. DOMAIN wire = 1 .. Len(wire)
  BY DEF KnownInv, TypeOK
<1>4. \A i \in 1 .. nread : wire'[i] = wire[i] /\ i \in DOMAIN wire
  BY <1>1, <1>2, <1>3
<1>5. ASSUME NEW i \in 1 .. nread
      PROVE  kind'[wire[i].call] = kind[wire[i].call]
  <2>1. wire[i].call \in Calls /\ pc[wire[i].call] # "idle"
    BY <1>4, FrameFacts DEF KnownInv, SenderInv, WireInv
  <2> QED BY <2>1, KindStays DEF KnownInv
<1>6. \A i \in 1 .. nread, s \in 0 .. CancelBit - 1 : OnStream(i, s)' = OnStream(i, s)
  BY <1>4, <1>5 DEF OnStream, IsControl
<1>7. \A c \in Calls : EndedBy(nread, c)' = EndedBy(nread, c)
  BY <1>1, <1>4 DEF EndedBy
<1> QED BY <1>1, <1>4, <1>6, <1>7

\* Whatever the sending side does, the entries of pendingStreams stay right.
LEMMA PendingSend ==
  ASSUME KnownInv, PendingInv, [Next]_vars, UNCHANGED readerVars
  PROVE  PendingInv'
<1>1. /\ nread \in Nat /\ nread' = nread /\ pending' = pending /\ reader' = reader
      /\ \A i \in 1 .. nread : wire'[i] = wire[i]
      /\ \A i \in 1 .. nread, s \in 0 .. CancelBit - 1 : OnStream(i, s)' = OnStream(i, s)
      /\ \A c \in Calls : EndedBy(nread, c)' = EndedBy(nread, c)
  BY SeenIsKept DEF readerVars
<1>2. \A i \in 1 .. nread : wire[i].call \in Calls
  BY FrameFacts DEF KnownInv, TransferTypeOK, TypeOK
<1>3. ASSUME reader = "read", NEW s \in 0 .. CancelBit - 1, NEW i \in 1 .. nread,
             PendingEnd(s, i)
      PROVE  PendingEnd(s, i)'
  <2>1. OnStream(i, s)' = OnStream(i, s)
    BY <1>1
  <2>2. \A j \in i + 1 .. nread : wire'[j] = wire[j]
    BY <1>1
  <2> QED BY <1>1, <1>3, <2>1, <2>2 DEF PendingEnd
<1>4. ASSUME reader = "read", NEW s \in 0 .. CancelBit - 1, NEW i \in 1 .. nread,
             OnStream(i, s)'
      PROVE  \/ EndedBy(nread, wire[i].call)'
             \/ pending[s] # << >> /\ wire[i].call = pending[s][1].call
  BY <1>1, <1>2, <1>4 DEF PendingInv
<1> HIDE DEF PendingEnd
<1>5. ASSUME reader' = "read", NEW s \in 0 .. CancelBit - 1
      PROVE  /\ \A i \in 1 .. nread' : OnStream(i, s)' =>
                  \/ EndedBy(nread, wire[i].call)'
                  \/ pending'[s] # << >> /\ wire'[i].call = pending'[s][1].call
             /\ pending'[s] # << >> => \E i \in 1 .. nread' : PendingEnd(s, i)'
  <2>1. pending[s] # << >> => \E i \in 1 .. nread : PendingEnd(s, i)'
    BY <1>1, <1>3, <1>5 DEF PendingInv
  <2> QED BY <1>1, <1>4, <1>5, <2>1
<1> QED BY <1>1, <1>5 DEF PendingInv

\* A control frame is a whole message.
LEMMA ControlIsWhole ==
  ASSUME KnownInv, NEW i \in DOMAIN wire, IsControl(wire[i].call)
  PROVE  wire[i].part = 1 /\ wire[i].tag = "fin"
<1>1. wire[i].call \in Calls /\ sent[wire[i].call] \in Nat /\ DOMAIN wire \subseteq Nat
  BY FrameFacts DEF KnownInv, TypeOK
<1>2. wire[i].part \in 1 .. sent[wire[i].call]
  BY DEF KnownInv, MessageInv, PartInv
<1>3. 1 \in 1 .. sent[wire[i].call]
  BY <1>1, <1>2
<1>4. PICK k \in DOMAIN wire : wire[k].call = wire[i].call /\ wire[k].part = 1
  BY <1>1, <1>3 DEF KnownInv, MessageInv, PartInv
<1>5. ~(k < i)
  BY <1>4 DEF KnownInv, MessageInv, EndInv, RefusalInv, ControlFrameInv
<1>6. ~(i < k)
  <2>1. i < k => wire[i].part < 1
    BY <1>4 DEF KnownInv, MessageInv, PartInv
  <2> QED BY <1>1, <1>2, <2>1
<1>7. k = i
  BY <1>1, <1>5, <1>6
<1> QED BY <1>4, <1>7 DEF KnownInv, RefusalInv, ControlFrameInv

\* The reader gives up, or takes the frame.
GivesUp == reader' # "read" /\ UNCHANGED <<pending, delivered>>

\* The frame has an id, if it needs one.
Takes == MayRead /\ (Streamlize(Arrived.call) => Arrived.sid # 0)

\* It takes the last frame of a message and delivers all of them.
Delivers ==
  /\ Takes
  /\ Arrived.tag = "fin"
  /\ \E m \in Seq(Frames) : CallOf(m) = Arrived.call /\ delivered' = Append(delivered, m)
  /\ IF IsControl(Arrived.call) THEN pending' = pending
     ELSE pending' = [pending EXCEPT ![Arrived.sid] = << >>]

\* It takes another frame of a message; one that cancels it stands alone.
Collects ==
  /\ Takes
  /\ ~IsControl(Arrived.call)
  /\ Arrived.tag # "fin"
  /\ UNCHANGED delivered
  /\ \/ pending' = [pending EXCEPT ![Arrived.sid] = Append(@, Arrived)]
     \/ Arrived.tag = "cancel" /\ pending' = [pending EXCEPT ![Arrived.sid] = <<Arrived>>]

(***************************************************************************)
(* The three things a step of the reader can be.  What is delivered is one *)
(* message of the sending side, whole and in order.                        *)
(***************************************************************************)
LEMMA ReadCases ==
  ASSUME KnownInv, PendingInv, MaxStreams < CancelBit, Read
  PROVE  GivesUp \/ Delivers \/ Collects
<1> DEFINE raw == Assemble(OutFrame(Arrived))
<1>1. CASE ReadShort \/ ReadError
  BY <1>1 DEF ReadShort, ReadError, GivesUp
<1>2. CASE MayRead /\ ReadRefused(raw)
  BY <1>2 DEF ReadRefused, GivesUp
<1>3. ASSUME MayRead
      PROVE  /\ IsControlType(TypeOf(raw)) <=> IsControl(Arrived.call)
             /\ Fin(raw) <=> Arrived.tag = "fin" \/ IsControl(Arrived.call)
             /\ StreamId(raw) = Arrived.sid
             /\ Cancel(raw) => Arrived.tag = "cancel"
             /\ ~Fatal(raw) /\ Streamlize(Arrived.call) => Arrived.sid # 0
             /\ Arrived.sid \in 0 .. CancelBit - 1
             /\ Arrived \in Frames
             /\ nread + 1 \in DOMAIN wire /\ Arrived = wire[nread + 1]
  BY <1>3, ArrivedRead, ArrivedFacts DEF KnownInv, Arrived
<1> HIDE DEF raw
<1>4. CASE MayRead /\ ReadControl(raw)
  <2>1. IsControl(Arrived.call) /\ Arrived.part = 1 /\ Arrived.tag = "fin"
    BY <1>3, <1>4, ControlIsWhole DEF ReadControl
  <2>2. CallOf(<<Arrived>>) = Arrived.call /\ <<Arrived>> \in Seq(Frames)
    BY <1>3, <1>4, <2>1 DEF CallOf, Whole
  <2> QED BY <1>3, <1>4, <2>1, <2>2 DEF ReadControl, Delivers, Takes
<1>5. CASE MayRead /\ ReadData(raw)
  <2> DEFINE F == pending[Arrived.sid]
  <2>1. /\ ~IsControl(Arrived.call)
        /\ Arrived.part = Len(F) + 1
        /\ \A j \in DOMAIN F : F[j].call = Arrived.call /\ F[j].part = j
        /\ F \in Seq(Frames)
    BY <1>3, <1>5, NextOfMessage DEF ReadData, KnownInv, TransferTypeOK
  <2>0. Takes
    BY <1>3, <1>5 DEF ReadData, Takes
  <2>2. CASE Fin(raw)
    <3>1. Arrived.tag = "fin" /\ ~Cancel(raw)
      BY <1>3, <1>5, <2>1, <2>2
    <3>2. /\ delivered' = Append(delivered, Append(F, Arrived))
          /\ pending' = [pending EXCEPT ![Arrived.sid] = << >>]
      BY <1>3, <1>5, <2>2, <3>1 DEF ReadData, Fragments
    <3>3. CallOf(Append(F, Arrived)) = Arrived.call /\ Append(F, Arrived) \in Seq(Frames)
      <4>1. /\ Append(F, Arrived) \in Seq(Frames)
            /\ Len(F) \in Nat /\ DOMAIN F = 1 .. Len(F)
            /\ DOMAIN Append(F, Arrived) = 1 .. Len(F) + 1
            /\ Len(Append(F, Arrived)) = Len(F) + 1
            /\ \A j \in 1 .. Len(F) : Append(F, Arrived)[j] = F[j]
            /\ Append(F, Arrived)[Len(F) + 1] = Arrived
        BY <1>3, <1>5, <2>1, AppendFacts
      <4> DEFINE more == Append(F, Arrived)
      <4> HIDE DEF more
      <4>2. \A j \in DOMAIN more : more[j].call = Arrived.call /\ more[j].part = j
        BY <2>1, <4>1 DEF more
      <4>3. 1 \in DOMAIN more /\ more[Len(more)] = Arrived
        BY <4>1 DEF more
      <4>4. Whole(more) /\ more[1].call = Arrived.call
        BY <3>1, <4>2, <4>3 DEF Whole
      <4> QED BY <4>1, <4>4 DEF CallOf, more
    <3> QED BY <2>1, <2>0, <3>1, <3>2, <3>3 DEF Delivers
  <2>3. CASE ~Fin(raw)
    <3>1. Arrived.tag # "fin"
      BY <1>3, <1>5, <2>3
    <3>2. CASE Cancel(raw)
      <4>1. Append(<< >>, Arrived) = <<Arrived>>
        BY <1>3, <1>5
      <4>2. pending' = [pending EXCEPT ![Arrived.sid] = <<Arrived>>] /\ delivered' = delivered
        BY <1>3, <1>5, <2>3, <3>2, <4>1 DEF ReadData, Fragments
      <4> QED BY <1>3, <1>5, <2>0, <2>1, <3>1, <3>2, <4>2 DEF Collects
    <3>3. CASE ~Cancel(raw)
      <4>1. pending' = [pending EXCEPT ![Arrived.sid] = Append(F, Arrived)]
            /\ delivered' = delivered
        BY <1>3, <1>5, <2>3, <3>3 DEF ReadData, Fragments
      <4> QED BY <2>0, <2>1, <3>1, <4>1 DEF Collects
    <3> QED BY <3>2, <3>3
  <2> QED BY <2>2, <2>3
<1> QED BY <1>1, <1>2, <1>4, <1>5 DEF Read, RawOf, raw

\* What the reader knows of the wire after one more frame.
LEMMA TakeFacts ==
  ASSUME KnownInv, MaxStreams < CancelBit, Takes, UNCHANGED <<vars, finals>>
  PROVE  /\ nread \in Nat /\ nread' = nread + 1
         /\ nread + 1 \in DOMAIN wire /\ wire[nread + 1] = Arrived
         /\ \A i \in 1 .. nread : i \in DOMAIN wire /\ wire[i].call \in Calls
         /\ wire' = wire /\ reader = "read" /\ finals' = finals
         /\ Arrived \in Frames /\ Arrived.call \in Calls
         /\ Arrived.sid \in 0 .. CancelBit - 1
         /\ \A i \in DOMAIN wire, s \in 0 .. CancelBit - 1 : OnStream(i, s)' = OnStream(i, s)
         /\ \A c \in Calls, n \in Nat : EndedBy(n, c)' = EndedBy(n, c)
         /\ \A c \in Calls : EndedBy(nread, c) => EndedBy(nread + 1, c)
         /\ Arrived.tag = "fin" => EndedBy(nread + 1, Arrived.call)
         /\ \A i \in 1 .. nread : wire[i].call = Arrived.call => wire[i].sid = Arrived.sid
<1>1. /\ nread' = nread + 1 /\ reader = "read" /\ wire' = wire /\ finals' = finals
      /\ kind' = kind
  BY DEF Takes, MayRead, vars, local
<1>2. /\ nread \in Nat /\ DOMAIN wire = 1 .. Len(wire) /\ Len(wire) \in Nat
      /\ nread + 1 \in DOMAIN wire /\ wire[nread + 1] = Arrived /\ Arrived \in Frames
  BY ArrivedFacts DEF Takes, Arrived, KnownInv, TransferTypeOK, TypeOK
<1>3. Arrived.call \in Calls /\ Arrived.sid \in 0 .. CancelBit - 1
  BY ArrivedRead DEF Takes
<1>4. ASSUME NEW i \in 1 .. nread
      PROVE  i \in DOMAIN wire /\ wire[i].call \in Calls /\ wire[i].sid = sid[wire[i].call]
  <2>1. i \in DOMAIN wire
    BY <1>2
  <2> QED BY <2>1, FrameFacts DEF KnownInv, SenderInv, WireInv
<1>5. Arrived.sid = sid[Arrived.call]
  BY <1>2 DEF KnownInv, SenderInv, WireInv
<1>6. \A i \in DOMAIN wire, s \in 0 .. CancelBit - 1 : OnStream(i, s)' = OnStream(i, s)
  BY <1>1 DEF OnStream, IsControl
<1>7. \A c \in Calls : EndedBy(nread, c) => EndedBy(nread + 1, c)
  BY <1>2 DEF EndedBy
<1>8. Arrived.tag = "fin" => EndedBy(nread + 1, Arrived.call)
  BY <1>2 DEF EndedBy
<1>9. \A c \in Calls, n \in Nat : EndedBy(n, c)' = EndedBy(n, c)
  BY <1>1 DEF EndedBy
<1> QED BY <1>1, <1>2, <1>3, <1>4, <1>5, <1>6, <1>7, <1>8, <1>9

\* A message that goes on to be pending, on a stream where no frame came, is as
\* complete as it was.
LEMMA PendingElsewhere ==
  ASSUME KnownInv, MaxStreams < CancelBit, Takes, UNCHANGED <<vars, finals>>,
         NEW s \in 0 .. CancelBit - 1, IsControl(Arrived.call) \/ s # Arrived.sid,
         pending'[s] = pending[s], NEW i \in 1 .. nread, PendingEnd(s, i)
  PROVE  PendingEnd(s, i)'
<1>1. /\ nread \in Nat /\ nread' = nread + 1 /\ wire' = wire
      /\ wire[nread + 1] = Arrived /\ i \in DOMAIN wire
      /\ OnStream(i, s)' = OnStream(i, s)
      /\ wire[i].call = Arrived.call => wire[i].sid = Arrived.sid
  BY TakeFacts
<1>2. wire[i].call # Arrived.call
  BY <1>1 DEF PendingEnd, OnStream
<1>3. \A j \in i + 1 .. nread' : wire'[j].call # wire[i].call
  <2>1. \A j \in i + 1 .. nread : wire[j].call # wire[i].call
    BY DEF PendingEnd
  <2>2. \A j \in i + 1 .. nread' : j \in i + 1 .. nread \/ j = nread + 1
    BY <1>1
  <2> QED BY <1>1, <1>2, <2>1, <2>2
<1> QED BY <1>1, <1>3 DEF PendingEnd

\* A frame more on a stream, or on none.
LEMMA PendingTake ==
  ASSUME KnownInv, PendingInv, MaxStreams < CancelBit, Delivers \/ Collects,
         UNCHANGED <<vars, finals>>
  PROVE  PendingInv'
<1>1. Takes
  BY DEF Delivers, Collects
<1>2. PICK n \in Nat, a \in Frames, s0 \in 0 .. CancelBit - 1, c0 \in Calls :
        n = nread /\ a = Arrived /\ s0 = a.sid /\ c0 = a.call
  BY <1>1, TakeFacts
<1>3. /\ nread' = n + 1 /\ n + 1 \in DOMAIN wire /\ wire[n + 1] = a
      /\ \A i \in 1 .. n : i \in DOMAIN wire /\ wire[i].call \in Calls
      /\ wire' = wire /\ reader = "read"
      /\ \A i \in DOMAIN wire, s \in 0 .. CancelBit - 1 : OnStream(i, s)' = OnStream(i, s)
      /\ \A c \in Calls, m \in Nat : EndedBy(m, c)' = EndedBy(m, c)
      /\ \A c \in Calls : EndedBy(n, c) => EndedBy(n + 1, c)
      /\ a.tag = "fin" => EndedBy(n + 1, c0)
  BY <1>1, <1>2, TakeFacts
<1>4. pending \in [0 .. CancelBit - 1 -> Seq(Frames)]
  BY DEF KnownInv, TransferTypeOK
<1>5. ASSUME NEW s \in 0 .. CancelBit - 1, NEW i \in 1 .. n, OnStream(i, s)
      PROVE  \/ EndedBy(n + 1, wire[i].call)
             \/ pending[s] # << >> /\ wire[i].call = pending[s][1].call
  BY <1>2, <1>3, <1>5 DEF PendingInv
<1>6. ASSUME NEW s \in 0 .. CancelBit - 1, pending[s] # << >>
      PROVE  \E i \in 1 .. n : PendingEnd(s, i)
  BY <1>2, <1>3, <1>6 DEF PendingInv
<1>7. ASSUME ~IsControl(c0)
      PROVE  /\ a.part = Len(pending[s0]) + 1
             /\ \A j \in DOMAIN pending[s0] : pending[s0][j].call = c0 /\ pending[s0][j].part = j
             /\ pending[s0] # << >> => pending[s0][1].call = c0
  <2>1. /\ a.part = Len(pending[s0]) + 1
        /\ \A j \in DOMAIN pending[s0] : pending[s0][j].call = c0 /\ pending[s0][j].part = j
    BY <1>1, <1>2, <1>7, NextOfMessage DEF Takes
  <2>2. pending[s0] # << >> => 1 \in DOMAIN pending[s0]
    BY <1>2, <1>4
  <2> QED BY <2>1, <2>2
<1> DEFINE Right(s) ==
      /\ \A i \in 1 .. n + 1 : OnStream(i, s) =>
           \/ EndedBy(n + 1, wire[i].call)
           \/ pending'[s] # << >> /\ wire[i].call = pending'[s][1].call
      /\ pending'[s] # << >> => \E i \in 1 .. n + 1 : PendingEnd(s, i)'
<1>8. ASSUME NEW s \in 0 .. CancelBit - 1, IsControl(c0) \/ s # s0, pending'[s] = pending[s]
      PROVE  Right(s)
  <2>1. ~OnStream(n + 1, s)
    BY <1>2, <1>3, <1>8 DEF OnStream
  <2>2. ASSUME pending[s] # << >>
        PROVE  \E i \in 1 .. n + 1 : PendingEnd(s, i)'
    <3>1. PICK i \in 1 .. n : PendingEnd(s, i)
      BY <1>6, <2>2
    <3>2. PendingEnd(s, i)'
      BY <1>1, <1>2, <1>8, <3>1, PendingElsewhere
    <3> QED BY <1>2, <3>2
  <2>3. \A i \in 1 .. n + 1 : i \in 1 .. n \/ i = n + 1
    OBVIOUS
  <2> QED BY <1>5, <1>8, <2>1, <2>2, <2>3
<1>9. ASSUME \A s \in 0 .. CancelBit - 1 : Right(s) PROVE PendingInv'
  <2>1. n + 1 \in Nat /\ \A i \in 1 .. n + 1 : i \in DOMAIN wire /\ wire[i].call \in Calls
    BY <1>2, <1>3
  <2> HIDE DEF PendingEnd
  <2> QED BY <1>3, <1>9, <2>1 DEF PendingInv
<1>10. CASE Delivers /\ IsControl(c0)
  <2>1. pending' = pending
    BY <1>2, <1>10 DEF Delivers
  <2> QED BY <1>8, <1>9, <1>10, <2>1
<1>11. CASE Delivers /\ ~IsControl(c0)
  <2>1. pending' = [pending EXCEPT ![s0] = << >>] /\ a.tag = "fin"
    BY <1>2, <1>11 DEF Delivers
  <2>2. pending'[s0] = << >> /\ \A s \in 0 .. CancelBit - 1 : s # s0 => pending'[s] = pending[s]
    BY <1>2, <1>4, <2>1
  <2>3. ASSUME NEW i \in 1 .. n + 1, OnStream(i, s0)
        PROVE  EndedBy(n + 1, wire[i].call)
    <3>1. CASE i = n + 1
      BY <1>2, <1>3, <2>1, <3>1
    <3>2. CASE i \in 1 .. n
      BY <1>2, <1>3, <1>5, <1>7, <1>11, <2>1, <2>3, <3>2
    <3> QED BY <1>2, <3>1, <3>2
  <2>4. Right(s0)
    BY <2>2, <2>3
  <2> QED BY <1>8, <1>9, <2>2, <2>4
<1>12. CASE Collects
  <2>1. ~IsControl(c0) /\ a.tag # "fin"
    BY <1>2, <1>12 DEF Collects
  <2>2. PICK more \in Seq(Frames) :
          /\ pending'[s0] = more
          /\ \A s \in 0 .. CancelBit - 1 : s # s0 => pending'[s] = pending[s]
          /\ more = Append(pending[s0], a) \/ (a.tag = "cancel" /\ more = <<a>>)
    <3>1. Append(pending[s0], a) \in Seq(Frames) /\ <<a>> \in Seq(Frames)
      BY <1>2, <1>4, AppendFacts
    <3> QED BY <1>2, <1>4, <1>12, <3>1 DEF Collects
  <2>3. /\ more # << >> /\ more[1].call = c0
        /\ \/ a.tag = "cancel"
           \/ /\ a.part = Len(more)
              /\ \A j \in DOMAIN more : more[j].call = c0 /\ more[j].part = j
    <3>1. CASE a.tag = "cancel" /\ more = <<a>>
      BY <1>2, <3>1
    <3>2. CASE more = Append(pending[s0], a)
      <4>1. PICK F \in Seq(Frames) : F = pending[s0]
        BY <1>2, <1>4
      <4>2. /\ Len(F) \in Nat /\ DOMAIN F = 1 .. Len(F)
            /\ DOMAIN more = 1 .. Len(F) + 1 /\ Len(more) = Len(F) + 1 /\ more # << >>
            /\ \A j \in 1 .. Len(F) : more[j] = F[j]
            /\ more[Len(F) + 1] = a
        BY <1>2, <3>2, <4>1, AppendFacts
      <4>3. /\ a.part = Len(F) + 1
            /\ \A j \in DOMAIN F : F[j].call = c0 /\ F[j].part = j
        BY <1>7, <2>1, <4>1
      <4>4. \A j \in DOMAIN more : more[j].call = c0 /\ more[j].part = j
        BY <1>2, <4>2, <4>3
      <4>5. 1 \in DOMAIN more
        BY <4>2
      <4> QED BY <4>2, <4>3, <4>4, <4>5
    <3> QED BY <2>2, <3>1, <3>2
  <2>4. PendingEnd(s0, n + 1)'
    <3>1. OnStream(n + 1, s0)'
      BY <1>2, <1>3, <2>1 DEF OnStream
    <3>2. \A j \in (n + 1) + 1 .. n + 1 : FALSE
      BY <1>2
    <3> QED BY <1>2, <1>3, <2>1, <2>2, <2>3, <3>1, <3>2 DEF PendingEnd
  <2>5. ASSUME NEW i \in 1 .. n + 1, OnStream(i, s0)
        PROVE  EndedBy(n + 1, wire[i].call) \/ wire[i].call = c0
    <3>1. CASE i = n + 1
      BY <1>2, <1>3, <3>1
    <3>2. CASE i \in 1 .. n
      BY <1>2, <1>5, <1>7, <2>1, <2>5, <3>2
    <3> QED BY <1>2, <3>1, <3>2
  <2>6. Right(s0)
    <3>1. n + 1 \in 1 .. n + 1
      BY <1>2
    <3> QED BY <2>2, <2>3, <2>4, <2>5, <3>1
  <2> QED BY <1>8, <1>9, <2>2, <2>6
<1> QED BY <1>10, <1>11, <1>12

-----------------------------------------------------------------------------
\* What the types say of the two histories.
LEMMA HistoryFacts ==
  ASSUME KnownInv
  PROVE  /\ Len(wire) \in Nat /\ DOMAIN wire = 1 .. Len(wire)
         /\ Len(finals) \in Nat /\ DOMAIN finals = 1 .. Len(finals)
         /\ finals \in Seq(Nat) /\ \A k \in DOMAIN finals : finals[k] \in 1 .. Len(wire)
         /\ Len(delivered) \in Nat /\ DOMAIN delivered = 1 .. Len(delivered)
         /\ nread \in Nat /\ nread <= Len(wire)
<1>1. wire \in Seq(Frames) /\ finals \in Seq(DOMAIN wire) /\ delivered \in Seq(Seq(Frames))
      /\ nread \in 0 .. Len(wire)
  BY DEF KnownInv, TransferTypeOK, TypeOK
<1>2. Len(wire) \in Nat /\ DOMAIN wire = 1 .. Len(wire)
  BY <1>1
<1>3. finals \in Seq(1 .. Len(wire))
  BY <1>1, <1>2
<1> QED BY <1>1, <1>2, <1>3

\* The history of the final frames is exact whatever is written.
LEMMA FinalsKept ==
  ASSUME KnownInv, FinalsInv, [TransferNext]_allVars
  PROVE  FinalsInv'
<1> DEFINE n == Len(wire)
           m == Len(finals)
<1>1. /\ n \in Nat /\ DOMAIN wire = 1 .. n
      /\ m \in Nat /\ DOMAIN finals = 1 .. m /\ finals \in Seq(Nat)
      /\ \A k \in 1 .. m : finals[k] \in 1 .. n /\ wire[finals[k]].tag = "fin"
  BY HistoryFacts DEF FinalsInv
<1>2. CASE wire' = wire /\ finals' = finals
  BY <1>2 DEF FinalsInv
<1>3. ASSUME NEW c \in Calls, CopyFrame(c),
             finals' = IF tag[c] = "fin" THEN Append(finals, n + 1) ELSE finals
      PROVE  FinalsInv'
  <2>1. /\ DOMAIN wire' = 1 .. n + 1
        /\ \A i \in 1 .. n : wire'[i] = wire[i]
        /\ wire'[n + 1].tag = "fin" <=> tag[c] = "fin"
    BY <1>3, CopyFacts DEF KnownInv
  <2>2. CASE tag[c] # "fin"
    <3>1. finals' = finals
      BY <1>3, <2>2
    <3>2. \A i \in DOMAIN wire' : wire'[i].tag = "fin" => i \in 1 .. n
      BY <1>1, <2>1, <2>2
    <3> QED BY <1>1, <2>1, <3>1, <3>2 DEF FinalsInv
  <2>3. CASE tag[c] = "fin"
    <3>1. /\ DOMAIN finals' = 1 .. m + 1
          /\ \A k \in 1 .. m : finals'[k] = finals[k]
          /\ finals'[m + 1] = n + 1
      BY <1>1, <1>3, <2>3, AppendFacts
    <3> HIDE DEF n, m
    <3>2. \A k \in DOMAIN finals' : finals'[k] \in DOMAIN wire' /\ wire'[finals'[k]].tag = "fin"
      <4>1. \A k \in DOMAIN finals' : k \in 1 .. m \/ k = m + 1
        BY <1>1, <3>1
      <4> QED BY <1>1, <2>1, <2>3, <3>1, <4>1
    <3>3. ASSUME NEW k \in DOMAIN finals', NEW l \in DOMAIN finals', k < l
          PROVE  finals'[k] < finals'[l]
      <4>1. k \in 1 .. m
        BY <1>1, <3>1, <3>3
      <4>2. CASE l \in 1 .. m
        BY <1>1, <3>1, <3>3, <4>1, <4>2 DEF FinalsInv
      <4>3. CASE l = m + 1
        BY <1>1, <3>1, <4>1, <4>3
      <4>4. l \in 1 .. m \/ l = m + 1
        BY <1>1, <3>1, <3>3
      <4> QED BY <4>2, <4>3, <4>4
    <3>4. ASSUME NEW i \in DOMAIN wire', wire'[i].tag = "fin"
          PROVE  \E k \in DOMAIN finals' : finals'[k] = i
      <4>1. CASE i = n + 1
        BY <1>1, <3>1, <4>1
      <4>2. CASE i \in 1 .. n
        <5>1. PICK k \in DOMAIN finals : finals[k] = i
          BY <1>1, <2>1, <3>4, <4>2 DEF FinalsInv
        <5> QED BY <1>1, <3>1, <5>1
      <4> QED BY <1>1, <2>1, <4>1, <4>2
    <3> QED BY <3>2, <3>3, <3>4 DEF FinalsInv
  <2> QED BY <2>2, <2>3
<1> QED BY <1>2, <1>3, FinalsStep DEF KnownInv

\* The final frame that the reader takes is the next one on the wire.
LEMMA NextFinal ==
  ASSUME KnownInv, FinalsInv, CountInv, Delivers
  PROVE  /\ Len(delivered) + 1 \in DOMAIN finals
         /\ finals[Len(delivered) + 1] = nread + 1
<1> DEFINE l == Len(delivered) + 1
<1>1. /\ nread + 1 \in DOMAIN wire /\ wire[nread + 1].tag = "fin" /\ reader = "read"
  BY ArrivedFacts DEF Delivers, Takes, MayRead, KnownInv, Arrived
<1>2. PICK k \in DOMAIN finals : finals[k] = nread + 1
  BY <1>1 DEF FinalsInv
<1>3. /\ nread \in Nat /\ Len(delivered) \in Nat /\ DOMAIN finals = 1 .. Len(finals)
      /\ Len(finals) \in Nat /\ \A j \in DOMAIN finals : finals[j] \in Nat
  BY HistoryFacts
<1>4. k > Len(delivered)
  BY <1>1, <1>2, <1>3 DEF CountInv
<1>5. l \in DOMAIN finals /\ l <= k
  BY <1>2, <1>3, <1>4
<1>6. finals[l] > nread
  BY <1>1, <1>3, <1>5 DEF CountInv
<1>7. ~(l < k)
  <2>1. l < k => finals[l] < nread + 1
    BY <1>2, <1>5 DEF FinalsInv
  <2> QED BY <1>3, <1>5, <1>6, <2>1
<1>8. l = k
  BY <1>3, <1>5, <1>7
<1> QED BY <1>2, <1>8

\* The reader's steps: one final frame more is one message more.
LEMMA CountRead ==
  ASSUME KnownInv, FinalsInv, CountInv, MatchInv, GivesUp \/ Delivers \/ Collects,
         UNCHANGED <<vars, finals>>
  PROVE  CountInv' /\ MatchInv'
<1> DEFINE d == Len(delivered)
           m == Len(finals)
<1>1. /\ m \in Nat /\ DOMAIN finals = 1 .. m /\ \A k \in DOMAIN finals : finals[k] \in Nat
      /\ d \in Nat /\ DOMAIN delivered = 1 .. d /\ nread \in Nat
      /\ finals' = finals /\ wire' = wire
      /\ delivered \in Seq(Seq(Frames)) /\ d <= m
  BY HistoryFacts DEF KnownInv, TransferTypeOK, CountInv, vars
<1>2. CASE GivesUp
  BY <1>1, <1>2 DEF GivesUp, CountInv, MatchInv
<1>3. CASE Collects
  <2>1. /\ nread' = nread + 1 /\ delivered' = delivered /\ reader = "read"
        /\ nread + 1 \in DOMAIN wire /\ wire[nread + 1].tag # "fin"
    BY <1>3, ArrivedFacts DEF Collects, Takes, MayRead, KnownInv, Arrived
  <2>2. ASSUME NEW k \in DOMAIN finals
        PROVE  k <= d <=> finals[k] <= nread + 1
    <3>1. k <= d <=> finals[k] <= nread
      BY <2>1 DEF CountInv
    <3>2. finals[k] # nread + 1
      BY <2>1 DEF FinalsInv
    <3> QED BY <1>1, <3>1, <3>2
  <2>3. CountInv'
    BY <1>1, <2>1, <2>2 DEF CountInv
  <2>4. MatchInv'
    BY <1>1, <2>1 DEF MatchInv
  <2> QED BY <2>3, <2>4
<1>4. CASE Delivers
  <2>1. nread' = nread + 1 /\ reader = "read"
    BY <1>4 DEF Delivers, Takes, MayRead
  <2>2. d + 1 \in DOMAIN finals /\ finals[d + 1] = nread + 1
    BY <1>4, NextFinal
  <2>3. PICK msg \in Seq(Frames) : CallOf(msg) = Arrived.call /\ delivered' = Append(delivered, msg)
    BY <1>4 DEF Delivers
  <2>4. /\ DOMAIN delivered' = 1 .. d + 1 /\ Len(delivered') = d + 1
        /\ \A k \in 1 .. d : delivered'[k] = delivered[k]
        /\ delivered'[d + 1] = msg
    BY <1>1, <2>3, AppendFacts
  <2>5. ASSUME NEW k \in DOMAIN finals
        PROVE  k <= d + 1 <=> finals[k] <= nread + 1
    <3>1. (k < d + 1 => finals[k] < nread + 1) /\ (d + 1 < k => nread + 1 < finals[k])
      BY <2>2 DEF FinalsInv
    <3>2. k = d + 1 => finals[k] = nread + 1
      BY <2>2
    <3> QED BY <1>1, <3>1, <3>2
  <2>6. CountInv'
    <3>1. d + 1 <= m
      BY <1>1, <2>2
    <3> QED BY <1>1, <2>1, <2>4, <2>5, <3>1 DEF CountInv
  <2>7. ASSUME NEW k \in DOMAIN delivered'
        PROVE  CallOf(delivered'[k]) = wire[finals[k]].call
    <3>1. CASE k \in 1 .. d
      BY <1>1, <2>4, <3>1 DEF MatchInv
    <3>2. CASE k = d + 1
      BY <2>2, <2>3, <2>4, <3>2 DEF Arrived
    <3> QED BY <1>1, <2>4, <3>1, <3>2
  <2>8. MatchInv'
    BY <1>1, <2>7 DEF MatchInv
  <2> QED BY <2>6, <2>8
<1> QED BY <1>2, <1>3, <1>4

\* The steps of the sending side: the new frame is behind all that was read.
LEMMA CountSend ==
  ASSUME KnownInv, FinalsInv, CountInv, MatchInv, [TransferNext]_allVars,
         UNCHANGED readerVars
  PROVE  CountInv' /\ MatchInv'
<1> DEFINE d == Len(delivered)
           m == Len(finals)
           n == Len(wire)
<1>1. /\ n \in Nat /\ DOMAIN wire = 1 .. n
      /\ m \in Nat /\ DOMAIN finals = 1 .. m /\ finals \in Seq(Nat)
      /\ \A k \in 1 .. m : finals[k] \in 1 .. n
      /\ d \in Nat /\ DOMAIN delivered = 1 .. d /\ nread \in Nat /\ nread <= n
      /\ delivered' = delivered /\ nread' = nread /\ reader' = reader
      /\ d <= m
  BY HistoryFacts DEF CountInv, readerVars
<1>2. CASE wire' = wire /\ finals' = finals
  BY <1>1, <1>2 DEF CountInv, MatchInv
<1>3. ASSUME NEW c \in Calls, CopyFrame(c),
             finals' = IF tag[c] = "fin" THEN Append(finals, n + 1) ELSE finals
      PROVE  CountInv' /\ MatchInv'
  <2>1. \A i \in 1 .. n : wire'[i] = wire[i]
    BY <1>3, CopyFacts DEF KnownInv
  <2>2. /\ Len(finals') \in {m, m + 1}
        /\ DOMAIN finals' = 1 .. Len(finals')
        /\ \A k \in 1 .. m : finals'[k] = finals[k]
        /\ Len(finals') = m + 1 => finals'[m + 1] = n + 1
    <3>1. CASE tag[c] # "fin"
      <4>1. finals' = finals
        BY <1>3, <3>1
      <4>2. Len(finals') = m
        BY <4>1
      <4>3. m \in Nat /\ DOMAIN finals = 1 .. m
        BY <1>1
      <4> HIDE DEF m
      <4> QED BY <4>1, <4>2, <4>3
    <3>2. CASE tag[c] = "fin"
      <4>1. n + 1 \in Nat /\ finals' = Append(finals, n + 1)
        BY <1>1, <1>3, <3>2
      <4> HIDE DEF n
      <4> QED BY <1>1, <4>1, AppendFacts
    <3> QED BY <3>1, <3>2
  <2>5. m \in Nat /\ d \in Nat /\ n \in Nat /\ d <= m /\ nread \in Nat /\ nread <= n
    BY <1>1
  <2>6. DOMAIN finals = 1 .. m /\ \A k \in 1 .. m : finals[k] \in 1 .. n
    BY <1>1
  <2>7. delivered' = delivered /\ nread' = nread /\ reader' = reader /\ DOMAIN delivered = 1 .. d
    BY <1>1
  <2> HIDE DEF n, m, d
  <2>8. Len(finals') = m \/ Len(finals') = m + 1
    BY <2>2
  <2>3. CountInv'
    <3>1. d <= Len(finals')
      BY <2>5, <2>8
    <3>2. ASSUME reader = "read", NEW k \in DOMAIN finals'
          PROVE  k <= d <=> finals'[k] <= nread
      <4>1. CASE k \in 1 .. m
        BY <2>2, <2>6, <3>2, <4>1 DEF CountInv, d
      <4>2. CASE k = m + 1 /\ Len(finals') = m + 1
        BY <2>2, <2>5, <4>2
      <4>3. k \in 1 .. m \/ (k = m + 1 /\ Len(finals') = m + 1)
        <5>1. DOMAIN finals' = 1 .. Len(finals')
          BY <2>2
        <5>2. CASE Len(finals') = m
          BY <2>5, <3>2, <5>1, <5>2
        <5>3. CASE Len(finals') = m + 1
          <6>1. k \in 1 .. m + 1
            BY <3>2, <5>1, <5>3
          <6> QED BY <2>5, <5>3, <6>1
        <5> QED BY <2>8, <5>2, <5>3
      <4> QED BY <4>1, <4>2, <4>3
    <3> QED BY <2>7, <3>1, <3>2 DEF CountInv, d
  <2>4. MatchInv'
    <3>1. ASSUME NEW k \in DOMAIN delivered
          PROVE  CallOf(delivered[k]) = wire'[finals'[k]].call
      <4>1. k \in 1 .. m
        BY <2>5, <2>7
      <4> QED BY <2>1, <2>2, <2>6, <4>1 DEF MatchInv
    <3> QED BY <2>7, <3>1 DEF MatchInv
  <2> QED BY <2>3, <2>4
<1> QED BY <1>2, <1>3, FinalsStep DEF KnownInv

(***************************************************************************)
(* What the reader has delivered are the messages of the first final       *)
(* frames of the wire, each whole, and what it still holds are messages    *)
(* that have not ended; for all calls and sizes, on a connection where no  *)
(* plain message is cut short.                                             *)
(***************************************************************************)
THEOREM ReaderInvariant ==
  ASSUME MaxStreams < CancelBit, Cuts = FALSE
  PROVE  TransferSpec => [](KnownInv /\ ReaderInv)
<1>1. TransferSpec => []KnownInv
  BY TransferTypeOKTheorem, TransferImplementsSender, RefusalInvariant, MessageInvariant,
     StreamIdExclusiveTheorem, UncutInvariant, PTL DEF KnownInv
<1>2. TransferInit => ReaderInv
  <2> SUFFICES ASSUME TransferInit PROVE ReaderInv
    OBVIOUS
  <2>1. wire = << >> /\ finals = << >> /\ delivered = << >> /\ nread = 0
        /\ pending = [s \in 0 .. CancelBit - 1 |-> << >>]
    BY DEF TransferInit, Init
  <2> QED BY <2>1 DEF ReaderInv, FinalsInv, CountInv, MatchInv, PendingInv
<1>3. KnownInv /\ ReaderInv /\ [TransferNext]_allVars => ReaderInv'
  <2> SUFFICES ASSUME KnownInv, ReaderInv, [TransferNext]_allVars PROVE ReaderInv'
    OBVIOUS
  <2>1. CASE [Next]_vars /\ UNCHANGED readerVars
    BY <2>1, FinalsKept, CountSend, PendingSend DEF ReaderInv
  <2>2. CASE Read /\ UNCHANGED <<vars, finals>>
    <3>1. GivesUp \/ Delivers \/ Collects
      BY <2>2, ReadCases DEF ReaderInv
    <3>2. PendingInv'
      BY <2>2, <3>1, PendingTake DEF ReaderInv, GivesUp, PendingInv
    <3> QED BY <2>2, <3>1, <3>2, FinalsKept, CountRead DEF ReaderInv
  <2> QED BY <2>1, <2>2, TransferSteps
<1> QED BY <1>1, <1>2, <1>3, PTL DEF TransferSpec

-----------------------------------------------------------------------------
(* The channel of whole messages, and its variables as Channel has them.   *)
StageMap     == [c \in Calls |-> StageOf(c)]
SentMap      == [i \in DOMAIN finals |-> wire[finals[i]].call]
DeliveredMap == [i \in DOMAIN delivered |-> CallOf(delivered[i])]

\* A call that has begun and has not returned from its last frame.
Underway(c) == pc[c] \notin {"idle", "closeUpdate", "done"}

\* A sequence that is one longer than another and otherwise the same.
LEMMA OneLonger ==
  ASSUME NEW S, NEW n \in Nat, NEW f \in [1 .. n -> S], NEW g \in [1 .. n + 1 -> S],
         \A i \in 1 .. n : g[i] = f[i]
  PROVE  Len(f) = n /\ g = Append(f, g[n + 1])
<1>1. f \in Seq(S) /\ Len(f) = n
  OBVIOUS
<1>2. g \in Seq(S) /\ Len(g) = n + 1
  OBVIOUS
<1>3. g[n + 1] \in S
  OBVIOUS
<1>4. /\ Append(f, g[n + 1]) \in Seq(S) /\ DOMAIN Append(f, g[n + 1]) = 1 .. n + 1
      /\ \A i \in 1 .. n : Append(f, g[n + 1])[i] = f[i]
      /\ Append(f, g[n + 1])[n + 1] = g[n + 1]
  BY <1>1, <1>3, AppendFacts
<1>5. \A i \in 1 .. n + 1 : Append(f, g[n + 1])[i] = g[i]
  <2>1. \A i \in 1 .. n + 1 : i \in 1 .. n \/ i = n + 1
    OBVIOUS
  <2> QED BY <1>4, <2>1
<1>6. Append(f, g[n + 1]) = [i \in 1 .. n + 1 |-> Append(f, g[n + 1])[i]]
  BY <1>4
<1>7. g = [i \in 1 .. n + 1 |-> g[i]]
  OBVIOUS
<1> QED BY <1>1, <1>5, <1>6, <1>7

\* A call whose final frame was written has returned from its last frame.
LEMMA SentIsFinished ==
  ASSUME KnownInv, FinalsInv, NEW c \in SentInFull
  PROVE  c \in Calls /\ Finished(c)
<1>1. PICK k \in DOMAIN finals : wire[finals[k]].call = c
  BY DEF SentInFull
<1>2. finals[k] \in DOMAIN wire /\ wire[finals[k]].tag = "fin"
  BY <1>1 DEF FinalsInv
<1> QED BY <1>1, <1>2, FrameFacts DEF KnownInv, SenderInv, WireInv

\* What was sent stays so while no final frame is written.
LEMMA SentStays ==
  ASSUME FinalsInv, finals' = finals, \A i \in DOMAIN wire : wire'[i] = wire[i]
  PROVE  SentMap' = SentMap /\ SentInFull' = SentInFull
<1>1. \A k \in DOMAIN finals : wire'[finals'[k]].call = wire[finals[k]].call
  BY DEF FinalsInv
<1> QED BY <1>1 DEF SentMap, SentInFull

\* The stages of the other calls, and what the stage of a call follows from.
LEMMA StageCases ==
  ASSUME KnownInv, FinalsInv, NEW c \in Calls
  PROVE  /\ pc[c] = "idle" => StageOf(c) = "idle"
         /\ Underway(c) => StageOf(c) = "sending" /\ c \notin SentInFull
         /\ Finished(c) => StageOf(c) = IF c \in SentInFull THEN "sent" ELSE "failed"
BY SentIsFinished DEF StageOf, Underway, Finished

(***************************************************************************)
(* A step that writes no final frame and moves one call: it starts to      *)
(* send, fails, or is where it was as far as the channel can tell.         *)
(***************************************************************************)
LEMMA StagesMove ==
  ASSUME KnownInv, FinalsInv, NEW c \in Calls, NEW l, pc' = [pc EXCEPT ![c] = l],
         SentMap' = SentMap, SentInFull' = SentInFull, delivered' = delivered
  PROVE  /\ pc[c] = "idle" /\ l \notin {"idle", "closeUpdate", "done"} => Channel!Send(c)
         /\ Underway(c) /\ l \notin {"idle", "closeUpdate", "done"} => UNCHANGED Channel!vars
         /\ Underway(c) /\ l \in {"closeUpdate", "done"} => Channel!Fail(c)
         /\ Finished(c) /\ l \in {"closeUpdate", "done"} => UNCHANGED Channel!vars
<1>1. pc'[c] = l /\ \A d \in Calls : d # c => pc'[d] = pc[d]
  BY DEF KnownInv, TypeOK
<1>2. \A d \in Calls : d # c => StageOf(d)' = StageOf(d)
  BY <1>1 DEF StageOf
<1>3. DeliveredMap' = DeliveredMap
  BY DEF DeliveredMap
<1>4. c \in SentInFull => Finished(c)
  BY SentIsFinished
<1>5. StageMap[c] = StageOf(c) /\ StageMap = [StageMap EXCEPT ![c] = StageOf(c)]
  BY DEF StageMap
<1>6. StageMap' = [StageMap EXCEPT ![c] = StageOf(c)']
  BY <1>2 DEF StageMap
<1>7. /\ l \notin {"idle", "closeUpdate", "done"} /\ c \notin SentInFull => StageOf(c)' = "sending"
      /\ l \in {"closeUpdate", "done"} =>
           StageOf(c)' = IF c \in SentInFull THEN "sent" ELSE "failed"
  BY <1>1 DEF StageOf
<1>8. /\ Channel!Send(c) <=> /\ StageMap[c] = "idle"
                             /\ StageMap' = [StageMap EXCEPT ![c] = "sending"]
                             /\ SentMap' = SentMap /\ DeliveredMap' = DeliveredMap
      /\ Channel!Fail(c) <=> /\ StageMap[c] = "sending"
                             /\ StageMap' = [StageMap EXCEPT ![c] = "failed"]
                             /\ SentMap' = SentMap /\ DeliveredMap' = DeliveredMap
      /\ UNCHANGED Channel!vars <=> /\ StageMap' = StageMap
                                    /\ SentMap' = SentMap /\ DeliveredMap' = DeliveredMap
  BY DEF Channel!Send, Channel!Fail, Channel!vars, StageMap, SentMap, DeliveredMap
<1>9. CASE pc[c] = "idle"
  BY <1>3, <1>4, <1>5, <1>6, <1>7, <1>8, <1>9, StageCases DEF Finished, Underway
<1>10. CASE Underway(c)
  BY <1>3, <1>5, <1>6, <1>7, <1>8, <1>10, StageCases DEF Finished, Underway
<1>11. CASE Finished(c)
  BY <1>3, <1>5, <1>6, <1>7, <1>8, <1>11, StageCases DEF Finished, Underway
<1> QED BY <1>9, <1>10, <1>11 DEF Underway, Finished

\* A step that writes nothing moves at most one call, and none that has returned
\* from its last frame goes back.
LEMMA QuietMoves ==
  ASSUME TypeOK, [Next]_vars, \A c \in Calls : ~CopyFrame(c)
  PROVE  \/ pc' = pc
         \/ \E c \in Calls, l \in Labels :
              /\ pc' = [pc EXCEPT ![c] = l]
              /\ \/ pc[c] = "idle" /\ l \notin {"idle", "closeUpdate", "done"}
                 \/ Underway(c) /\ l # "idle"
                 \/ Finished(c) /\ l \in {"closeUpdate", "done"}
<1> USE DEF Labels, Goto, Underway, Finished, local, env
<1>1. ASSUME NEW c \in Calls, NEW k \in Kinds, Begin(c, k)
      PROVE  /\ pc[c] = "idle"
             /\ \E l \in Labels : l \notin {"idle", "closeUpdate", "done"}
                                  /\ pc' = [pc EXCEPT ![c] = l]
  <2>1. pc[c] = "idle"
    BY <1>1 DEF Begin
  <2>2. \/ pc' = [pc EXCEPT ![c] = "writeLock"]
        \/ pc' = [pc EXCEPT ![c] = "frame"]
        \/ pc' = [pc EXCEPT ![c] = "patchMsg"]
    BY <1>1 DEF Begin
  <2> QED BY <2>1, <2>2
<1>2. ASSUME NEW c \in Calls,
             \/ \E s \in StreamIds : TakeStreamId(c, s)
             \/ LockMessage(c)
             \/ \E u \in Tags : SpawnFrame(c, u)
             \/ LockFrame(c)
             \/ ReleaseStreamId(c)
      PROVE  /\ Underway(c)
             /\ \/ pc' = [pc EXCEPT ![c] = "frame"]
                \/ pc' = [pc EXCEPT ![c] = "streamLock"]
                \/ pc' = [pc EXCEPT ![c] = "copy"]
                \/ pc' = [pc EXCEPT ![c] = "release"]
  BY <1>2 DEF TakeStreamId, LockMessage, SpawnFrame, LockFrame, ReleaseStreamId
<1>3. ASSUME NEW c \in Calls,
             \/ \E s \in StreamIds : StreamIdsSpent(c, s)
             \/ RefuseFrame(c)
             \/ CopyError(c)
      PROVE  /\ Underway(c)
             /\ \/ pc' = [pc EXCEPT ![c] = "frame"]
                \/ pc' = [pc EXCEPT ![c] = "closeUpdate"]
                \/ pc' = [pc EXCEPT ![c] = "done"]
  BY <1>3 DEF StreamIdsSpent, RefuseFrame, CopyError, Return
<1>4. ASSUME NEW c \in Calls, CloseUpdate(c)
      PROVE  Finished(c) /\ pc' = [pc EXCEPT ![c] = "done"]
  BY <1>4 DEF CloseUpdate
<1>5. CASE (\E s \in {"Ready", "Closed", "Timeout"} : UpdateStatus(s)) \/ CloseRaw
  BY <1>5 DEF UpdateStatus, CloseRaw
<1>6. CASE UNCHANGED vars
  BY <1>6 DEF vars
<1>7. ASSUME NEW c \in Calls, Step(c)
      PROVE  \E l \in Labels :
               /\ pc' = [pc EXCEPT ![c] = l]
               /\ \/ Underway(c) /\ l # "idle"
                  \/ Finished(c) /\ l \in {"closeUpdate", "done"}
  <2>1. \/ \E s \in StreamIds : TakeStreamId(c, s)
        \/ LockMessage(c)
        \/ \E u \in Tags : SpawnFrame(c, u)
        \/ LockFrame(c)
        \/ ReleaseStreamId(c)
        \/ \E s \in StreamIds : StreamIdsSpent(c, s)
        \/ RefuseFrame(c)
        \/ CopyError(c)
        \/ CloseUpdate(c)
    BY <1>7 DEF Step
  <2> HIDE DEF Underway, Finished
  <2> QED BY <2>1, <1>2, <1>3, <1>4
<1> HIDE DEF Labels, Goto, Underway, Finished, local, env
<1> QED BY <1>1, <1>5, <1>6, <1>7 DEF Next

\* A step of the sending side that writes nothing is a step of the channel.
LEMMA QuietImplements ==
  ASSUME KnownInv, FinalsInv, [Next]_vars, \A c \in Calls : ~CopyFrame(c),
         finals' = finals, UNCHANGED readerVars
  PROVE  [Channel!Next]_(Channel!vars)
<1>1. wire' = wire /\ delivered' = delivered
  BY QuietFacts DEF KnownInv, readerVars
<1>2. SentMap' = SentMap /\ SentInFull' = SentInFull
  BY <1>1, SentStays
<1>3. CASE pc' = pc
  <2>1. StageMap' = StageMap
    BY <1>2, <1>3 DEF StageMap, StageOf
  <2> QED BY <1>1, <1>2, <2>1 DEF Channel!vars, StageMap, SentMap, DeliveredMap
<1>4. ASSUME NEW c \in Calls, NEW l \in Labels, pc' = [pc EXCEPT ![c] = l],
             \/ pc[c] = "idle" /\ l \notin {"idle", "closeUpdate", "done"}
             \/ Underway(c) /\ l # "idle"
             \/ Finished(c) /\ l \in {"closeUpdate", "done"}
      PROVE  Channel!Send(c) \/ Channel!Fail(c) \/ UNCHANGED Channel!vars
  BY <1>1, <1>2, <1>4, StagesMove
<1> QED BY <1>3, <1>4, QuietMoves DEF KnownInv, Channel!Next

\* Writing a frame that is not final is a step of the channel too: the message is
\* still on its way, or has failed with the frame that cancels it.
LEMMA FrameImplements ==
  ASSUME KnownInv, FinalsInv, NEW c \in Calls, CopyFrame(c), tag[c] # "fin",
         finals' = finals, UNCHANGED readerVars
  PROVE  [Channel!Next]_(Channel!vars)
<1>1. /\ pc[c] = "copy" /\ delivered' = delivered
      /\ \A i \in DOMAIN wire : wire'[i] = wire[i]
  BY CopyFacts DEF KnownInv, readerVars
<1>2. SentMap' = SentMap /\ SentInFull' = SentInFull
  BY <1>1, SentStays
<1>3. \/ pc' = [pc EXCEPT ![c] = "frame"]
      \/ pc' = [pc EXCEPT ![c] = "closeUpdate"]
      \/ pc' = [pc EXCEPT ![c] = "done"]
  BY DEF CopyFrame, Return, Goto
<1>4. Underway(c)
  BY <1>1 DEF Underway
<1>5. CASE pc' = [pc EXCEPT ![c] = "frame"]
  <2>1. "frame" \notin {"idle", "closeUpdate", "done"}
    OBVIOUS
  <2>2. UNCHANGED Channel!vars
    BY <1>1, <1>2, <1>4, <1>5, <2>1, StagesMove
  <2> QED BY <2>2
<1>6. CASE pc' # [pc EXCEPT ![c] = "frame"]
  <2>1. Channel!Fail(c)
    BY <1>1, <1>2, <1>3, <1>4, <1>6, StagesMove
  <2> QED BY <2>1 DEF Channel!Next
<1> QED BY <1>5, <1>6

(***************************************************************************)
(* Writing the final frame of a message is the instant at which the        *)
(* channel has sent it.                                                    *)
(***************************************************************************)
LEMMA FinalImplements ==
  ASSUME KnownInv, FinalsInv, NEW c \in Calls, CopyFrame(c), tag[c] = "fin",
         finals' = Append(finals, Len(wire) + 1), UNCHANGED readerVars
  PROVE  Channel!Commit(c)
<1> DEFINE n == Len(wire)
           m == Len(finals)
<1>1. /\ n \in Nat /\ DOMAIN wire = 1 .. n
      /\ m \in Nat /\ DOMAIN finals = 1 .. m /\ finals \in Seq(Nat)
      /\ \A k \in 1 .. m : finals[k] \in 1 .. n
  BY HistoryFacts
<1>2. /\ pc[c] = "copy" /\ delivered' = delivered
      /\ \A i \in 1 .. n : wire'[i] = wire[i]
      /\ wire'[n + 1].call = c
      /\ \A d \in Calls : d # c => pc'[d] = pc[d]
      /\ pc'[c] \in {"closeUpdate", "done"}
  BY CopyFacts DEF KnownInv, readerVars
<1>3. /\ DOMAIN finals' = 1 .. m + 1
      /\ \A k \in 1 .. m : finals'[k] = finals[k]
      /\ finals'[m + 1] = n + 1
  BY <1>1, AppendFacts
<1> HIDE DEF n, m
<1>4. /\ \A k \in 1 .. m : wire'[finals'[k]].call = wire[finals[k]].call
      /\ wire'[finals'[m + 1]].call = c
  BY <1>1, <1>2, <1>3
<1>5. \A k \in 1 .. m : wire[finals[k]].call \in Calls
  BY <1>1, FrameFacts DEF KnownInv
<1>6. /\ SentMap = [k \in 1 .. m |-> wire[finals[k]].call]
      /\ SentMap' = [k \in 1 .. m + 1 |-> wire'[finals'[k]].call]
  BY <1>1, <1>3 DEF SentMap
<1>7. SentMap' = Append(SentMap, c)
  <2>1. \A k \in 1 .. m + 1 : k \in 1 .. m \/ k = m + 1
    BY <1>1
  <2>2. SentMap \in [1 .. m -> Calls] /\ SentMap' \in [1 .. m + 1 -> Calls]
    BY <1>4, <1>5, <1>6, <2>1
  <2>3. (\A k \in 1 .. m : SentMap'[k] = SentMap[k]) /\ SentMap'[m + 1] = c
    BY <1>1, <1>4, <1>6
  <2> HIDE DEF SentMap
  <2> QED BY <1>1, <2>2, <2>3, OneLonger
<1>8. SentInFull' = SentInFull \cup {c}
  <2>1. \A k \in 1 .. m + 1 : k \in 1 .. m \/ k = m + 1
    BY <1>1
  <2>2. SentInFull = {wire[finals[k]].call : k \in 1 .. m}
        /\ SentInFull' = {wire'[finals'[k]].call : k \in 1 .. m + 1}
    BY <1>1, <1>3 DEF SentInFull
  <2>3. ASSUME NEW e \in SentInFull' PROVE e \in SentInFull \cup {c}
    BY <1>4, <2>1, <2>2
  <2>4. SentInFull \subseteq SentInFull'
    <3>1. \A k \in 1 .. m : k \in 1 .. m + 1
      BY <1>1
    <3> QED BY <1>4, <2>2, <3>1
  <2>5. c \in SentInFull'
    <3>1. m + 1 \in 1 .. m + 1
      BY <1>1
    <3> QED BY <1>4, <2>2, <3>1
  <2> QED BY <2>3, <2>4, <2>5
<1>9. StageOf(c) = "sending" /\ StageOf(c)' = "sent"
      /\ \A d \in Calls : d # c => StageOf(d)' = StageOf(d)
  BY <1>2, <1>8, StageCases DEF StageOf, Underway
<1>10. StageMap[c] = "sending" /\ StageMap' = [StageMap EXCEPT ![c] = "sent"]
  BY <1>9 DEF StageMap
<1>11. DeliveredMap' = DeliveredMap
  BY <1>2 DEF DeliveredMap
<1> QED BY <1>7, <1>10, <1>11 DEF Channel!Commit, StageMap, SentMap, DeliveredMap

(***************************************************************************)
(* The reader takes a final frame: the channel delivers the next message.  *)
(***************************************************************************)
LEMMA DeliverImplements ==
  ASSUME KnownInv, ReaderInv, Delivers, UNCHANGED <<vars, finals>>
  PROVE  Channel!Deliver
<1> DEFINE d == Len(delivered)
<1>1. /\ d \in Nat /\ DOMAIN delivered = 1 .. d /\ delivered \in Seq(Seq(Frames))
      /\ wire' = wire /\ pc' = pc
      /\ Len(finals) \in Nat /\ DOMAIN finals = 1 .. Len(finals)
  BY HistoryFacts DEF KnownInv, TransferTypeOK, vars, local
<1>2. d + 1 \in DOMAIN finals /\ finals[d + 1] = nread + 1
  BY NextFinal DEF ReaderInv
<1>3. PICK msg \in Seq(Frames) : CallOf(msg) = Arrived.call /\ delivered' = Append(delivered, msg)
  BY DEF Delivers
<1>4. /\ DOMAIN delivered' = 1 .. d + 1
      /\ \A k \in 1 .. d : delivered'[k] = delivered[k]
      /\ delivered'[d + 1] = msg
  BY <1>1, <1>3, AppendFacts
<1>5. \A k \in DOMAIN finals : wire[finals[k]].call \in Calls
  BY FrameFacts DEF ReaderInv, FinalsInv, KnownInv
<1>6. \A k \in 1 .. d : CallOf(delivered[k]) \in Calls
  <2>1. \A k \in 1 .. d : k \in DOMAIN finals
    BY <1>1, <1>2
  <2> QED BY <1>1, <1>5, <2>1 DEF ReaderInv, MatchInv
<1>7. Arrived.call = wire[finals[d + 1]].call
  BY <1>2 DEF Arrived
<1> HIDE DEF d
<1>8. \A k \in 1 .. d + 1 : k \in 1 .. d \/ k = d + 1
  BY <1>1
<1>9. /\ DeliveredMap = [k \in 1 .. d |-> CallOf(delivered[k])]
      /\ DeliveredMap' = [k \in 1 .. d + 1 |-> CallOf(delivered'[k])]
  BY <1>1, <1>4 DEF DeliveredMap, CallOf, Whole
<1>10. /\ DeliveredMap \in [1 .. d -> Calls] /\ DeliveredMap' \in [1 .. d + 1 -> Calls]
       /\ \A k \in 1 .. d : DeliveredMap'[k] = DeliveredMap[k]
       /\ DeliveredMap'[d + 1] = Arrived.call
  BY <1>1, <1>2, <1>3, <1>4, <1>5, <1>6, <1>7, <1>8, <1>9
<1>11. Len(DeliveredMap) = d /\ DeliveredMap' = Append(DeliveredMap, Arrived.call)
  <2> HIDE DEF DeliveredMap
  <2> QED BY <1>1, <1>10, OneLonger
<1>12. SentMap[d + 1] = Arrived.call /\ Len(SentMap) = Len(finals)
  <2>1. SentMap \in Seq(Calls) /\ Len(SentMap) = Len(finals)
    BY <1>1, <1>5 DEF SentMap
  <2> QED BY <1>2, <1>7, <2>1 DEF SentMap
<1>13. d < Len(SentMap)
  BY <1>1, <1>2, <1>12
<1>14. SentMap' = SentMap /\ SentInFull' = SentInFull
  BY <1>1 DEF SentMap, SentInFull
<1>15. StageMap' = StageMap
  BY <1>1, <1>14 DEF StageMap, StageOf
<1> QED
  BY <1>11, <1>12, <1>13, <1>14, <1>15 DEF Channel!Deliver, StageMap, SentMap, DeliveredMap

(***************************************************************************)
(* The frames implement the channel: each step of a connection is a step   *)
(* of the channel of whole messages or changes nothing that it shows.      *)
(***************************************************************************)
THEOREM TransferImplementsChannel ==
  ASSUME MaxStreams < CancelBit, Cuts = FALSE
  PROVE  TransferSpec => ChannelSpec
<1>1. TransferInit => Channel!Init
  <2> SUFFICES ASSUME TransferInit PROVE Channel!Init
    OBVIOUS
  <2>1. finals = << >> /\ delivered = << >> /\ pc = [c \in Calls |-> "idle"]
    BY DEF TransferInit, Init
  <2>2. \A c \in Calls : StageOf(c) = "idle"
    BY <2>1 DEF StageOf
  <2> QED BY <2>1, <2>2 DEF Channel!Init
<1>2. KnownInv /\ ReaderInv /\ [TransferNext]_allVars => [Channel!Next]_(Channel!vars)
  <2> SUFFICES ASSUME KnownInv, ReaderInv, [TransferNext]_allVars
               PROVE  [Channel!Next]_(Channel!vars)
    OBVIOUS
  <2>1. CASE Read /\ UNCHANGED <<vars, finals>>
    <3>1. CASE Delivers
      BY <2>1, <3>1, DeliverImplements DEF Channel!Next
    <3>2. CASE GivesUp \/ Collects
      <4>1. wire' = wire /\ finals' = finals /\ delivered' = delivered /\ pc' = pc
        BY <2>1, <3>2 DEF GivesUp, Collects, vars, local
      <4>2. StageMap' = StageMap /\ SentMap' = SentMap /\ DeliveredMap' = DeliveredMap
        BY <4>1 DEF StageMap, StageOf, SentInFull, SentMap, DeliveredMap
      <4> QED BY <4>2 DEF Channel!vars, StageMap, SentMap, DeliveredMap
    <3> QED BY <2>1, <3>1, <3>2, ReadCases DEF ReaderInv
  <2>2. CASE [Next]_vars /\ UNCHANGED readerVars
    <3>1. CASE \A c \in Calls : ~CopyFrame(c)
      <4>1. wire' = wire
        BY <2>2, <3>1, QuietFacts DEF KnownInv
      <4>2. finals' = finals
        BY <3>1, FinalsStep DEF KnownInv
      <4> QED BY <2>2, <3>1, <4>2, QuietImplements DEF ReaderInv
    <3>2. ASSUME NEW c \in Calls, CopyFrame(c)
          PROVE  [Channel!Next]_(Channel!vars)
      <4>1. Len(wire') # Len(wire)
        BY <3>2, CopyPart, CopyFacts DEF KnownInv
      <4>2. PICK e \in Calls :
              /\ CopyFrame(e)
              /\ finals' = IF tag[e] = "fin" THEN Append(finals, Len(wire) + 1) ELSE finals
        BY <4>1, FinalsStep DEF KnownInv
      <4>3. CASE tag[e] = "fin"
        <5>1. Channel!Commit(e)
          BY <2>2, <4>2, <4>3, FinalImplements DEF ReaderInv
        <5> QED BY <5>1 DEF Channel!Next
      <4>4. CASE tag[e] # "fin"
        BY <2>2, <4>2, <4>4, FrameImplements DEF ReaderInv
      <4> QED BY <4>3, <4>4
    <3> QED BY <3>1, <3>2
  <2> QED BY <2>1, <2>2, TransferSteps
<1> QED BY <1>1, <1>2, ReaderInvariant, PTL DEF TransferSpec, ChannelSpec, Channel!Spec

\* Two final frames are of two messages.
LEMMA SentOnce ==
  ASSUME KnownInv, FinalsInv, NEW k \in DOMAIN finals, NEW l \in DOMAIN finals,
         wire[finals[k]].call = wire[finals[l]].call
  PROVE  k = l
<1>1. /\ finals[k] \in DOMAIN wire /\ wire[finals[k]].tag = "fin"
      /\ finals[l] \in DOMAIN wire /\ wire[finals[l]].tag = "fin"
  BY DEF FinalsInv
<1>2. ~(finals[k] < finals[l]) /\ ~(finals[l] < finals[k])
  BY <1>1 DEF KnownInv, MessageInv, EndInv
<1>3. k \in Nat /\ l \in Nat
  BY HistoryFacts
<1> QED BY <1>2, <1>3 DEF FinalsInv

(***************************************************************************)
(* The application at the other end gets the messages that were sent in    *)
(* full, in that order and each at most once (README.md:599 and 936).      *)
(***************************************************************************)
THEOREM MessagesInOrderOnce ==
  ASSUME MaxStreams < CancelBit, Cuts = FALSE
  PROVE  TransferSpec => []Channel!InOrderOnce
<1>1. KnownInv /\ ReaderInv => Channel!InOrderOnce
  <2> SUFFICES ASSUME KnownInv, ReaderInv PROVE Channel!InOrderOnce
    OBVIOUS
  <2>1. /\ Len(delivered) \in Nat /\ DOMAIN delivered = 1 .. Len(delivered)
        /\ Len(finals) \in Nat /\ DOMAIN finals = 1 .. Len(finals)
        /\ Len(delivered) <= Len(finals)
    BY HistoryFacts DEF ReaderInv, CountInv
  <2>2. \A k \in DOMAIN finals : wire[finals[k]].call \in Calls
    BY FrameFacts DEF ReaderInv, FinalsInv, KnownInv
  <2>3. Len(SentMap) = Len(finals) /\ \A k \in DOMAIN finals : SentMap[k] = wire[finals[k]].call
    BY <2>1, <2>2 DEF SentMap
  <2>4. \A k \in DOMAIN delivered : DeliveredMap[k] = wire[finals[k]].call
    BY DEF DeliveredMap, ReaderInv, MatchInv
  <2>5. Len(DeliveredMap) = Len(delivered)
    <3>1. \A k \in DOMAIN delivered : CallOf(delivered[k]) \in Calls
      <4>1. DOMAIN delivered \subseteq DOMAIN finals
        BY <2>1
      <4> QED BY <2>2, <4>1 DEF ReaderInv, MatchInv
    <3> HIDE DEF CallOf
    <3> QED BY <2>1, <3>1 DEF DeliveredMap
  <2>6. \A k \in DOMAIN finals : StageMap[SentMap[k]] = "sent"
    <3> SUFFICES ASSUME NEW k \in DOMAIN finals PROVE StageMap[SentMap[k]] = "sent"
      OBVIOUS
    <3>1. SentMap[k] \in SentInFull
      BY <2>3 DEF SentInFull
    <3> QED BY <3>1, SentIsFinished, StageCases DEF StageMap, ReaderInv
  <2>7. \A k, l \in DOMAIN finals : SentMap[k] = SentMap[l] => k = l
    BY <2>3, SentOnce DEF ReaderInv
  <2>8. \A k \in 1 .. Len(delivered) : k \in DOMAIN finals
    BY <2>1
  <2> HIDE DEF StageMap, SentMap, DeliveredMap
  <2>9. /\ Len(DeliveredMap) <= Len(SentMap)
        /\ \A k \in 1 .. Len(DeliveredMap) : DeliveredMap[k] = SentMap[k]
        /\ \A k \in 1 .. Len(SentMap) : StageMap[SentMap[k]] = "sent"
        /\ \A k, l \in 1 .. Len(SentMap) : SentMap[k] = SentMap[l] => k = l
    BY <2>1, <2>3, <2>4, <2>5, <2>6, <2>7, <2>8
  <2> QED BY <2>9 DEF Channel!InOrderOnce, StageMap, SentMap, DeliveredMap
<1> QED BY <1>1, ReaderInvariant, PTL
=============================================================================

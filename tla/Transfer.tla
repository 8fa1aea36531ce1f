------------------------------ MODULE Transfer ------------------------------
(***************************************************************************)
(* One direction of a connection: the sending side of Sender, whose wire   *)
(* is now read, and the read loop of Start that takes the frames apart     *)
(* with FrameCodec, reassembles messages by stream id and triggers them.   *)
(* The raw connection delivers what was written, in order, until it        *)
(* breaks.  Handlers run when a message is complete (no TriggerOnStart;    *)
(* Receiver has the rest).                                                 *)
(*                                                                         *)
(* Calls are at the client, so frames are masked; the sizes of the frames  *)
(* go through the length classes of the header.                            *)
(***************************************************************************)
EXTENDS Sender, FrameCodec, SequencesExt

CONSTANTS ChunkSize,       \* config.ChunkSize, the payload of every frame but the last
          LastSize,        \* the payload of last frames
          BufferSize,      \* the peer's config.BufferSize
          MaxPayloadSize,  \* the peer's config.MaxPayloadSize, 0 for no limit
          Cuts             \* a plain message may be cut short and others follow it

ASSUME TransferAssumption ==
  /\ ChunkSize \in Nat \ {0}
  /\ LastSize \in 0 .. 125
  /\ BufferSize \in Nat /\ MaxPayloadSize \in Nat
  /\ Cuts \in BOOLEAN

VARIABLES
  nread,      \* frames of the wire that were read
  pending,    \* con.pendingStreams of the peer: the frames of each stream so far
  delivered,  \* history: the messages that were triggered, as their frames
  reader,     \* where the peer's Start is
  finals      \* history: where on the wire the last frames of messages are, in order

readerVars == <<nread, pending, delivered, reader>>
allVars    == <<vars, readerVars, finals>>

TransferTypeOK ==
  /\ TypeOK
  /\ nread \in 0 .. Len(wire)
  /\ pending \in [0 .. CancelBit - 1 -> Seq(Frames)]
  /\ delivered \in Seq(Seq(Frames))
  /\ reader \in {"read", "refused", "over"}
  /\ finals \in Seq(DOMAIN wire)

TransferInit ==
  /\ Init
  /\ nread = 0
  /\ pending = [s \in 0 .. CancelBit - 1 |-> << >>]
  /\ delivered = << >>
  /\ reader = "read"
  /\ finals = << >>

-----------------------------------------------------------------------------
nego == [streamable |-> streamable, compressable |-> FALSE]

\* The message that writeSingleFrame gives to assemble for a frame of the wire:
\* a text, a ping or a close.
OutFrame(f) ==
  [ type         |-> CASE kind[f.call] = "close"   -> 8
                       [] kind[f.call] = "control" -> 9
                       [] OTHER                    -> 1,
    isComplete   |-> f.tag = "fin",
    doCompress   |-> FALSE,
    doMask       |-> TRUE,
    streamlize   |-> Streamlize(f.call),
    streamId     |-> f.sid,
    cancelStream |-> f.tag = "cancel",
    size         |-> IF f.tag = "more" THEN ChunkSize ELSE LastSize ]

\* The next frame of the wire as the bytes that assemble made of it.  MayRead: it
\* is read as a whole, every Read of its header returning what was asked for.
Arrived  == wire[nread + 1]
RawOf(f) == {Assemble(m) : m \in {OutFrame(f)}}

MayRead ==
  /\ reader = "read"
  /\ nread < Len(wire)
  /\ nread' = nread + 1

\* Seeded fault: a frame that just fills the buffer is too large.
TooLargeOffByOne(raw) ==
  \/ Size(raw) >= BufferSize
  \/ MaxPayloadSize # 0 /\ Size(raw) > MaxPayloadSize

\* Peek cannot show more than the buffer holds, and MaxPayloadSize is a limit.
TooLarge(raw) ==
  \/ Size(raw) > BufferSize
  \/ MaxPayloadSize # 0 /\ Size(raw) > MaxPayloadSize

Fatal(raw) == TooLarge(raw) \/ Refused(raw, nego, TRUE)

\* A malformed frame, one that is too large, one with stream id 0: Start returns.
ReadRefused(raw) ==
  /\ Fatal(raw)
  /\ reader' = "refused"
  /\ UNCHANGED <<pending, delivered>>

\* A control frame is triggered at once; a CloseMessage ends Start.
ReadControl(raw) ==
  /\ ~Fatal(raw)
  /\ IsControlType(TypeOf(raw))
  /\ delivered' = Append(delivered, <<Arrived>>)
  /\ reader' = IF TypeOf(raw) = 8 THEN "over" ELSE "read"
  /\ UNCHANGED pending

\* The fragments a data frame continues; a cancel deletes them first.
Fragments(raw) == IF Cancel(raw) THEN << >> ELSE pending[StreamId(raw)]

\* Seeded fault: only a message of one frame is triggered.
ReadDataSilent(raw) ==
  /\ ~Fatal(raw)
  /\ ~IsControlType(TypeOf(raw))
  /\ LET more == Append(Fragments(raw), Arrived)
     IN  IF Fin(raw)
           THEN /\ delivered' = IF Len(more) = 1 THEN Append(delivered, more) ELSE delivered
                /\ pending' = [pending EXCEPT ![StreamId(raw)] = << >>]
           ELSE /\ pending' = [pending EXCEPT ![StreamId(raw)] = more]
                /\ UNCHANGED delivered
  /\ UNCHANGED reader

\* Seeded fault: the table entry of a finished message is not deleted.
ReadDataKeep(raw) ==
  /\ ~Fatal(raw)
  /\ ~IsControlType(TypeOf(raw))
  /\ LET more == Append(Fragments(raw), Arrived)
     IN  /\ pending' = [pending EXCEPT ![StreamId(raw)] = more]
         /\ delivered' = IF Fin(raw) THEN Append(delivered, more) ELSE delivered
  /\ UNCHANGED reader

\* A data frame is merged into the pending message of its stream or starts a new
\* one; the final one triggers the message.
ReadData(raw) ==
  /\ ~Fatal(raw)
  /\ ~IsControlType(TypeOf(raw))
  /\ LET more == Append(Fragments(raw), Arrived)
     IN  IF Fin(raw)
           THEN /\ delivered' = Append(delivered, more)
                /\ pending' = [pending EXCEPT ![StreamId(raw)] = << >>]
           ELSE /\ pending' = [pending EXCEPT ![StreamId(raw)] = more]
                /\ UNCHANGED delivered
  /\ UNCHANGED reader

\* The read fails on a connection that is closed or broken.
ReadError ==
  /\ reader = "read"
  /\ ~rawOpen
  /\ reader' = "over"
  /\ UNCHANGED <<nread, pending, delivered>>

(***************************************************************************)
(* The header of a frame comes in two pieces.  Start takes what one call   *)
(* of bufio's Read returns, which is fewer bytes than it asked for and no  *)
(* error when the buffer runs out in between: a frame that is as it should *)
(* be ends Start.  How the frames fall on the fills of the buffer is up to *)
(* the network.                                                            *)
(***************************************************************************)
ReadShort ==
  /\ reader = "read"
  /\ nread < Len(wire)
  /\ reader' = "over"
  /\ UNCHANGED <<nread, pending, delivered>>

Read ==
  \/ MayRead /\ \E raw \in RawOf(Arrived) :
       ReadRefused(raw) \/ ReadControl(raw) \/ ReadData(raw)
  \/ ReadShort
  \/ ReadError

(***************************************************************************)
(* On a plain connection a message is cut short when its reader fails, as  *)
(* there is no cancel bit, or when the status leaves Ready between two of  *)
(* its frames.  What comes after it is appended to it by the peer.  With   *)
(* Cuts = FALSE readers of plain connections do not fail, and a connection *)
(* on which a message was cut short is not Ready again.                    *)
(***************************************************************************)
CutShort(c) == ~streamable /\ pc[c] = "done" /\ sent[c] > 0 /\ tag[c] # "fin"

NoCut ==
  /\ \A c \in Calls : tag'[c] = "cancel" => streamable
  /\ status # "Ready" /\ status' = "Ready" => \A c \in Calls : ~CutShort(c)

(***************************************************************************)
(* The payload of a control message is at most 125 bytes (README.md:619),  *)
(* which is less than any ChunkSize (config.go:102): split makes one frame *)
(* of it.  Nothing in Dispatch holds a caller to it.                       *)
(***************************************************************************)
OneFrame == \A c \in Calls : IsControl(c)' => tag'[c] = "fin"

Send == Next /\ OneFrame /\ (Cuts \/ NoCut)

\* What a step of the sending side does beside it: the history takes note of a
\* last frame, and the reader stays where it is.
Aside ==
  /\ finals' = IF Len(wire') > Len(wire) /\ Last(wire').tag = "fin"
                 THEN Append(finals, Len(wire')) ELSE finals
  /\ UNCHANGED readerVars

TransferNext ==
  \/ Send /\ Aside
  \/ Read /\ UNCHANGED <<vars, finals>>

TransferSpec == TransferInit /\ [][TransferNext]_allVars

\* The fairness of Sender, and the peer's Start reads what is there to read.
TransferFairSpec ==
  /\ TransferSpec
  /\ \A c \in Calls : SF_allVars(Step(c) /\ Aside)
  /\ WF_allVars(Read /\ UNCHANGED <<vars, finals>>)

-----------------------------------------------------------------------------
(* The channel that the frames implement. *)

SentInFull == {wire[finals[i]].call : i \in DOMAIN finals}

\* The frames of call c, all of them and in order, are what was delivered; any
\* other sequence is no message that was ever dispatched.
Whole(frames) ==
  /\ \A i \in DOMAIN frames : frames[i].call = frames[1].call /\ frames[i].part = i
  /\ frames[Len(frames)].tag = "fin"

CallOf(frames) == IF Whole(frames) THEN frames[1].call ELSE NoCall

StageOf(c) ==
  IF pc[c] = "idle" THEN "idle"
  ELSE IF c \in SentInFull THEN "sent"
  ELSE IF pc[c] \in {"closeUpdate", "done"} THEN "failed"
  ELSE "sending"

Channel ==
  INSTANCE MessageChannel WITH
    Msgs      <- Calls,
    stage     <- [c \in Calls |-> StageOf(c)],
    sent      <- [i \in DOMAIN finals |-> wire[finals[i]].call],
    delivered <- [i \in DOMAIN delivered |-> CallOf(delivered[i])]

(***************************************************************************)
(* Whatever frames of other messages come in between, one direction of a   *)
(* connection is a channel of whole messages: a message is sent when its   *)
(* last frame is written, and the peer's application gets the messages     *)
(* unmixed, once each and in that order (README.md:599 and 936).           *)
(***************************************************************************)
ChannelSpec == Channel!Spec

(***************************************************************************)
(* The peer refuses a frame for what is in it only after stream ids ran    *)
(* out: patchMsg's error, which DispatchReader drops, is the one way to    *)
(* such a frame (connection.go:208 and 444), as long as payloads with a    *)
(* stream header fit the peer's limits, which the two configurations do    *)
(* not agree on (connection.go:429 and 432).  This is about the frames     *)
(* whose headers were read in one piece; ReadShort may end Start on any.   *)
(***************************************************************************)
Fits(size) ==
  /\ size + streamBytes <= BufferSize
  /\ MaxPayloadSize = 0 \/ size + streamBytes <= MaxPayloadSize

RefusedOnlyWhenSpent ==
  Fits(ChunkSize) /\ Fits(LastSize) /\ reader = "refused" => streamIdLock # NoCall

(***************************************************************************)
(* What assemble writes parseMeta and Start read as what it was, in every  *)
(* length class and with the stream header, for each frame that got an id. *)
(***************************************************************************)
WireIsReadable ==
  \A i \in DOMAIN wire :
    LET m == OutFrame(wire[i])
    IN  (m.streamlize /\ m.streamId = 0) \/ ReadsAs(Assemble(m), m)

(***************************************************************************)
(* A message that was sent arrives, unless the peer's Start ends first.    *)
(***************************************************************************)
Arrives(c) == \E i \in DOMAIN delivered : CallOf(delivered[i]) = c

SentArrives ==
  \A c \in Calls : c \in SentInFull ~> (reader # "read" \/ Arrives(c))
=============================================================================

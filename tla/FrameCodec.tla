----------------------------- MODULE FrameCodec -----------------------------
(***************************************************************************)
(* The header of a frame: what assemble writes and what parseMeta and the  *)
(* read loop of Start take from it.  A frame on the wire is its two meta   *)
(* bytes, the extended length and the stream header, each as a number; the *)
(* mask key and the payload are left out, of the payload only the size     *)
(* counts.                                                                 *)
(***************************************************************************)
EXTENDS Naturals

CONSTANT CancelBit  \* 1 << 15, the bit above the stream id; MAX_STREAMS_IN_THEORY

ASSUME CodecAssumption == CancelBit \in Nat \ {0}

streamBytes == 2

NoError       == 0
ProtocolError == 1002
MessageTooBig == 1009

\* What assemble is given: the fields of Message and of msgSendOptions, and the
\* size of the payload after compression.
OutFrames ==
  [ type : 1 .. 15, isComplete : BOOLEAN, doCompress : BOOLEAN, doMask : BOOLEAN,
    streamlize : BOOLEAN, streamId : Nat, cancelStream : BOOLEAN, size : Nat ]

Negotiated == [streamable : BOOLEAN, compressable : BOOLEAN]

IsControlType(t) == t >= 8

Weight(set, value) == IF set THEN value ELSE 0
Bit(byte, value)   == (byte \div value) % 2 = 1

-----------------------------------------------------------------------------
(* assemble *)

MsgSize(m) == m.size + Weight(m.streamlize, streamBytes)

\* Seeded fault: 65536 bytes are written with a length of two bytes.
LengthCodeOffByOne(n) ==
  IF n > 65536 THEN 127 ELSE IF n > 125 THEN 126 ELSE n

LengthCode(n) ==
  IF n >= 65536 THEN 127 ELSE IF n > 125 THEN 126 ELSE n

\* The eight, two or no bytes behind the meta bytes.
ExtendedLength(n) ==
  IF LengthCode(n) = 127 THEN n ELSE IF LengthCode(n) = 126 THEN n % 65536 ELSE 0

FirstByte(m) ==
  m.type + Weight(m.isComplete \/ IsControlType(m.type), 128)
         + Weight(m.doCompress, 64) + Weight(m.streamlize, 32)

\* uint16(id), with the upper bit set for a cancel.
StreamHeader(id, cancel) ==
  LET h == id % (2 * CancelBit)
  IN  IF cancel /\ h < CancelBit THEN h + CancelBit ELSE h

Assemble(m) ==
  [ b0     |-> FirstByte(m),
    b1     |-> LengthCode(MsgSize(m)) + Weight(m.doMask, 128),
    ext    |-> ExtendedLength(MsgSize(m)),
    header |-> IF m.streamlize THEN StreamHeader(m.streamId, m.cancelStream) ELSE 0 ]

-----------------------------------------------------------------------------
(* parseMeta *)

TypeOf(w)     == w.b0 % 16
Fin(w)        == Bit(w.b0, 128)
Compressed(w) == Bit(w.b0, 64)
IsStream(w)   == Bit(w.b0, 32)
Rsv3(w)       == Bit(w.b0, 16)
Masked(w)     == Bit(w.b1, 128)
ShortSize(w)  == w.b1 % 128

ParseMeta(w, nego, isFromClient) ==
  IF IsControlType(TypeOf(w)) /\ Fin(w) /\ ShortSize(w) > 125 THEN MessageTooBig
  ELSE IF \/ IsControlType(TypeOf(w)) /\ ~Fin(w)
          \/ TypeOf(w) = 0 /\ Fin(w)
          \/ Compressed(w) /\ ~nego.compressable
          \/ IsStream(w) /\ ~nego.streamable
          \/ Rsv3(w)
          \/ isFromClient /\ ~Masked(w)
          \/ IsStream(w) /\ ShortSize(w) < streamBytes
         THEN ProtocolError
  ELSE NoError

(* The read loop: the length and the stream header. *)

Size(w)     == IF ShortSize(w) \in {126, 127} THEN w.ext ELSE ShortSize(w)
Cancel(w)   == IsStream(w) /\ w.header >= CancelBit
StreamId(w) == IF IsStream(w) THEN w.header % CancelBit ELSE 0

\* Start gives up on a frame: parseMeta refuses it, or its stream id is 0.
Refused(w, nego, isFromClient) ==
  \/ ParseMeta(w, nego, isFromClient) # NoError
  \/ IsStream(w) /\ StreamId(w) = 0

-----------------------------------------------------------------------------
\* m is a frame that the sending side builds on a connection with this outcome of
\* the handshake (patchMsg), with the payload limit README.md:619 puts on control
\* frames.
Sendable(m, nego, isClient) ==
  /\ m.doCompress <=> nego.compressable /\ ~IsControlType(m.type)
  /\ m.streamlize <=> nego.streamable /\ ~IsControlType(m.type)
  /\ m.doMask <=> isClient
  /\ IsControlType(m.type) => m.size <= 125

\* The peer reads from w what m is.
ReadsAs(w, m) ==
  /\ TypeOf(w) = m.type
  /\ Fin(w) <=> m.isComplete \/ IsControlType(m.type)
  /\ Compressed(w) <=> m.doCompress
  /\ IsStream(w) <=> m.streamlize
  /\ Masked(w) <=> m.doMask
  /\ Size(w) = MsgSize(m)
  /\ m.streamlize => Cancel(w) = m.cancelStream /\ StreamId(w) = m.streamId
=============================================================================

---------------------------- MODULE SenderProofs ----------------------------
(***************************************************************************)
(* What holds of Sender for every number of calls, ids and chunks.         *)
(* SenderInv is the inductive invariant; its parts say who owns writeLock, *)
(* whose a stream id is, and what the frames on the wire reveal about the  *)
(* calls that wrote them.                                                  *)
(***************************************************************************)
EXTENDS Sender, TLAPS

Finished(c) == pc[c] \in {"closeUpdate", "done"}

\* The stretches of code that run with writeLock held.
Critical(c) ==
  \/ pc[c] = "release"
  \/ pc[c] = "copy" /\ (streamable => ~IsControl(c))
  \/ pc[c] = "frame" /\ ~streamable

LockInv == \A c \in Calls : writeLock = c <=> Critical(c)

\* What the place of a call says about the call itself.
PlaceInv ==
  \A c \in Calls :
    /\ pc[c] \in {"patchMsg", "streamLock", "release"} => Streamlize(c)
    /\ pc[c] = "writeLock" => ~streamable
    /\ pc[c] \in {"idle", "patchMsg", "writeLock"} => sid[c] = 0
    /\ sid[c] # 0 => Streamlize(c)
    /\ pc[c] = "release" => tag[c] = "fin"
    /\ pc[c] = "copy" /\ Streamlize(c) /\ tag[c] = "fin" => freed[c]
    /\ freed[c] => Streamlize(c) /\ pc[c] \in {"copy", "done"} /\ tag[c] = "fin"

\* inUseStreams and the calls agree (InUseIsExact, in a form easier to use).
IdInv ==
  /\ \A c \in Calls : Holds(c) => sid[c] \in inUseStreams
  /\ \A s \in inUseStreams : \E c \in Calls : Holds(c) /\ sid[c] = s
  /\ \A c, d \in Calls : Holds(c) /\ Holds(d) /\ sid[c] = sid[d] => c = d

\* A frame tells the id and the progress of the call that wrote it.
WireInv ==
  \A i \in DOMAIN wire :
    LET c == wire[i].call
    IN  /\ wire[i].sid = sid[c]
        /\ pc[c] \notin {"idle", "patchMsg", "writeLock"}
        /\ wire[i].tag = "fin" => Finished(c)

\* The final frame of a call is its last one.
FinIsLast ==
  \A i, j \in DOMAIN wire :
    i < j /\ wire[i].call = wire[j].call => wire[i].tag # "fin"

\* A call that gave its id back and is done has ended its message.
FreedIsEnded ==
  \A c \in Calls :
    freed[c] /\ pc[c] # "copy" =>
      ~rawOpen \/ \E k \in DOMAIN wire : wire[k].call = c /\ wire[k].tag = "fin"

\* Between the release of an id and the final frame, the next holder of the id
\* has written nothing.
HandOver ==
  \A c, d \in Calls :
    freed[c] /\ pc[c] = "copy" /\ Holds(d) /\ sid[d] = sid[c] =>
      \A i \in DOMAIN wire : wire[i].call # d

\* On a plain connection only the last message on the wire can be unfinished.
PlainInv ==
  ~streamable =>
    \A i, j \in DOMAIN wire :
      i < j /\ wire[i].call # wire[j].call => Finished(wire[i].call)

SenderInv ==
  /\ LockInv
  /\ PlaceInv
  /\ IdInv
  /\ WireInv
  /\ FinIsLast
  /\ FreedIsEnded
  /\ HandOver
  /\ PlainInv
-----------------------------------------------------------------------------
\* Append leaves the old frames where they are and adds one at the end.
LEMMA AppendFacts ==
  ASSUME NEW S, NEW q \in Seq(S), NEW e \in S
  PROVE  /\ Append(q, e) \in Seq(S)
         /\ Len(q) \in Nat
         /\ DOMAIN q = 1 .. Len(q)
         /\ DOMAIN Append(q, e) = 1 .. Len(q) + 1
         /\ \A i \in 1 .. Len(q) : Append(q, e)[i] = q[i]
         /\ Append(q, e)[Len(q) + 1] = e
  OBVIOUS

\* What TypeOK says of one frame on the wire.
LEMMA FrameFacts ==
  ASSUME TypeOK, NEW i \in DOMAIN wire
  PROVE  /\ wire[i].call \in Calls
         /\ wire[i].sid \in 0 .. MaxStreams
         /\ wire[i].tag \in Tags
         /\ DOMAIN wire = 1 .. Len(wire)
         /\ Len(wire) \in Nat
<1>1. wire \in Seq(Frames) /\ DOMAIN wire = 1 .. Len(wire) /\ Len(wire) \in Nat
  BY DEF TypeOK
<1>2. wire[i] \in Frames
  BY <1>1
<1> QED
  BY <1>1, <1>2 DEF Frames

\* What CopyFrame changes: one more frame, and the place of the call.
LEMMA CopyFacts ==
  ASSUME TypeOK, NEW c \in Calls, CopyFrame(c)
  PROVE  /\ Len(wire) \in Nat
         /\ DOMAIN wire = 1 .. Len(wire)
         /\ DOMAIN wire' = 1 .. Len(wire) + 1
         /\ \A i \in 1 .. Len(wire) : wire'[i] = wire[i]
         /\ wire'[Len(wire) + 1].call = c
         /\ wire'[Len(wire) + 1].sid = sid[c]
         /\ wire'[Len(wire) + 1].tag = "fin" <=> tag[c] = "fin"
         /\ pc[c] = "copy" /\ rawOpen
         /\ \A d \in Calls : d # c => pc'[d] = pc[d]
         /\ tag[c] # "more" =>
              pc'[c] = IF kind[c] = "close" THEN "closeUpdate" ELSE "done"
         /\ tag[c] = "more" => pc'[c] = "frame"
         /\ UNCHANGED <<streamable, rawOpen, kind, sid, tag, freed>>
<1>1. FrameInHand(c) \in Frames
  BY SenderAssumption DEF FrameInHand, Frames, TypeOK, Tags
<1>2. wire \in Seq(Frames) /\ wire' = Append(wire, FrameInHand(c))
  BY DEF TypeOK, CopyFrame
<1>3. wire'[Len(wire) + 1] = FrameInHand(c)
  BY <1>1, <1>2, AppendFacts
<1>4. /\ Len(wire) \in Nat
      /\ DOMAIN wire = 1 .. Len(wire)
      /\ DOMAIN wire' = 1 .. Len(wire) + 1
      /\ \A i \in 1 .. Len(wire) : wire'[i] = wire[i]
  BY <1>1, <1>2, AppendFacts
<1>5. /\ wire'[Len(wire) + 1].call = c
      /\ wire'[Len(wire) + 1].sid = sid[c]
      /\ wire'[Len(wire) + 1].tag = "fin" <=> tag[c] = "fin"
  BY <1>3 DEF FrameInHand
<1>6. /\ \A d \in Calls : d # c => pc'[d] = pc[d]
      /\ tag[c] # "more" =>
           pc'[c] = IF kind[c] = "close" THEN "closeUpdate" ELSE "done"
      /\ tag[c] = "more" => pc'[c] = "frame"
  BY DEF CopyFrame, Return, Goto, TypeOK
<1> QED
  BY <1>4, <1>5, <1>6 DEF CopyFrame, ids, env

\* Every variable of the model keeps its type: the ids given out stay within
\* con.config.MaxStreams and the mutexes have at most one owner.
THEOREM SenderTypeOK == Spec => []TypeOK
<1>1. Init => TypeOK
  BY SenderAssumption
  DEF Init, TypeOK, Statuses, Kinds, Tags, Labels, StreamIds
<1>2. TypeOK /\ [Next]_vars => TypeOK'
  <2> SUFFICES ASSUME TypeOK, [Next]_vars PROVE TypeOK'
    OBVIOUS
  <2> USE SenderAssumption DEF TypeOK, Statuses, Kinds, Tags, Labels, StreamIds,
        env, ids, locks, local, Goto
  <2>1. ASSUME NEW c \in Calls, NEW k \in Kinds, Begin(c, k) PROVE TypeOK'
    BY <2>1 DEF Begin
  <2>2. ASSUME NEW c \in Calls, NEW s \in StreamIds, TakeStreamId(c, s) PROVE TypeOK'
    BY <2>2 DEF TakeStreamId
  <2>3. ASSUME NEW c \in Calls, NEW s \in StreamIds, StreamIdsSpent(c, s) PROVE TypeOK'
    BY <2>3 DEF StreamIdsSpent
  <2>4. ASSUME NEW c \in Calls, LockMessage(c) PROVE TypeOK'
    BY <2>4 DEF LockMessage
  <2>5. ASSUME NEW c \in Calls, NEW t \in Tags, SpawnFrame(c, t) PROVE TypeOK'
    BY <2>5 DEF SpawnFrame
  <2>6. ASSUME NEW c \in Calls, RefuseFrame(c) PROVE TypeOK'
    BY <2>6 DEF RefuseFrame, Return
  <2>7. ASSUME NEW c \in Calls, LockFrame(c) PROVE TypeOK'
    BY <2>7 DEF LockFrame
  <2>8. ASSUME NEW c \in Calls, ReleaseStreamId(c) PROVE TypeOK'
    BY <2>8 DEF ReleaseStreamId
  <2>9. ASSUME NEW c \in Calls, CopyFrame(c) PROVE TypeOK'
    <3>1. FrameInHand(c) \in Frames
      BY DEF FrameInHand, Frames
    <3>2. wire' \in Seq(Frames)
      BY <2>9, <3>1, AppendFacts DEF CopyFrame
    <3>3. /\ pc' \in [Calls -> Labels]
          /\ writeLock' \in Calls \cup {NoCall}
      BY <2>9 DEF CopyFrame, Return
    <3>4. sent' \in [Calls -> Nat]
      BY <2>9 DEF CopyFrame
    <3> QED
      BY <2>9, <3>2, <3>3, <3>4 DEF CopyFrame
  <2>10. ASSUME NEW c \in Calls, CopyError(c) PROVE TypeOK'
    BY <2>10 DEF CopyError, Return
  <2>11. ASSUME NEW c \in Calls, CloseUpdate(c) PROVE TypeOK'
    BY <2>11 DEF CloseUpdate
  <2>12. ASSUME NEW s \in {"Ready", "Closed", "Timeout"}, UpdateStatus(s) PROVE TypeOK'
    BY <2>12 DEF UpdateStatus
  <2>13. CASE CloseRaw
    BY <2>13 DEF CloseRaw
  <2>14. CASE UNCHANGED vars
    BY <2>14 DEF vars
  <2> HIDE DEF TypeOK
  <2> QED
    BY <2>1, <2>2, <2>3, <2>4, <2>5, <2>6, <2>7, <2>8, <2>9, <2>10, <2>11,
       <2>12, <2>13, <2>14 DEF Next, Step
<1> QED
  BY <1>1, <1>2, PTL DEF Spec

-----------------------------------------------------------------------------
\* Every step keeps writeLock with the call that runs a critical stretch.
LEMMA LockStep ==
  ASSUME TypeOK, LockInv, PlaceInv, [Next]_vars
  PROVE  LockInv'
<1> USE SenderAssumption
      DEF TypeOK, LockInv, PlaceInv, Critical, Streamlize, IsControl, StreamIds,
          Labels, Kinds, Tags, Goto, env, ids, locks, local
<1>1. ASSUME NEW c \in Calls, NEW k \in Kinds, Begin(c, k) PROVE LockInv'
  BY <1>1 DEF Begin
<1>2. ASSUME NEW c \in Calls, NEW s \in StreamIds, TakeStreamId(c, s) PROVE LockInv'
  BY <1>2 DEF TakeStreamId
<1>3. ASSUME NEW c \in Calls, NEW s \in StreamIds, StreamIdsSpent(c, s) PROVE LockInv'
  BY <1>3 DEF StreamIdsSpent
<1>4. ASSUME NEW c \in Calls, LockMessage(c) PROVE LockInv'
  BY <1>4 DEF LockMessage
<1>5. ASSUME NEW c \in Calls, NEW t \in Tags, SpawnFrame(c, t) PROVE LockInv'
  BY <1>5 DEF SpawnFrame
<1>6. ASSUME NEW c \in Calls, RefuseFrame(c) PROVE LockInv'
  BY <1>6 DEF RefuseFrame, Return
<1>7. ASSUME NEW c \in Calls, LockFrame(c) PROVE LockInv'
  BY <1>7 DEF LockFrame
<1>8. ASSUME NEW c \in Calls, ReleaseStreamId(c) PROVE LockInv'
  BY <1>8 DEF ReleaseStreamId
<1>9. ASSUME NEW c \in Calls, CopyFrame(c) PROVE LockInv'
  BY <1>9 DEF CopyFrame, Return
<1>10. ASSUME NEW c \in Calls, CopyError(c) PROVE LockInv'
  BY <1>10 DEF CopyError, Return
<1>11. ASSUME NEW c \in Calls, CloseUpdate(c) PROVE LockInv'
  BY <1>11 DEF CloseUpdate
<1>12. ASSUME NEW s \in {"Ready", "Closed", "Timeout"}, UpdateStatus(s) PROVE LockInv'
  BY <1>12 DEF UpdateStatus
<1>13. CASE CloseRaw
  BY <1>13 DEF CloseRaw
<1>14. CASE UNCHANGED vars
  BY <1>14 DEF vars
<1> HIDE DEF TypeOK, LockInv, PlaceInv, Critical, Streamlize, IsControl, StreamIds,
          Labels, Kinds, Tags
<1> QED
  BY <1>1, <1>2, <1>3, <1>4, <1>5, <1>6, <1>7, <1>8, <1>9, <1>10, <1>11,
     <1>12, <1>13, <1>14 DEF Next, Step

\* Every step keeps the link between a call's place, kind, id and frame in hand.
LEMMA PlaceStep ==
  ASSUME TypeOK, PlaceInv, [Next]_vars
  PROVE  PlaceInv'
<1> USE SenderAssumption
      DEF TypeOK, PlaceInv, Streamlize, IsControl, StreamIds, Labels, Kinds, Tags,
          Goto, env, ids, locks, local
<1>1. ASSUME NEW c \in Calls, NEW k \in Kinds, Begin(c, k) PROVE PlaceInv'
  BY <1>1 DEF Begin
<1>2. ASSUME NEW c \in Calls, NEW s \in StreamIds, TakeStreamId(c, s) PROVE PlaceInv'
  BY <1>2 DEF TakeStreamId
<1>3. ASSUME NEW c \in Calls, NEW s \in StreamIds, StreamIdsSpent(c, s) PROVE PlaceInv'
  BY <1>3 DEF StreamIdsSpent
<1>4. ASSUME NEW c \in Calls, LockMessage(c) PROVE PlaceInv'
  BY <1>4 DEF LockMessage
<1>5. ASSUME NEW c \in Calls, NEW t \in Tags, SpawnFrame(c, t) PROVE PlaceInv'
  BY <1>5 DEF SpawnFrame
<1>6. ASSUME NEW c \in Calls, RefuseFrame(c) PROVE PlaceInv'
  BY <1>6 DEF RefuseFrame, Return
<1>7. ASSUME NEW c \in Calls, LockFrame(c) PROVE PlaceInv'
  BY <1>7 DEF LockFrame
<1>8. ASSUME NEW c \in Calls, ReleaseStreamId(c) PROVE PlaceInv'
  BY <1>8 DEF ReleaseStreamId
<1>9. ASSUME NEW c \in Calls, CopyFrame(c) PROVE PlaceInv'
  BY <1>9 DEF CopyFrame, Return
<1>10. ASSUME NEW c \in Calls, CopyError(c) PROVE PlaceInv'
  BY <1>10 DEF CopyError, Return
<1>11. ASSUME NEW c \in Calls, CloseUpdate(c) PROVE PlaceInv'
  BY <1>11 DEF CloseUpdate
<1>12. ASSUME NEW s \in {"Ready", "Closed", "Timeout"}, UpdateStatus(s) PROVE PlaceInv'
  BY <1>12 DEF UpdateStatus
<1>13. CASE CloseRaw
  BY <1>13 DEF CloseRaw
<1>14. CASE UNCHANGED vars
  BY <1>14 DEF vars
<1> HIDE DEF TypeOK, PlaceInv, Streamlize, IsControl, StreamIds, Labels, Kinds, Tags
<1> QED
  BY <1>1, <1>2, <1>3, <1>4, <1>5, <1>6, <1>7, <1>8, <1>9, <1>10, <1>11,
     <1>12, <1>13, <1>14 DEF Next, Step

\* Every step keeps inUseStreams equal to the ids held, each held once.
LEMMA IdStep ==
  ASSUME TypeOK, PlaceInv, IdInv, [Next]_vars
  PROVE  IdInv'
<1> USE SenderAssumption
      DEF TypeOK, PlaceInv, IdInv, Holds, Streamlize, IsControl, StreamIds, Labels,
          Kinds, Tags, Goto, env, ids, locks, local
<1>1. ASSUME NEW c \in Calls, NEW k \in Kinds, Begin(c, k) PROVE IdInv'
  BY <1>1 DEF Begin
<1>2. ASSUME NEW c \in Calls, NEW s \in StreamIds, TakeStreamId(c, s) PROVE IdInv'
  <2>1. sid[c] = 0 /\ ~freed[c] /\ s \in StreamIds
    BY <1>2 DEF TakeStreamId
  <2>2. /\ sid' = [sid EXCEPT ![c] = s] /\ freed' = freed
        /\ inUseStreams' = inUseStreams \cup {s} /\ s \notin inUseStreams
    BY <1>2 DEF TakeStreamId
  <2>3. \A d \in Calls : Holds(d)' <=> (Holds(d) \/ d = c)
    BY <2>1, <2>2
  <2>4. ~Holds(c)
    BY <2>1
  <2> HIDE DEF Holds
  <2>5. \A d \in Calls : d # c => sid'[d] = sid[d]
    BY <2>2
  <2>6. sid'[c] = s
    BY <2>2
  <2> QED
    BY <2>2, <2>3, <2>4, <2>5, <2>6
<1>3. ASSUME NEW c \in Calls, NEW s \in StreamIds, StreamIdsSpent(c, s) PROVE IdInv'
  BY <1>3 DEF StreamIdsSpent
<1>4. ASSUME NEW c \in Calls, LockMessage(c) PROVE IdInv'
  BY <1>4 DEF LockMessage
<1>5. ASSUME NEW c \in Calls, NEW t \in Tags, SpawnFrame(c, t) PROVE IdInv'
  BY <1>5 DEF SpawnFrame
<1>6. ASSUME NEW c \in Calls, RefuseFrame(c) PROVE IdInv'
  BY <1>6 DEF RefuseFrame, Return
<1>7. ASSUME NEW c \in Calls, LockFrame(c) PROVE IdInv'
  BY <1>7 DEF LockFrame
<1>8. ASSUME NEW c \in Calls, ReleaseStreamId(c) PROVE IdInv'
  BY <1>8 DEF ReleaseStreamId
<1>9. ASSUME NEW c \in Calls, CopyFrame(c) PROVE IdInv'
  BY <1>9 DEF CopyFrame, Return
<1>10. ASSUME NEW c \in Calls, CopyError(c) PROVE IdInv'
  BY <1>10 DEF CopyError, Return
<1>11. ASSUME NEW c \in Calls, CloseUpdate(c) PROVE IdInv'
  BY <1>11 DEF CloseUpdate
<1>12. ASSUME NEW s \in {"Ready", "Closed", "Timeout"}, UpdateStatus(s) PROVE IdInv'
  BY <1>12 DEF UpdateStatus
<1>13. CASE CloseRaw
  BY <1>13 DEF CloseRaw
<1>14. CASE UNCHANGED vars
  BY <1>14 DEF vars
<1> HIDE DEF TypeOK, PlaceInv, IdInv, Holds, Streamlize, IsControl, StreamIds,
          Labels, Kinds, Tags
<1> QED
  BY <1>1, <1>2, <1>3, <1>4, <1>5, <1>6, <1>7, <1>8, <1>9, <1>10, <1>11,
     <1>12, <1>13, <1>14 DEF Next, Step

\* Writing a frame keeps WireInv.
LEMMA WireCopy ==
  ASSUME TypeOK, WireInv, NEW c \in Calls, CopyFrame(c)
  PROVE  WireInv'
<1> DEFINE n == Len(wire)
<1>1. /\ n \in Nat
      /\ DOMAIN wire = 1 .. n
      /\ DOMAIN wire' = 1 .. n + 1
      /\ \A i \in 1 .. n : wire'[i] = wire[i] /\ wire[i].call \in Calls
      /\ wire'[n + 1].call = c
      /\ wire'[n + 1].sid = sid[c]
      /\ wire'[n + 1].tag = "fin" <=> tag[c] = "fin"
  BY CopyFacts, FrameFacts
<1>2. /\ pc[c] = "copy" /\ rawOpen
      /\ \A d \in Calls : d # c => pc'[d] = pc[d]
      /\ pc'[c] \in {"frame", "closeUpdate", "done"}
      /\ tag[c] # "more" => pc'[c] \in {"closeUpdate", "done"}
      /\ UNCHANGED <<streamable, rawOpen, kind, sid, tag, freed>>
  BY CopyFacts
<1> HIDE DEF n
<1>3. ASSUME NEW i \in DOMAIN wire'
      PROVE  LET d == wire'[i].call
             IN  /\ wire'[i].sid = sid'[d]
                 /\ pc'[d] \notin {"idle", "patchMsg", "writeLock"}
                 /\ wire'[i].tag = "fin" => pc'[d] \in {"closeUpdate", "done"}
  <2>1. CASE i = n + 1
    BY <1>1, <1>2, <2>1
  <2>2. CASE i \in 1 .. n
    <3>1. wire'[i] = wire[i] /\ wire[i].call \in Calls
      BY <1>1, <2>2
    <3>2. /\ wire[i].sid = sid[wire[i].call]
          /\ pc[wire[i].call] \notin {"idle", "patchMsg", "writeLock"}
          /\ wire[i].tag = "fin" => pc[wire[i].call] \in {"closeUpdate", "done"}
      BY <1>1, <2>2 DEF WireInv, Finished
    <3> QED
      BY <1>2, <3>1, <3>2
  <2> QED
    BY <1>1, <1>3, <2>1, <2>2
<1> QED
  BY <1>3 DEF WireInv, Finished

\* Writing a frame after the final one of the same call is impossible.
LEMMA FinIsLastCopy ==
  ASSUME TypeOK, WireInv, FinIsLast, NEW c \in Calls, CopyFrame(c)
  PROVE  FinIsLast'
<1> DEFINE n == Len(wire)
<1>1. /\ n \in Nat
      /\ DOMAIN wire = 1 .. n
      /\ DOMAIN wire' = 1 .. n + 1
      /\ \A i \in 1 .. n : wire'[i] = wire[i] /\ wire[i].call \in Calls
      /\ wire'[n + 1].call = c
      /\ wire'[n + 1].sid = sid[c]
      /\ wire'[n + 1].tag = "fin" <=> tag[c] = "fin"
  BY CopyFacts, FrameFacts
<1>2. /\ pc[c] = "copy" /\ rawOpen
      /\ \A d \in Calls : d # c => pc'[d] = pc[d]
      /\ pc'[c] \in {"frame", "closeUpdate", "done"}
      /\ tag[c] # "more" => pc'[c] \in {"closeUpdate", "done"}
      /\ UNCHANGED <<streamable, rawOpen, kind, sid, tag, freed>>
  BY CopyFacts
<1> HIDE DEF n
<1>3. ASSUME NEW i \in DOMAIN wire', NEW j \in DOMAIN wire',
             i < j, wire'[i].call = wire'[j].call, wire'[i].tag = "fin"
      PROVE  FALSE
  <2>1. i \in 1 .. n /\ wire'[i] = wire[i]
    BY <1>1, <1>3
  <2>2. CASE j \in 1 .. n
    BY <1>1, <1>3, <2>1, <2>2 DEF FinIsLast
  <2>3. CASE j = n + 1
    <3>1. wire[i].call = c
      BY <1>1, <1>3, <2>1, <2>3
    <3> QED
      BY <1>1, <1>2, <1>3, <2>1, <3>1 DEF WireInv, Finished
  <2> QED
    BY <1>1, <1>3, <2>2, <2>3
<1> QED
  BY <1>3 DEF FinIsLast

\* Writing the final frame ends the message of the call.
LEMMA FreedIsEndedCopy ==
  ASSUME TypeOK, PlaceInv, FreedIsEnded, NEW c \in Calls, CopyFrame(c)
  PROVE  FreedIsEnded'
<1> DEFINE n == Len(wire)
<1>1. /\ n \in Nat
      /\ DOMAIN wire = 1 .. n
      /\ DOMAIN wire' = 1 .. n + 1
      /\ \A i \in 1 .. n : wire'[i] = wire[i] /\ wire[i].call \in Calls
      /\ wire'[n + 1].call = c
      /\ wire'[n + 1].sid = sid[c]
      /\ wire'[n + 1].tag = "fin" <=> tag[c] = "fin"
  BY CopyFacts, FrameFacts
<1>2. /\ pc[c] = "copy" /\ rawOpen
      /\ \A d \in Calls : d # c => pc'[d] = pc[d]
      /\ pc'[c] \in {"frame", "closeUpdate", "done"}
      /\ tag[c] # "more" => pc'[c] \in {"closeUpdate", "done"}
      /\ UNCHANGED <<streamable, rawOpen, kind, sid, tag, freed>>
  BY CopyFacts
<1> HIDE DEF n
<1>3. ASSUME NEW d \in Calls, freed'[d], pc'[d] # "copy"
      PROVE  \E k \in DOMAIN wire' : wire'[k].call = d /\ wire'[k].tag = "fin"
  <2>1. CASE d = c
    <3>1. tag[c] = "fin"
      BY <1>2, <1>3, <2>1 DEF PlaceInv
    <3> QED
      BY <1>1, <2>1, <3>1
  <2>2. CASE d # c
    <3>1. freed[d] /\ pc[d] # "copy" /\ rawOpen
      BY <1>2, <1>3, <2>2
    <3>2. PICK k \in DOMAIN wire : wire[k].call = d /\ wire[k].tag = "fin"
      BY <3>1 DEF FreedIsEnded
    <3>3. k \in DOMAIN wire' /\ wire'[k] = wire[k]
      BY <1>1, <3>2
    <3> QED
      BY <3>2, <3>3
  <2> QED
    BY <2>1, <2>2
<1> QED
  BY <1>3 DEF FreedIsEnded

\* Writing a frame keeps the next holder of a released id silent.
LEMMA HandOverCopy ==
  ASSUME TypeOK, PlaceInv, LockInv, HandOver, NEW c \in Calls, CopyFrame(c)
  PROVE  HandOver'
<1> DEFINE n == Len(wire)
<1>1. /\ n \in Nat
      /\ DOMAIN wire = 1 .. n
      /\ DOMAIN wire' = 1 .. n + 1
      /\ \A i \in 1 .. n : wire'[i] = wire[i] /\ wire[i].call \in Calls
      /\ wire'[n + 1].call = c
      /\ wire'[n + 1].sid = sid[c]
      /\ wire'[n + 1].tag = "fin" <=> tag[c] = "fin"
  BY CopyFacts, FrameFacts
<1>2. /\ pc[c] = "copy" /\ rawOpen
      /\ \A d \in Calls : d # c => pc'[d] = pc[d]
      /\ pc'[c] \in {"frame", "closeUpdate", "done"}
      /\ tag[c] # "more" => pc'[c] \in {"closeUpdate", "done"}
      /\ UNCHANGED <<streamable, rawOpen, kind, sid, tag, freed>>
  BY CopyFacts
<1> HIDE DEF n
<1>3. ASSUME NEW d \in Calls, NEW e \in Calls,
             freed'[d], pc'[d] = "copy", Holds(e)', sid'[e] = sid'[d],
             NEW i \in DOMAIN wire', wire'[i].call = e
      PROVE  FALSE
  <2>1. freed[d] /\ pc[d] = "copy" /\ Holds(e) /\ sid[e] = sid[d] /\ d # c
    BY <1>2, <1>3 DEF Holds
  <2>2. e # c
    <3>1. Critical(d) /\ sid[d] # 0
      BY <2>1 DEF PlaceInv, Critical, Streamlize, Holds, StreamIds
    <3>2. ~Critical(c)
      BY <2>1, <3>1 DEF LockInv
    <3>3. ~Streamlize(c)
      BY <1>2, <3>2 DEF Critical, Streamlize
    <3>4. sid[c] = 0
      BY <3>3 DEF PlaceInv
    <3> QED
      BY <2>1, <3>1, <3>4
  <2>3. i \in DOMAIN wire /\ wire[i].call = e
    BY <1>1, <1>3, <2>2
  <2> QED
    BY <2>1, <2>3 DEF HandOver
<1> QED
  BY <1>3, Zenon DEF HandOver

\* On a plain connection a frame is written only when all others are finished.
LEMMA PlainCopy ==
  ASSUME TypeOK, PlaceInv, LockInv, WireInv, PlainInv, NEW c \in Calls, CopyFrame(c)
  PROVE  PlainInv'
<1> DEFINE n == Len(wire)
<1>1. /\ n \in Nat
      /\ DOMAIN wire = 1 .. n
      /\ DOMAIN wire' = 1 .. n + 1
      /\ \A i \in 1 .. n : wire'[i] = wire[i] /\ wire[i].call \in Calls
      /\ wire'[n + 1].call = c
      /\ wire'[n + 1].sid = sid[c]
      /\ wire'[n + 1].tag = "fin" <=> tag[c] = "fin"
  BY CopyFacts, FrameFacts
<1>2. /\ pc[c] = "copy" /\ rawOpen
      /\ \A d \in Calls : d # c => pc'[d] = pc[d]
      /\ pc'[c] \in {"frame", "closeUpdate", "done"}
      /\ tag[c] # "more" => pc'[c] \in {"closeUpdate", "done"}
      /\ UNCHANGED <<streamable, rawOpen, kind, sid, tag, freed>>
  BY CopyFacts
<1> HIDE DEF n
<1>3. ASSUME ~streamable, NEW i \in DOMAIN wire', NEW j \in DOMAIN wire',
             i < j, wire'[i].call # wire'[j].call
      PROVE  pc'[wire'[i].call] \in {"closeUpdate", "done"}
  <2>1. i \in 1 .. n /\ wire'[i] = wire[i] /\ wire[i].call \in Calls
    BY <1>1, <1>3
  <2>2. CASE j \in 1 .. n
    <3>1. Finished(wire[i].call)
      BY <1>1, <1>3, <2>1, <2>2 DEF PlainInv
    <3> QED
      BY <1>2, <2>1, <3>1 DEF Finished
  <2>3. CASE j = n + 1
    <3>1. wire[i].call # c
      BY <1>1, <1>3, <2>1, <2>3
    <3>2. ~Critical(wire[i].call)
      BY <1>2, <1>3, <2>1, <3>1 DEF LockInv, Critical
    <3>3. pc[wire[i].call] \notin {"idle", "patchMsg", "writeLock"}
      BY <1>1, <2>1 DEF WireInv
    <3>4. pc[wire[i].call] \in {"closeUpdate", "done"}
      BY <1>3, <2>1, <3>2, <3>3 DEF Critical, PlaceInv, Streamlize, TypeOK, Labels
    <3> QED
      BY <1>2, <2>1, <3>1, <3>4
  <2> QED
    BY <1>1, <1>3, <2>2, <2>3
<1> QED
  BY <1>2, <1>3 DEF PlainInv, Finished

\* Every step keeps WireInv.
LEMMA WireStep ==
  ASSUME TypeOK, WireInv, [Next]_vars
  PROVE  WireInv'
<1> USE FrameFacts
<1> USE SenderAssumption
      DEF TypeOK, WireInv, Finished, Streamlize, IsControl, StreamIds, Labels,
          Kinds, Tags, Goto, env, ids, locks, local
<1>1. ASSUME NEW c \in Calls, NEW k \in Kinds, Begin(c, k) PROVE WireInv'
  BY <1>1 DEF Begin
<1>2. ASSUME NEW c \in Calls, NEW s \in StreamIds, TakeStreamId(c, s) PROVE WireInv'
  BY <1>2 DEF TakeStreamId
<1>3. ASSUME NEW c \in Calls, NEW s \in StreamIds, StreamIdsSpent(c, s) PROVE WireInv'
  BY <1>3 DEF StreamIdsSpent
<1>4. ASSUME NEW c \in Calls, LockMessage(c) PROVE WireInv'
  BY <1>4 DEF LockMessage
<1>5. ASSUME NEW c \in Calls, NEW t \in Tags, SpawnFrame(c, t) PROVE WireInv'
  BY <1>5 DEF SpawnFrame
<1>6. ASSUME NEW c \in Calls, RefuseFrame(c) PROVE WireInv'
  BY <1>6 DEF RefuseFrame, Return
<1>7. ASSUME NEW c \in Calls, LockFrame(c) PROVE WireInv'
  BY <1>7 DEF LockFrame
<1>8. ASSUME NEW c \in Calls, ReleaseStreamId(c) PROVE WireInv'
  BY <1>8 DEF ReleaseStreamId
<1>9. ASSUME NEW c \in Calls, CopyFrame(c) PROVE WireInv'
  BY <1>9, WireCopy
<1>10. ASSUME NEW c \in Calls, CopyError(c) PROVE WireInv'
  BY <1>10 DEF CopyError, Return
<1>11. ASSUME NEW c \in Calls, CloseUpdate(c) PROVE WireInv'
  BY <1>11 DEF CloseUpdate
<1>12. ASSUME NEW s \in {"Ready", "Closed", "Timeout"}, UpdateStatus(s) PROVE WireInv'
  BY <1>12 DEF UpdateStatus
<1>13. CASE CloseRaw
  BY <1>13 DEF CloseRaw
<1>14. CASE UNCHANGED vars
  BY <1>14 DEF vars
<1> HIDE DEF TypeOK, WireInv, Finished, Streamlize, IsControl, StreamIds, Labels,
          Kinds, Tags
<1> QED
  BY <1>1, <1>2, <1>3, <1>4, <1>5, <1>6, <1>7, <1>8, <1>9, <1>10, <1>11,
     <1>12, <1>13, <1>14 DEF Next, Step

\* Every step keeps FinIsLast.
LEMMA FinIsLastStep ==
  ASSUME TypeOK, WireInv, FinIsLast, [Next]_vars
  PROVE  FinIsLast'
<1> USE FrameFacts
<1> USE SenderAssumption
      DEF TypeOK, FinIsLast, WireInv, Finished, Streamlize, IsControl, StreamIds,
          Labels, Kinds, Tags, Goto, env, ids, locks, local
<1>1. ASSUME NEW c \in Calls, NEW k \in Kinds, Begin(c, k) PROVE FinIsLast'
  BY <1>1 DEF Begin
<1>2. ASSUME NEW c \in Calls, NEW s \in StreamIds, TakeStreamId(c, s) PROVE FinIsLast'
  BY <1>2 DEF TakeStreamId
<1>3. ASSUME NEW c \in Calls, NEW s \in StreamIds, StreamIdsSpent(c, s) PROVE FinIsLast'
  BY <1>3 DEF StreamIdsSpent
<1>4. ASSUME NEW c \in Calls, LockMessage(c) PROVE FinIsLast'
  BY <1>4 DEF LockMessage
<1>5. ASSUME NEW c \in Calls, NEW t \in Tags, SpawnFrame(c, t) PROVE FinIsLast'
  BY <1>5 DEF SpawnFrame
<1>6. ASSUME NEW c \in Calls, RefuseFrame(c) PROVE FinIsLast'
  BY <1>6 DEF RefuseFrame, Return
<1>7. ASSUME NEW c \in Calls, LockFrame(c) PROVE FinIsLast'
  BY <1>7 DEF LockFrame
<1>8. ASSUME NEW c \in Calls, ReleaseStreamId(c) PROVE FinIsLast'
  BY <1>8 DEF ReleaseStreamId
<1>9. ASSUME NEW c \in Calls, CopyFrame(c) PROVE FinIsLast'
  BY <1>9, FinIsLastCopy
<1>10. ASSUME NEW c \in Calls, CopyError(c) PROVE FinIsLast'
  BY <1>10 DEF CopyError, Return
<1>11. ASSUME NEW c \in Calls, CloseUpdate(c) PROVE FinIsLast'
  BY <1>11 DEF CloseUpdate
<1>12. ASSUME NEW s \in {"Ready", "Closed", "Timeout"}, UpdateStatus(s) PROVE FinIsLast'
  BY <1>12 DEF UpdateStatus
<1>13. CASE CloseRaw
  BY <1>13 DEF CloseRaw
<1>14. CASE UNCHANGED vars
  BY <1>14 DEF vars
<1> HIDE DEF TypeOK, FinIsLast, WireInv, Finished, Streamlize, IsControl,
          StreamIds, Labels, Kinds, Tags
<1> QED
  BY <1>1, <1>2, <1>3, <1>4, <1>5, <1>6, <1>7, <1>8, <1>9, <1>10, <1>11,
     <1>12, <1>13, <1>14 DEF Next, Step

\* Every step keeps FreedIsEnded.
LEMMA FreedIsEndedStep ==
  ASSUME TypeOK, PlaceInv, FreedIsEnded, [Next]_vars
  PROVE  FreedIsEnded'
<1> USE FrameFacts
<1> USE SenderAssumption
      DEF TypeOK, FreedIsEnded, PlaceInv, Streamlize, IsControl, StreamIds, Labels,
          Kinds, Tags, Goto, env, ids, locks, local
<1>1. ASSUME NEW c \in Calls, NEW k \in Kinds, Begin(c, k) PROVE FreedIsEnded'
  BY <1>1 DEF Begin
<1>2. ASSUME NEW c \in Calls, NEW s \in StreamIds, TakeStreamId(c, s) PROVE FreedIsEnded'
  BY <1>2 DEF TakeStreamId
<1>3. ASSUME NEW c \in Calls, NEW s \in StreamIds, StreamIdsSpent(c, s) PROVE FreedIsEnded'
  BY <1>3 DEF StreamIdsSpent
<1>4. ASSUME NEW c \in Calls, LockMessage(c) PROVE FreedIsEnded'
  BY <1>4 DEF LockMessage
<1>5. ASSUME NEW c \in Calls, NEW t \in Tags, SpawnFrame(c, t) PROVE FreedIsEnded'
  BY <1>5 DEF SpawnFrame
<1>6. ASSUME NEW c \in Calls, RefuseFrame(c) PROVE FreedIsEnded'
  BY <1>6 DEF RefuseFrame, Return
<1>7. ASSUME NEW c \in Calls, LockFrame(c) PROVE FreedIsEnded'
  BY <1>7 DEF LockFrame
<1>8. ASSUME NEW c \in Calls, ReleaseStreamId(c) PROVE FreedIsEnded'
  BY <1>8 DEF ReleaseStreamId
<1>9. ASSUME NEW c \in Calls, CopyFrame(c) PROVE FreedIsEnded'
  BY <1>9, FreedIsEndedCopy
<1>10. ASSUME NEW c \in Calls, CopyError(c) PROVE FreedIsEnded'
  BY <1>10 DEF CopyError, Return
<1>11. ASSUME NEW c \in Calls, CloseUpdate(c) PROVE FreedIsEnded'
  BY <1>11 DEF CloseUpdate
<1>12. ASSUME NEW s \in {"Ready", "Closed", "Timeout"}, UpdateStatus(s) PROVE FreedIsEnded'
  BY <1>12 DEF UpdateStatus
<1>13. CASE CloseRaw
  BY <1>13 DEF CloseRaw
<1>14. CASE UNCHANGED vars
  BY <1>14 DEF vars
<1> HIDE DEF TypeOK, FreedIsEnded, PlaceInv, Streamlize, IsControl, StreamIds,
          Labels, Kinds, Tags
<1> QED
  BY <1>1, <1>2, <1>3, <1>4, <1>5, <1>6, <1>7, <1>8, <1>9, <1>10, <1>11,
     <1>12, <1>13, <1>14 DEF Next, Step

\* Every step keeps HandOver.
LEMMA HandOverStep ==
  ASSUME TypeOK, PlaceInv, LockInv, IdInv, WireInv, HandOver, [Next]_vars
  PROVE  HandOver'
<1> USE FrameFacts
<1> USE SenderAssumption
      DEF TypeOK, HandOver, PlaceInv, WireInv, LockInv, IdInv, Critical, Holds,
          Streamlize, IsControl, StreamIds, Labels, Kinds, Tags, Goto, env, ids,
          locks, local
<1>1. ASSUME NEW c \in Calls, NEW k \in Kinds, Begin(c, k) PROVE HandOver'
  BY <1>1 DEF Begin
<1>2. ASSUME NEW c \in Calls, NEW s \in StreamIds, TakeStreamId(c, s) PROVE HandOver'
  BY <1>2 DEF TakeStreamId
<1>3. ASSUME NEW c \in Calls, NEW s \in StreamIds, StreamIdsSpent(c, s) PROVE HandOver'
  BY <1>3 DEF StreamIdsSpent
<1>4. ASSUME NEW c \in Calls, LockMessage(c) PROVE HandOver'
  BY <1>4 DEF LockMessage
<1>5. ASSUME NEW c \in Calls, NEW t \in Tags, SpawnFrame(c, t) PROVE HandOver'
  BY <1>5 DEF SpawnFrame
<1>6. ASSUME NEW c \in Calls, RefuseFrame(c) PROVE HandOver'
  BY <1>6 DEF RefuseFrame, Return
<1>7. ASSUME NEW c \in Calls, LockFrame(c) PROVE HandOver'
  BY <1>7 DEF LockFrame
<1>8. ASSUME NEW c \in Calls, ReleaseStreamId(c) PROVE HandOver'
  BY <1>8 DEF ReleaseStreamId
<1>9. ASSUME NEW c \in Calls, CopyFrame(c) PROVE HandOver'
  BY <1>9, HandOverCopy
<1>10. ASSUME NEW c \in Calls, CopyError(c) PROVE HandOver'
  BY <1>10 DEF CopyError, Return
<1>11. ASSUME NEW c \in Calls, CloseUpdate(c) PROVE HandOver'
  BY <1>11 DEF CloseUpdate
<1>12. ASSUME NEW s \in {"Ready", "Closed", "Timeout"}, UpdateStatus(s) PROVE HandOver'
  BY <1>12 DEF UpdateStatus
<1>13. CASE CloseRaw
  BY <1>13 DEF CloseRaw
<1>14. CASE UNCHANGED vars
  BY <1>14 DEF vars
<1> HIDE DEF TypeOK, HandOver, PlaceInv, WireInv, LockInv, IdInv, Critical, Holds,
          Streamlize, IsControl, StreamIds, Labels, Kinds, Tags
<1> QED
  BY <1>1, <1>2, <1>3, <1>4, <1>5, <1>6, <1>7, <1>8, <1>9, <1>10, <1>11,
     <1>12, <1>13, <1>14 DEF Next, Step

\* Every step keeps PlainInv.
LEMMA PlainStep ==
  ASSUME TypeOK, PlaceInv, LockInv, WireInv, PlainInv, [Next]_vars
  PROVE  PlainInv'
<1> USE FrameFacts
<1> USE SenderAssumption
      DEF TypeOK, PlainInv, PlaceInv, WireInv, LockInv, Critical, Finished,
          Streamlize, IsControl, StreamIds, Labels, Kinds, Tags, Goto, env, ids,
          locks, local
<1>1. ASSUME NEW c \in Calls, NEW k \in Kinds, Begin(c, k) PROVE PlainInv'
  BY <1>1 DEF Begin
<1>2. ASSUME NEW c \in Calls, NEW s \in StreamIds, TakeStreamId(c, s) PROVE PlainInv'
  BY <1>2 DEF TakeStreamId
<1>3. ASSUME NEW c \in Calls, NEW s \in StreamIds, StreamIdsSpent(c, s) PROVE PlainInv'
  BY <1>3 DEF StreamIdsSpent
<1>4. ASSUME NEW c \in Calls, LockMessage(c) PROVE PlainInv'
  BY <1>4 DEF LockMessage
<1>5. ASSUME NEW c \in Calls, NEW t \in Tags, SpawnFrame(c, t) PROVE PlainInv'
  BY <1>5 DEF SpawnFrame
<1>6. ASSUME NEW c \in Calls, RefuseFrame(c) PROVE PlainInv'
  BY <1>6 DEF RefuseFrame, Return
<1>7. ASSUME NEW c \in Calls, LockFrame(c) PROVE PlainInv'
  BY <1>7 DEF LockFrame
<1>8. ASSUME NEW c \in Calls, ReleaseStreamId(c) PROVE PlainInv'
  BY <1>8 DEF ReleaseStreamId
<1>9. ASSUME NEW c \in Calls, CopyFrame(c) PROVE PlainInv'
  BY <1>9, PlainCopy
<1>10. ASSUME NEW c \in Calls, CopyError(c) PROVE PlainInv'
  BY <1>10 DEF CopyError, Return
<1>11. ASSUME NEW c \in Calls, CloseUpdate(c) PROVE PlainInv'
  BY <1>11 DEF CloseUpdate
<1>12. ASSUME NEW s \in {"Ready", "Closed", "Timeout"}, UpdateStatus(s) PROVE PlainInv'
  BY <1>12 DEF UpdateStatus
<1>13. CASE CloseRaw
  BY <1>13 DEF CloseRaw
<1>14. CASE UNCHANGED vars
  BY <1>14 DEF vars
<1> HIDE DEF TypeOK, PlainInv, PlaceInv, WireInv, LockInv, Critical, Finished,
          Streamlize, IsControl, StreamIds, Labels, Kinds, Tags
<1> QED
  BY <1>1, <1>2, <1>3, <1>4, <1>5, <1>6, <1>7, <1>8, <1>9, <1>10, <1>11,
     <1>12, <1>13, <1>14 DEF Next, Step

-----------------------------------------------------------------------------
\* The strengthening SenderInv is an invariant: it holds at the start and every
\* step of any call, of the rest of the connection or of the peer keeps it.
THEOREM SenderInvariant == Spec => [](TypeOK /\ SenderInv)
<1>1. Init => SenderInv
  <2> SUFFICES ASSUME Init PROVE SenderInv
    OBVIOUS
  <2>1. LockInv /\ PlaceInv
    BY SenderAssumption DEF Init, LockInv, Critical, PlaceInv, Streamlize
  <2>2. IdInv /\ FreedIsEnded /\ HandOver
    BY SenderAssumption DEF Init, IdInv, FreedIsEnded, HandOver, Holds, StreamIds
  <2>3. WireInv /\ FinIsLast /\ PlainInv
    BY DEF Init, WireInv, FinIsLast, PlainInv
  <2> QED
    BY <2>1, <2>2, <2>3 DEF SenderInv
<1>2. TypeOK /\ SenderInv /\ [Next]_vars => SenderInv'
  BY LockStep, PlaceStep, IdStep, WireStep, FinIsLastStep, FreedIsEndedStep,
     HandOverStep, PlainStep
  DEF SenderInv
<1> QED
  BY <1>1, <1>2, SenderTypeOK, PTL DEF Spec

\* inUseStreams holds exactly the ids of the calls that have not given theirs
\* back, each held by one call (patchMsg and writeSingleFrame).
THEOREM InUseIsExactTheorem == Spec => []InUseIsExact
<1>1. TypeOK /\ SenderInv => InUseIsExact
  BY DEF SenderInv, IdInv, InUseIsExact
<1> QED
  BY <1>1, SenderInvariant, PTL

\* Only CopyFrame writes, and the handshake's choice never changes.
LEMMA WireGrows ==
  ASSUME [Next]_vars
  PROVE  /\ streamable' = streamable
         /\ wire' = wire \/ \E c \in Calls : CopyFrame(c)
BY DEF Next, Step, Begin, TakeStreamId, StreamIdsSpent, LockMessage, SpawnFrame,
       RefuseFrame, LockFrame, ReleaseStreamId, CopyFrame, CopyError, CloseUpdate,
       UpdateStatus, CloseRaw, vars, env

\* If a frame of d precedes the frame c is about to write on the same stream, then
\* d has given the id back and its final frame is on the wire.
LEMMA EarlierHolderEnded ==
  ASSUME TypeOK, SenderInv, NEW c \in Calls, CopyFrame(c),
         NEW i \in DOMAIN wire, wire[i].call # c,
         wire[i].sid = sid[c], sid[c] \in StreamIds
  PROVE  \E k \in DOMAIN wire : k >= i /\ wire[k].call = wire[i].call /\ wire[k].tag = "fin"
<1> DEFINE d == wire[i].call
<1>1. d \in Calls /\ sid[d] = sid[c] /\ pc[c] = "copy" /\ rawOpen
  BY FrameFacts, CopyFacts DEF SenderInv, WireInv
<1>2. Streamlize(c) /\ Streamlize(d)
  BY <1>1, SenderAssumption DEF SenderInv, PlaceInv, StreamIds
<1>3. writeLock = c
  BY <1>1, <1>2 DEF SenderInv, LockInv, Critical, Streamlize
<1>4. pc[d] # "copy"
  BY <1>1, <1>2, <1>3 DEF SenderInv, LockInv, Critical, Streamlize
<1>5. freed[d]
  <2>1. CASE Holds(c)
    BY <1>1, <2>1 DEF SenderInv, IdInv, Holds, TypeOK
  <2>2. CASE freed[c]
    BY <1>1, <2>2 DEF SenderInv, HandOver, Holds, TypeOK
  <2> QED
    BY <2>1, <2>2 DEF Holds, TypeOK
<1>6. PICK k \in DOMAIN wire : wire[k].call = d /\ wire[k].tag = "fin"
  BY <1>1, <1>4, <1>5 DEF SenderInv, FreedIsEnded
<1>7. k >= i
  BY <1>6, FrameFacts DEF SenderInv, FinIsLast
<1> QED
  BY <1>6, <1>7

\* Frames of two messages on one stream never interleave, for every number of
\* concurrent Dispatch and DispatchReader calls and every MaxStreams.
THEOREM StreamIdExclusiveTheorem == Spec => []StreamIdExclusive
<1>1. Init => StreamIdExclusive
  BY DEF Init, StreamIdExclusive
<1>2. TypeOK /\ SenderInv /\ StreamIdExclusive /\ [Next]_vars => StreamIdExclusive'
  <2> SUFFICES ASSUME TypeOK, SenderInv, StreamIdExclusive, [Next]_vars
               PROVE  StreamIdExclusive'
    OBVIOUS
  <2>1. CASE wire' = wire
    BY <2>1 DEF StreamIdExclusive, StreamIds
  <2>2. ASSUME NEW c \in Calls, CopyFrame(c) PROVE StreamIdExclusive'
    <3> DEFINE n == Len(wire)
    <3>1. /\ n \in Nat
          /\ DOMAIN wire = 1 .. n
          /\ DOMAIN wire' = 1 .. n + 1
          /\ \A i \in 1 .. n : wire'[i] = wire[i]
          /\ wire'[n + 1].call = c
          /\ wire'[n + 1].sid = sid[c]
      BY <2>2, CopyFacts
    <3> HIDE DEF n
    <3>2. ASSUME NEW i \in DOMAIN wire', NEW j \in DOMAIN wire', i < j,
                 wire'[i].sid = wire'[j].sid, wire'[i].sid \in StreamIds,
                 wire'[i].call # wire'[j].call
          PROVE  \E k \in i .. j - 1 :
                   wire'[k].call = wire'[i].call /\ wire'[k].tag = "fin"
      <4>1. i \in 1 .. n /\ wire'[i] = wire[i]
        BY <3>1, <3>2
      <4>2. CASE j \in 1 .. n
        <5>1. wire'[j] = wire[j]
          BY <3>1, <4>2
        <5>2. PICK k \in i .. j - 1 : wire[k].call = wire[i].call /\ wire[k].tag = "fin"
          BY <3>1, <3>2, <4>1, <4>2, <5>1 DEF StreamIdExclusive
        <5>3. wire'[k] = wire[k]
          BY <3>1, <4>1, <4>2, <5>2
        <5> QED
          BY <4>1, <5>2, <5>3
      <4>3. CASE j = n + 1
        <5>1. wire[i].call # c /\ wire[i].sid = sid[c] /\ sid[c] \in StreamIds
          BY <3>1, <3>2, <4>1, <4>3
        <5>2. PICK k \in DOMAIN wire :
                k >= i /\ wire[k].call = wire[i].call /\ wire[k].tag = "fin"
          BY <2>2, <3>1, <4>1, <5>1, EarlierHolderEnded
        <5>3. k \in i .. j - 1 /\ wire'[k] = wire[k]
          BY <3>1, <4>1, <4>3, <5>2
        <5> QED
          BY <4>1, <5>2, <5>3
      <4> QED
        BY <3>1, <3>2, <4>2, <4>3
    <3> QED
      BY <3>2 DEF StreamIdExclusive, StreamIds
  <2> QED
    BY <2>1, <2>2, WireGrows
<1> QED
  BY <1>1, <1>2, SenderInvariant, PTL DEF Spec

\* Without streams the frames of each message are contiguous on the wire, for
\* every number of concurrent calls.
THEOREM OneMessageAtATimeTheorem == Spec => []OneMessageAtATime
<1>1. Init => OneMessageAtATime
  BY DEF Init, OneMessageAtATime
<1>2. /\ TypeOK /\ SenderInv /\ SenderInv' /\ OneMessageAtATime /\ [Next]_vars
      => OneMessageAtATime'
  <2> SUFFICES ASSUME TypeOK, SenderInv, SenderInv', OneMessageAtATime, [Next]_vars
               PROVE  OneMessageAtATime'
    OBVIOUS
  <2>1. CASE wire' = wire
    BY <2>1, WireGrows DEF OneMessageAtATime
  <2>2. ASSUME NEW c \in Calls, CopyFrame(c) PROVE OneMessageAtATime'
    <3> DEFINE n == Len(wire)
    <3>1. /\ n \in Nat
          /\ DOMAIN wire = 1 .. n
          /\ DOMAIN wire' = 1 .. n + 1
          /\ \A i \in 1 .. n : wire'[i] = wire[i]
          /\ wire'[n + 1].call = c
          /\ pc[c] = "copy"
          /\ streamable' = streamable
      BY <2>2, CopyFacts
    <3> HIDE DEF n
    <3>2. ASSUME ~streamable, NEW i \in DOMAIN wire', NEW j \in DOMAIN wire',
                 NEW k \in DOMAIN wire', i < j, j < k,
                 wire'[i].call = wire'[k].call, wire'[j].call # wire'[i].call
          PROVE  FALSE
      <4>1. i \in 1 .. n /\ j \in 1 .. n /\ wire'[i] = wire[i] /\ wire'[j] = wire[j]
        BY <3>1, <3>2
      <4>2. CASE k \in 1 .. n
        BY <3>1, <3>2, <4>1, <4>2 DEF OneMessageAtATime
      <4>3. CASE k = n + 1
        BY <3>1, <3>2, <4>1, <4>3 DEF SenderInv, PlainInv, Finished
      <4> QED
        BY <3>1, <3>2, <4>2, <4>3
    <3> QED
      BY <3>1, <3>2 DEF OneMessageAtATime
  <2> QED
    BY <2>1, <2>2, WireGrows
<1> QED
  BY <1>1, <1>2, SenderInvariant, PTL DEF Spec

-----------------------------------------------------------------------------
(***************************************************************************)
(* The message of a call, on the wire.  PartInv: its frames are there, all *)
(* that were sent, each once and in order.  EndInv: a frame that ends or   *)
(* cancels it is the last.  TagInv: a call that still has frames to send   *)
(* has sent none but unfinished ones.                                      *)
(***************************************************************************)
PartInv ==
  /\ \A i \in DOMAIN wire : wire[i].part \in 1 .. sent[wire[i].call]
  /\ \A c \in Calls : \A p \in 1 .. sent[c] :
       \E i \in DOMAIN wire : wire[i].call = c /\ wire[i].part = p
  /\ \A i, j \in DOMAIN wire :
       i < j /\ wire[i].call = wire[j].call => wire[i].part < wire[j].part

EndInv ==
  /\ \A i \in DOMAIN wire : wire[i].tag # "more" => Finished(wire[i].call)
  /\ \A i, j \in DOMAIN wire :
       i < j /\ wire[i].call = wire[j].call => wire[i].tag = "more"

TagInv ==
  \A c \in Calls :
    /\ pc[c] \in {"idle", "patchMsg", "writeLock"} => sent[c] = 0
    /\ pc[c] = "frame" /\ sent[c] > 0 => tag[c] = "more"

MessageInv == PartInv /\ EndInv /\ TagInv

\* The final frame of call c is on the wire.
Ended(c) == \E k \in DOMAIN wire : wire[k].call = c /\ wire[k].tag = "fin"

\* Only CopyFrame writes or counts, and no step of another kind takes a call out
\* of its final places.
LEMMA QuietFacts ==
  ASSUME TypeOK, [Next]_vars, \A c \in Calls : ~CopyFrame(c)
  PROVE  /\ UNCHANGED <<wire, sent>>
         /\ \A c \in Calls : Finished(c) => Finished(c)'
BY DEF TypeOK, Finished, Next, Step, Begin, TakeStreamId, StreamIdsSpent, LockMessage,
       SpawnFrame, RefuseFrame, LockFrame, ReleaseStreamId, CopyError, CloseUpdate,
       UpdateStatus, CloseRaw, Return, Goto, vars, env, local

\* What CopyFrame adds to CopyFacts: the number of the frame and its mark.
LEMMA CopyPart ==
  ASSUME TypeOK, NEW c \in Calls, CopyFrame(c)
  PROVE  /\ Len(wire') = Len(wire) + 1
         /\ wire'[Len(wire) + 1].part = sent[c] + 1
         /\ wire'[Len(wire) + 1].tag \in {tag[c], "more"}
         /\ sent[c] \in Nat /\ sent'[c] = sent[c] + 1
         /\ \A d \in Calls : d # c => sent'[d] = sent[d] /\ sent[d] \in Nat
<1>1. FrameInHand(c) \in Frames
  BY SenderAssumption DEF FrameInHand, Frames, TypeOK, Tags
<1>2. wire'[Len(wire) + 1] = FrameInHand(c) /\ Len(wire') = Len(wire) + 1
  BY <1>1, AppendFacts DEF TypeOK, CopyFrame
<1>3. sent' = [sent EXCEPT ![c] = @ + 1] /\ sent \in [Calls -> Nat]
  BY DEF CopyFrame, TypeOK
<1> QED BY <1>2, <1>3 DEF FrameInHand

\* Every step keeps the link between what a call has sent and where it stands.
LEMMA TagStep ==
  ASSUME TypeOK, TagInv, [Next]_vars
  PROVE  TagInv'
<1> USE SenderAssumption
      DEF TypeOK, TagInv, StreamIds, Labels, Kinds, Tags, Goto, env, ids, locks, local
<1>1. ASSUME NEW c \in Calls, NEW k \in Kinds, Begin(c, k) PROVE TagInv'
  BY <1>1 DEF Begin
<1>2. ASSUME NEW c \in Calls, NEW s \in StreamIds, TakeStreamId(c, s) PROVE TagInv'
  BY <1>2 DEF TakeStreamId
<1>3. ASSUME NEW c \in Calls, NEW s \in StreamIds, StreamIdsSpent(c, s) PROVE TagInv'
  BY <1>3 DEF StreamIdsSpent
<1>4. ASSUME NEW c \in Calls, LockMessage(c) PROVE TagInv'
  BY <1>4 DEF LockMessage
<1>5. ASSUME NEW c \in Calls, NEW t \in Tags, SpawnFrame(c, t) PROVE TagInv'
  BY <1>5 DEF SpawnFrame
<1>6. ASSUME NEW c \in Calls, RefuseFrame(c) PROVE TagInv'
  BY <1>6 DEF RefuseFrame, Return
<1>7. ASSUME NEW c \in Calls, LockFrame(c) PROVE TagInv'
  BY <1>7 DEF LockFrame
<1>8. ASSUME NEW c \in Calls, ReleaseStreamId(c) PROVE TagInv'
  BY <1>8 DEF ReleaseStreamId
<1>9. ASSUME NEW c \in Calls, CopyFrame(c) PROVE TagInv'
  BY <1>9 DEF CopyFrame, Return
<1>10. ASSUME NEW c \in Calls, CopyError(c) PROVE TagInv'
  BY <1>10 DEF CopyError, Return
<1>11. ASSUME NEW c \in Calls, CloseUpdate(c) PROVE TagInv'
  BY <1>11 DEF CloseUpdate
<1>12. ASSUME NEW s \in {"Ready", "Closed", "Timeout"}, UpdateStatus(s) PROVE TagInv'
  BY <1>12 DEF UpdateStatus
<1>13. CASE CloseRaw
  BY <1>13 DEF CloseRaw
<1>14. CASE UNCHANGED vars
  BY <1>14 DEF vars
<1> HIDE DEF TypeOK, TagInv, StreamIds, Labels, Kinds, Tags
<1> QED
  BY <1>1, <1>2, <1>3, <1>4, <1>5, <1>6, <1>7, <1>8, <1>9, <1>10, <1>11,
     <1>12, <1>13, <1>14 DEF Next, Step

\* The frame that CopyFrame writes is the next one of its message.
LEMMA PartCopy ==
  ASSUME TypeOK, PartInv, NEW c \in Calls, CopyFrame(c)
  PROVE  PartInv'
<1> DEFINE n == Len(wire)
<1>1. /\ n \in Nat
      /\ DOMAIN wire = 1 .. n
      /\ DOMAIN wire' = 1 .. n + 1
      /\ \A i \in 1 .. n : wire'[i] = wire[i] /\ wire[i].call \in Calls
      /\ wire'[n + 1].call = c
      /\ wire'[n + 1].part = sent[c] + 1
      /\ sent[c] \in Nat /\ sent'[c] = sent[c] + 1
      /\ \A d \in Calls : d # c => sent'[d] = sent[d] /\ sent[d] \in Nat
  BY CopyFacts, CopyPart, FrameFacts
<1> HIDE DEF n
<1>2. \A i \in 1 .. n : wire[i].part \in 1 .. sent[wire[i].call]
  BY <1>1 DEF PartInv
<1>3. ASSUME NEW i \in DOMAIN wire'
      PROVE  wire'[i].part \in 1 .. sent'[wire'[i].call]
  <2>1. CASE i = n + 1
    BY <1>1, <2>1
  <2>2. CASE i \in 1 .. n
    BY <1>1, <1>2, <2>2
  <2> QED BY <1>1, <2>1, <2>2
<1>4. ASSUME NEW d \in Calls, NEW p \in 1 .. sent'[d]
      PROVE  \E i \in DOMAIN wire' : wire'[i].call = d /\ wire'[i].part = p
  <2>1. CASE d = c /\ p = sent[c] + 1
    BY <1>1, <2>1
  <2>2. CASE p \in 1 .. sent[d]
    <3>1. PICK i \in DOMAIN wire : wire[i].call = d /\ wire[i].part = p
      BY <2>2 DEF PartInv
    <3> QED BY <1>1, <3>1
  <2> QED BY <1>1, <2>1, <2>2
<1>5. ASSUME NEW i \in DOMAIN wire', NEW j \in DOMAIN wire', i < j,
             wire'[i].call = wire'[j].call
      PROVE  wire'[i].part < wire'[j].part
  <2>1. i \in 1 .. n
    BY <1>1, <1>5
  <2>2. CASE j = n + 1
    BY <1>1, <1>2, <1>5, <2>1, <2>2
  <2>3. CASE j \in 1 .. n
    BY <1>1, <1>5, <2>1, <2>3 DEF PartInv
  <2> QED BY <1>1, <2>2, <2>3
<1> QED BY <1>3, <1>4, <1>5 DEF PartInv

\* A call that has ended or cancelled its message writes no more.
LEMMA EndCopy ==
  ASSUME TypeOK, EndInv, NEW c \in Calls, CopyFrame(c)
  PROVE  EndInv'
<1> DEFINE n == Len(wire)
<1>1. /\ n \in Nat
      /\ DOMAIN wire = 1 .. n
      /\ DOMAIN wire' = 1 .. n + 1
      /\ \A i \in 1 .. n : wire'[i] = wire[i] /\ wire[i].call \in Calls
      /\ wire'[n + 1].call = c
      /\ wire'[n + 1].tag \in {tag[c], "more"}
  BY CopyFacts, CopyPart, FrameFacts
<1>2. /\ pc[c] = "copy"
      /\ \A d \in Calls : d # c => pc'[d] = pc[d]
      /\ tag[c] # "more" => pc'[c] \in {"closeUpdate", "done"}
  BY CopyFacts
<1> HIDE DEF n
<1>3. \A i \in 1 .. n : wire[i].call = c => wire[i].tag = "more"
  BY <1>1, <1>2 DEF EndInv, Finished
<1>4. ASSUME NEW i \in DOMAIN wire', wire'[i].tag # "more"
      PROVE  pc'[wire'[i].call] \in {"closeUpdate", "done"}
  <2>1. CASE i = n + 1
    BY <1>1, <1>2, <1>4, <2>1
  <2>2. CASE i \in 1 .. n
    <3>1. wire[i].call # c /\ pc[wire[i].call] \in {"closeUpdate", "done"}
      BY <1>1, <1>3, <1>4, <2>2 DEF EndInv, Finished
    <3> QED BY <1>1, <1>2, <2>2, <3>1
  <2> QED BY <1>1, <2>1, <2>2
<1>5. ASSUME NEW i \in DOMAIN wire', NEW j \in DOMAIN wire', i < j,
             wire'[i].call = wire'[j].call
      PROVE  wire'[i].tag = "more"
  <2>1. i \in 1 .. n
    BY <1>1, <1>5
  <2>2. CASE j = n + 1
    BY <1>1, <1>3, <1>5, <2>1, <2>2
  <2>3. CASE j \in 1 .. n
    BY <1>1, <1>5, <2>1, <2>3 DEF EndInv
  <2> QED BY <1>1, <2>2, <2>3
<1> QED BY <1>4, <1>5 DEF EndInv, Finished

(***************************************************************************)
(* Whatever the calls do at the same time, the wire holds a gapless prefix *)
(* of the frames of each message, each once and in order, and nothing of   *)
(* it follows its final or its cancelling frame.                           *)
(***************************************************************************)
THEOREM MessageInvariant == Spec => [](TypeOK /\ MessageInv)
<1>1. Init => MessageInv
  BY DEF Init, MessageInv, PartInv, EndInv, TagInv
<1>2. TypeOK /\ MessageInv /\ [Next]_vars => MessageInv'
  <2> SUFFICES ASSUME TypeOK, MessageInv, [Next]_vars PROVE MessageInv'
    OBVIOUS
  <2>1. TagInv'
    BY TagStep DEF MessageInv
  <2>2. ASSUME NEW c \in Calls, CopyFrame(c) PROVE PartInv' /\ EndInv'
    BY <2>2, PartCopy, EndCopy DEF MessageInv
  <2>3. CASE \A c \in Calls : ~CopyFrame(c)
    <3>1. /\ wire' = wire /\ sent' = sent
          /\ \A c \in Calls : Finished(c) => Finished(c)'
          /\ \A i \in DOMAIN wire : wire[i].call \in Calls
      BY <2>3, QuietFacts, FrameFacts
    <3> QED BY <2>1, <3>1 DEF MessageInv, PartInv, EndInv
  <2> QED BY <2>1, <2>2, <2>3 DEF MessageInv
<1> QED
  BY <1>1, <1>2, SenderTypeOK, PTL DEF Spec
=============================================================================

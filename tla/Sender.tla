------------------------------- MODULE Sender -------------------------------
(***************************************************************************)
(* The sending half of a webson connection: Dispatch, DispatchReader and   *)
(* CloseWithCode called by any number of goroutines at once, down to the   *)
(* Write calls on the raw connection.                                      *)
(*                                                                         *)
(* Each element of Calls is one invocation.  A streamable connection gives *)
(* every data message a stream id and locks writeLock frame by frame; a    *)
(* plain one locks writeLock for a whole message.  Control frames of a     *)
(* streamable connection are written with no lock at all.                  *)
(*                                                                         *)
(* One action is one stretch of code between two points where another      *)
(* goroutine can interfere: the acquisition of a mutex, the unlocked read  *)
(* of con.status, the Write on the raw connection.  Payloads are left out: *)
(* a frame is known by the call that wrote it, its stream id, its number   *)
(* in the message and what its header says of the end of the message.      *)
(***************************************************************************)
EXTENDS Naturals, Sequences, FiniteSets

CONSTANTS Calls,       \* invocations of Dispatch, DispatchReader, CloseWithCode
          NoCall,      \* the owner of a mutex nobody holds
          MaxStreams,  \* bound: the largest con.config.MaxStreams
          MaxChunks    \* bound: frames in one message

ASSUME SenderAssumption ==
  /\ MaxStreams \in Nat \ {0}
  /\ MaxChunks \in Nat \ {0}
  /\ NoCall \notin Calls

VARIABLES
  streamable,     \* negoSet.streamable, fixed by the handshake
  maxStreams,     \* con.config.MaxStreams
  status,         \* con.status
  rawOpen,        \* a Write on con.rawConnection still succeeds
  lastStream,     \* con.lastStream
  inUseStreams,   \* con.inUseStreams
  streamIdLock,   \* owner of con.streamIdLock between two actions
  writeLock,      \* owner of con.writeLock
  pc,             \* where each call stands
  kind,           \* "payload" (Dispatch), "reader" (DispatchReader),
                  \* "control" (Dispatch of a control type), "close" (CloseWithCode)
  sid,            \* m.send.streamId, 0 when patchMsg gave none
  tag,            \* the frame in hand: "more", "fin" or "cancel"
  sent,           \* frames of the call that are on the wire
  freed,          \* history: the call has deleted its id from inUseStreams
  wire            \* history: the frames written, in the order of the Writes

locks == <<streamIdLock, writeLock>>
ids   == <<lastStream, inUseStreams>>
local == <<kind, sid, tag, sent, freed>>
env   == <<streamable, maxStreams, status, rawOpen>>
vars  == <<env, ids, locks, pc, local, wire>>

StreamIds == 1 .. MaxStreams
Statuses  == {"YetReady", "Ready", "Closed", "Timeout"}
Kinds     == {"payload", "reader", "control", "close"}
Tags      == {"more", "fin", "cancel"}
Labels    == {"idle", "patchMsg", "writeLock", "frame", "streamLock",
              "release", "copy", "closeUpdate", "done"}
Frames    == [call : Calls, sid : 0 .. MaxStreams, part : Nat, tag : Tags]

TypeOK ==
  /\ streamable \in BOOLEAN
  /\ maxStreams \in StreamIds
  /\ status \in Statuses
  /\ rawOpen \in BOOLEAN
  /\ lastStream \in 0 .. MaxStreams
  /\ inUseStreams \subseteq StreamIds
  /\ streamIdLock \in Calls \cup {NoCall}
  /\ writeLock \in Calls \cup {NoCall}
  /\ pc \in [Calls -> Labels]
  /\ kind \in [Calls -> Kinds]
  /\ sid \in [Calls -> 0 .. MaxStreams]
  /\ tag \in [Calls -> Tags]
  /\ sent \in [Calls -> Nat]
  /\ freed \in [Calls -> BOOLEAN]
  /\ wire \in Seq(Frames)

IsControl(c)  == kind[c] \in {"control", "close"}
Streamlize(c) == streamable /\ ~IsControl(c)

Init ==
  /\ streamable \in BOOLEAN
  /\ maxStreams \in StreamIds
  /\ ~streamable => maxStreams = MaxStreams  \* nothing looks at it then
  /\ status = "YetReady"
  /\ rawOpen = TRUE
  /\ lastStream = 0
  /\ inUseStreams = {}
  /\ streamIdLock = NoCall
  /\ writeLock = NoCall
  /\ pc = [c \in Calls |-> "idle"]
  /\ kind = [c \in Calls |-> "control"]
  /\ sid = [c \in Calls |-> 0]
  /\ tag = [c \in Calls |-> "fin"]
  /\ sent = [c \in Calls |-> 0]
  /\ freed = [c \in Calls |-> FALSE]
  /\ wire = << >>

Goto(c, label) == pc' = [pc EXCEPT ![c] = label]

(***************************************************************************)
(* The call returns, with or without an error: the deferred Unlock of      *)
(* writeLock runs, and CloseWithCode goes on to closeUpdate whatever       *)
(* Dispatch returned.                                                      *)
(***************************************************************************)
Return(c) ==
  /\ Goto(c, IF kind[c] = "close" THEN "closeUpdate" ELSE "done")
  /\ writeLock' = IF writeLock = c THEN NoCall ELSE writeLock

-----------------------------------------------------------------------------
\* Seeded fault: a control frame never takes writeLock, on a plain connection too.
BeginControlUnlocked(c, k) ==
  /\ pc[c] = "idle"
  /\ kind' = [kind EXCEPT ![c] = k]
  /\ Goto(c, IF k \in {"control", "close"} THEN "frame"
             ELSE IF streamable THEN "patchMsg" ELSE "writeLock")
  /\ UNCHANGED <<env, ids, locks, sid, tag, sent, freed, wire>>

\* A goroutine calls Dispatch, DispatchReader or CloseWithCode.
Begin(c, k) ==
  /\ pc[c] = "idle"
  /\ kind' = [kind EXCEPT ![c] = k]
  /\ Goto(c, IF ~streamable THEN "writeLock"
             ELSE IF k \in {"control", "close"} THEN "frame" ELSE "patchMsg")
  /\ UNCHANGED <<env, ids, locks, sid, tag, sent, freed, wire>>

(***************************************************************************)
(* The id where the search of patchMsg stops: the first free one after     *)
(* lastStream, or 1, free or not, when there is none up to maxStreams.     *)
(***************************************************************************)
FreeAhead == {s \in 1 .. maxStreams : s > lastStream /\ s \notin inUseStreams}

SearchStopsAt(s) ==
  IF FreeAhead = {} THEN s = 1
                    ELSE s \in FreeAhead /\ \A t \in FreeAhead : s <= t

\* patchMsg finds a free id.
TakeStreamId(c, s) ==
  /\ pc[c] = "patchMsg"
  /\ streamIdLock = NoCall
  /\ SearchStopsAt(s)
  /\ s \notin inUseStreams
  /\ lastStream' = s
  /\ inUseStreams' = inUseStreams \cup {s}
  /\ sid' = [sid EXCEPT ![c] = s]
  /\ Goto(c, "frame")
  /\ UNCHANGED <<env, locks, kind, tag, sent, freed, wire>>

(***************************************************************************)
(* patchMsg finds id 1 taken after it wrapped round.  It returns an error  *)
(* with streamIdLock still locked; Dispatch passes the error on, while     *)
(* DispatchReader drops it and sends on stream id 0.                       *)
(***************************************************************************)
StreamIdsSpent(c, s) ==
  /\ pc[c] = "patchMsg"
  /\ streamIdLock = NoCall
  /\ SearchStopsAt(s)
  /\ s \in inUseStreams
  /\ lastStream' = s
  /\ streamIdLock' = c
  /\ Goto(c, IF kind[c] = "reader" THEN "frame" ELSE "done")
  /\ UNCHANGED <<env, inUseStreams, writeLock, local, wire>>

\* On a plain connection the whole message is sent under writeLock.
LockMessage(c) ==
  /\ pc[c] = "writeLock"
  /\ writeLock = NoCall
  /\ writeLock' = c
  /\ Goto(c, "frame")
  /\ UNCHANGED <<env, ids, streamIdLock, local, wire>>

\* What the next frame of the call can be: split marks the last chunk of a payload,
\* that of a control message too when it is longer than ChunkSize; a reader ends
\* with io.EOF or with an error that cancels the stream.
NextTags(c) == IF kind[c] = "reader" THEN Tags ELSE {"more", "fin"}

\* Seeded fault: writeSingleFrame locks writeLock on a plain connection too.
SpawnFrameLockAlways(c, t) ==
  /\ pc[c] = "frame"
  /\ status = "Ready"
  /\ t \in NextTags(c)
  /\ t = "more" => sent[c] + 1 < MaxChunks
  /\ tag' = [tag EXCEPT ![c] = t]
  /\ Goto(c, "streamLock")
  /\ UNCHANGED <<env, ids, locks, kind, sid, sent, freed, wire>>

(***************************************************************************)
(* The next frame is built and writeSingleFrame looks at con.status, which *)
(* it reads without statusLock: it may change before the frame is written. *)
(***************************************************************************)
SpawnFrame(c, t) ==
  /\ pc[c] = "frame"
  /\ status = "Ready"
  /\ t \in NextTags(c)
  /\ t = "more" => sent[c] + 1 < MaxChunks
  /\ tag' = [tag EXCEPT ![c] = t]
  /\ Goto(c, IF Streamlize(c) THEN "streamLock" ELSE "copy")
  /\ UNCHANGED <<env, ids, locks, kind, sid, sent, freed, wire>>

\* WriteAfterClose or CantWriteYet: the call gives up, its id stays in use.
RefuseFrame(c) ==
  /\ pc[c] = "frame"
  /\ status # "Ready"
  /\ Return(c)
  /\ UNCHANGED <<env, ids, streamIdLock, local, wire>>

\* Seeded fault: the id is given back with every frame, not with the last one.
LockFrameReleaseAlways(c) ==
  /\ pc[c] = "streamLock"
  /\ writeLock = NoCall
  /\ writeLock' = c
  /\ Goto(c, "release")
  /\ UNCHANGED <<env, ids, streamIdLock, local, wire>>

\* Seeded fault: the frame is written without writeLock.
LockFrameNoLock(c) ==
  /\ pc[c] = "streamLock"
  /\ Goto(c, IF tag[c] = "fin" THEN "release" ELSE "copy")
  /\ UNCHANGED <<env, ids, locks, local, wire>>

\* writeSingleFrame of a streamed frame takes writeLock for that frame.
LockFrame(c) ==
  /\ pc[c] = "streamLock"
  /\ writeLock = NoCall
  /\ writeLock' = c
  /\ Goto(c, IF tag[c] = "fin" THEN "release" ELSE "copy")
  /\ UNCHANGED <<env, ids, streamIdLock, local, wire>>

\* Seeded fault: the id given out last is deleted in place of the message's own.
ReleaseLastStream(c) ==
  /\ pc[c] = "release"
  /\ streamIdLock = NoCall
  /\ inUseStreams' = inUseStreams \ {lastStream}
  /\ freed' = [freed EXCEPT ![c] = TRUE]
  /\ Goto(c, "copy")
  /\ UNCHANGED <<env, lastStream, locks, kind, sid, tag, sent, wire>>

\* The id of a message is given back just before its last frame is written.
ReleaseStreamId(c) ==
  /\ pc[c] = "release"
  /\ streamIdLock = NoCall
  /\ inUseStreams' = inUseStreams \ {sid[c]}
  /\ freed' = [freed EXCEPT ![c] = TRUE]
  /\ Goto(c, "copy")
  /\ UNCHANGED <<env, lastStream, locks, kind, sid, tag, sent, wire>>

(***************************************************************************)
(* One Write on the raw connection, which net.Conn makes atomic with       *)
(* respect to other Writes.  The cancel bit is part of the stream header,  *)
(* so a plain connection shows a cancelled message as an unfinished one.   *)
(***************************************************************************)
FrameInHand(c) ==
  [call |-> c, sid |-> sid[c], part |-> sent[c] + 1,
   tag  |-> IF tag[c] = "cancel" /\ ~Streamlize(c) THEN "more" ELSE tag[c]]

CopyFrame(c) ==
  /\ pc[c] = "copy"
  /\ rawOpen
  /\ wire' = Append(wire, FrameInHand(c))
  /\ sent' = [sent EXCEPT ![c] = @ + 1]
  /\ IF tag[c] = "more"
       THEN /\ Goto(c, "frame")
            /\ writeLock' = IF Streamlize(c) THEN NoCall ELSE writeLock
       ELSE Return(c)
  /\ UNCHANGED <<env, ids, streamIdLock, kind, sid, tag, freed>>

\* The Write fails: the call returns the error.
CopyError(c) ==
  /\ pc[c] = "copy"
  /\ ~rawOpen
  /\ Return(c)
  /\ UNCHANGED <<env, ids, streamIdLock, local, wire>>

\* CloseWithCode ends with closeUpdate: from here on con.status is Closed.
CloseUpdate(c) ==
  /\ pc[c] = "closeUpdate"
  /\ status' = "Closed"
  /\ Goto(c, "done")
  /\ UNCHANGED <<streamable, maxStreams, rawOpen, ids, locks, local, wire>>

-----------------------------------------------------------------------------
\* The rest of the connection: Start, KeepPing and Start's deferred calls
\* move the status, cleanClose or the peer closes the raw connection.
UpdateStatus(s) ==
  /\ status # s
  /\ status' = s
  /\ UNCHANGED <<streamable, maxStreams, rawOpen, ids, locks, pc, local, wire>>

CloseRaw ==
  /\ rawOpen
  /\ rawOpen' = FALSE
  /\ UNCHANGED <<streamable, maxStreams, status, ids, locks, pc, local, wire>>

Step(c) ==
  \/ \E s \in StreamIds : TakeStreamId(c, s) \/ StreamIdsSpent(c, s)
  \/ LockMessage(c)
  \/ \E t \in Tags : SpawnFrame(c, t)
  \/ RefuseFrame(c)
  \/ LockFrame(c)
  \/ ReleaseStreamId(c)
  \/ CopyFrame(c)
  \/ CopyError(c)
  \/ CloseUpdate(c)

Next ==
  \/ \E c \in Calls, k \in Kinds : Begin(c, k)
  \/ \E c \in Calls : Step(c)
  \/ \E s \in {"Ready", "Closed", "Timeout"} : UpdateStatus(s)
  \/ CloseRaw

Spec == Init /\ [][Next]_vars

(***************************************************************************)
(* A goroutine that can run does run, and it has one step at a time.       *)
(* sync.Mutex hands itself over to a waiter after a millisecond, so a lock *)
(* that is free again and again is eventually taken by each waiter: strong *)
(* fairness.                                                               *)
(***************************************************************************)
FairSpec == Spec /\ \A c \in Calls : SF_vars(Step(c))

-----------------------------------------------------------------------------
\* Call c holds a stream id it has not given back.
Holds(c) == sid[c] \in StreamIds /\ ~freed[c]

(***************************************************************************)
(* Two messages never share a stream: if a frame of one call is followed   *)
(* by a frame of another call with the same id, the first call had put its *)
(* final frame on the wire in between.  The receiver demultiplexes by id   *)
(* alone, so anything else would splice two messages (patchMsg and the     *)
(* delete of inUseStreams under writeLock in writeSingleFrame).            *)
(***************************************************************************)
StreamIdExclusive ==
  \A i, j \in DOMAIN wire :
    ( /\ i < j
      /\ wire[i].sid = wire[j].sid
      /\ wire[i].sid \in StreamIds
      /\ wire[i].call # wire[j].call )
    => \E k \in i .. j - 1 : wire[k].call = wire[i].call /\ wire[k].tag = "fin"

(***************************************************************************)
(* Without streams the frames of a message are contiguous: nothing, not    *)
(* even a control frame, comes between two frames of one call.  The        *)
(* receiver appends every fragment to the one pending message.             *)
(***************************************************************************)
OneMessageAtATime ==
  ~streamable =>
    \A i, j, k \in DOMAIN wire :
      i < j /\ j < k /\ wire[i].call = wire[k].call => wire[j].call = wire[i].call

(***************************************************************************)
(* inUseStreams is exactly the set of ids held by calls that have not      *)
(* given theirs back, and no two of them hold the same one: an id is       *)
(* neither lost while its message lives nor left behind by a message whose *)
(* last frame went out.                                                    *)
(***************************************************************************)
InUseIsExact ==
  /\ inUseStreams = {sid[c] : c \in {d \in Calls : Holds(d)}}
  /\ \A c, d \in Calls : Holds(c) /\ Holds(d) /\ sid[c] = sid[d] => c = d

(***************************************************************************)
(* A call in progress returns, unless ids ran out and patchMsg left        *)
(* streamIdLock locked: the locks of the sending side do not deadlock by   *)
(* themselves, on a streamable or on a plain connection (the comments at   *)
(* connection.go:210 and 290 are about this).                              *)
(***************************************************************************)
Returns ==
  \A c \in Calls : pc[c] # "idle" ~> (pc[c] = "done" \/ streamIdLock # NoCall)
=============================================================================

------------------------------ MODULE Receiver ------------------------------
(***************************************************************************)
(* The receiving half of a webson connection: the read loop of Start, the  *)
(* table of pending messages, the handlers that read a message while it    *)
(* still arrives (Read and ReadIter), and the two places that run          *)
(* cleanClose, Start's deferred function and the makeSureClose timer.      *)
(*                                                                         *)
(* The goroutines are the reader (Start), one handler per triggered        *)
(* message (triggerMessage without Synchronize) and the timer.  They share *)
(* each message's buffer entity, its channel msgPool and its updateLock,   *)
(* and the map pendingStreams, which nothing guards.  A goroutine that is  *)
(* about to send on a closed channel, or to close one twice, is stuck at   *)
(* that step: Panics says so.                                              *)
(*                                                                         *)
(* A frame is the part-th of the msg-th message the peer sends on a        *)
(* stream, in the order Sender puts them on the wire.  A message of this   *)
(* side is named by the number of the frame that created it.               *)
(***************************************************************************)
EXTENDS Naturals, Sequences, FiniteSets, SequencesExt

CONSTANTS StreamIds,   \* stream ids the peer uses on a streamable connection
          ChanSize,    \* the argument of ReadIter
          MaxFrames    \* bound: frames the peer sends

ASSUME ReceiverAssumption ==
  /\ StreamIds \subseteq Nat \ {0}
  /\ ChanSize \in Nat \ {0}     \* ReadIter panics on a smaller one
  /\ MaxFrames \in Nat

VARIABLES
  streamable,      \* negoSet.streamable
  triggerOnStart,  \* config.TriggerOnStart
  peer,            \* the last frame of each stream
  nframes,         \* number of frames received
  rpc,             \* where the reader is
  frame,           \* the frame in its hand
  pending,         \* con.pendingStreams: stream -> message, 0 for no entry
  msg,             \* the messages (see MessageType)
  closed,          \* con.closed
  timer,           \* the makeSureClose goroutine
  visited          \* the pending messages each cleanClose has looked at

config  == <<streamable, triggerOnStart>>
input   == <<peer, nframes, frame>>
closing == <<closed, timer, visited>>
vars    == <<config, input, rpc, pending, msg, closing>>

Messages == 1 .. MaxFrames
Streams  == IF streamable THEN StreamIds ELSE {0}
Tags     == {"more", "fin", "cancel"}
Frames   == [stream : StreamIds \cup {0}, msg : Nat, part : Nat, tag : Tags]
Cleaners == {"start", "timer"}

MessageType ==
  [ entity      : Seq(Frames),                  \* the frames in m.entity
    isComplete  : BOOLEAN,
    poolReading : BOOLEAN,
    msgPool     : {"nil", "open", "closed"},    \* the state of the channel
    chan        : Seq(Seq(Frames)),             \* and its contents
    updateLock  : {"none", "reader", "handler"},
    hpc         : {"none", "spawned", "make", "drain", "close", "range", "done"},
    out         : Seq(Frames) ]                 \* history: what the handler got

TypeOK ==
  /\ streamable \in BOOLEAN
  /\ triggerOnStart \in BOOLEAN
  /\ peer \in [StreamIds \cup {0} -> Frames]
  /\ nframes \in 0 .. MaxFrames
  /\ rpc \in {"read", "demux", "merge", "send", "close", "settle", "clean", "returned"}
  /\ frame \in Frames
  /\ pending \in [StreamIds \cup {0} -> 0 .. MaxFrames]
  /\ msg \in [Messages -> MessageType]
  /\ \A m \in Messages : Len(msg[m].chan) <= ChanSize
  /\ closed \in BOOLEAN
  /\ timer \in {"off", "sleeping", "closing", "clean", "over"}
  /\ visited \in [Cleaners -> SUBSET Messages]

NoFrame(s) == [stream |-> s, msg |-> 1, part |-> 0, tag |-> "more"]

NoMessage ==
  [ entity |-> << >>, isComplete |-> FALSE, poolReading |-> FALSE, msgPool |-> "nil",
    chan |-> << >>, updateLock |-> "none", hpc |-> "none", out |-> << >> ]

Init ==
  /\ streamable \in BOOLEAN
  /\ triggerOnStart \in BOOLEAN
  /\ peer = [s \in StreamIds \cup {0} |-> NoFrame(s)]
  /\ nframes = 0
  /\ rpc = "read"
  /\ frame = NoFrame(0)
  /\ pending = [s \in StreamIds \cup {0} |-> 0]
  /\ msg = [m \in Messages |-> NoMessage]
  /\ closed = FALSE
  /\ timer = "off"
  /\ visited = [k \in Cleaners |-> {}]

-----------------------------------------------------------------------------
(* The reader: the loop of Start. *)

\* The peer numbers its messages on a stream and the frames of each of them.
NextFrame(s, t) ==
  LET p == peer[s]
  IN  IF p.tag = "fin" THEN [stream |-> s, msg |-> p.msg + 1, part |-> 1, tag |-> t]
                       ELSE [stream |-> s, msg |-> p.msg, part |-> p.part + 1, tag |-> t]

(***************************************************************************)
(* The next frame arrives.  After a cancel frame the peer never uses the   *)
(* stream again, as it keeps the id.  The buffered reader may still hold   *)
(* frames when the raw connection is closed, so this needs no open         *)
(* connection.                                                             *)
(***************************************************************************)
ReadFrame(s, t) ==
  /\ rpc = "read"
  /\ nframes < MaxFrames
  /\ s \in Streams
  /\ peer[s].tag # "cancel"
  /\ t = "cancel" => streamable
  /\ frame' = NextFrame(s, t)
  /\ peer' = [peer EXCEPT ![s] = frame']
  /\ nframes' = nframes + 1
  /\ rpc' = IF pending[s] # 0 /\ t # "cancel" THEN "merge" ELSE "demux"
  /\ UNCHANGED <<config, pending, msg, closing>>

(***************************************************************************)
(* The stream has no pending message, or a cancel frame has just deleted   *)
(* it: the frame becomes a message of its own, pending unless complete.    *)
(***************************************************************************)
NewMessage ==
  LET fin == frame.tag = "fin"
  IN  /\ rpc = "demux"
      /\ msg' = [msg EXCEPT ![nframes].entity = <<frame>>,
                            ![nframes].isComplete = fin,
                            ![nframes].hpc = IF fin \/ triggerOnStart
                                               THEN "spawned" ELSE "none"]
      /\ pending' = IF fin THEN pending ELSE [pending EXCEPT ![frame.stream] = nframes]
      /\ rpc' = "read"
      /\ UNCHANGED <<config, input, closing>>

\* The message the frame in hand continues.
Current == pending[frame.stream]

\* The reader can be in the locked part of merge; without TriggerOnStart merge
\* takes no lock, and no handler has the message yet.
MayMerge(m) == rpc = "merge" /\ (triggerOnStart => msg[m].updateLock = "none")

\* Seeded fault: merge looks at poolReading without taking updateLock.
MergeEntityUnlocked(m) ==
  /\ rpc = "merge"
  /\ msg' = [msg EXCEPT ![m].entity = Append(@, frame),
                        ![m].isComplete = frame.tag = "fin"]
  /\ rpc' = IF frame.tag = "fin" THEN "settle" ELSE "read"
  /\ UNCHANGED <<config, input, pending, closing>>

\* merge into the buffer of a message nobody iterates over.
MergeEntity(m) ==
  /\ MayMerge(m)
  /\ ~msg[m].poolReading
  /\ msg' = [msg EXCEPT ![m].entity = Append(@, frame),
                        ![m].isComplete = frame.tag = "fin"]
  /\ rpc' = IF frame.tag = "fin" THEN "settle" ELSE "read"
  /\ UNCHANGED <<config, input, pending, closing>>

\* merge into a message that is iterated over: the reader keeps updateLock while
\* the channel is full.
MergeLock(m) ==
  /\ MayMerge(m)
  /\ msg[m].poolReading
  /\ msg' = [msg EXCEPT ![m].updateLock = "reader"]
  /\ rpc' = "send"
  /\ UNCHANGED <<config, input, pending, closing>>

\* Seeded fault: the send does not wait for room in the channel.
MergeSendUnbounded(m) ==
  /\ rpc = "send"
  /\ msg[m].msgPool = "open"
  /\ msg' = [msg EXCEPT ![m].chan = Append(@, <<frame>>),
                        ![m].updateLock = IF frame.tag = "fin" THEN @ ELSE "none"]
  /\ rpc' = IF frame.tag = "fin" THEN "close" ELSE "read"
  /\ UNCHANGED <<config, input, pending, closing>>

\* m.receive.msgPool <- moreMsg
MergeSend(m) ==
  /\ rpc = "send"
  /\ msg[m].msgPool = "open"
  /\ Len(msg[m].chan) < ChanSize
  /\ msg' = [msg EXCEPT ![m].chan = Append(@, <<frame>>),
                        ![m].updateLock = IF frame.tag = "fin" THEN @ ELSE "none"]
  /\ rpc' = IF frame.tag = "fin" THEN "close" ELSE "read"
  /\ UNCHANGED <<config, input, pending, closing>>

\* Seeded fault: the final frame leaves the channel open.
MergeCloseForgotten(m) ==
  /\ rpc = "close"
  /\ msg' = [msg EXCEPT ![m].updateLock = "none"]
  /\ rpc' = "settle"
  /\ UNCHANGED <<config, input, pending, closing>>

\* The final frame closes the channel; m.isComplete stays false on this path.
MergeClose(m) ==
  /\ rpc = "close"
  /\ msg[m].msgPool = "open"
  /\ msg' = [msg EXCEPT ![m].msgPool = "closed", ![m].updateLock = "none"]
  /\ rpc' = "settle"
  /\ UNCHANGED <<config, input, pending, closing>>

\* Seeded fault: a finished message stays in pendingStreams.
SettleKeep(m) ==
  /\ rpc = "settle"
  /\ msg' = IF triggerOnStart THEN msg ELSE [msg EXCEPT ![m].hpc = "spawned"]
  /\ rpc' = "read"
  /\ UNCHANGED <<config, input, pending, closing>>

\* After the final frame Start triggers the message, if it has not, and forgets it.
Settle(m) ==
  /\ rpc = "settle"
  /\ msg' = IF triggerOnStart THEN msg ELSE [msg EXCEPT ![m].hpc = "spawned"]
  /\ pending' = [pending EXCEPT ![frame.stream] = 0]
  /\ rpc' = "read"
  /\ UNCHANGED <<config, input, closing>>

\* A CloseMessage arrives, or a read fails because either side closed the raw
\* connection: Start leaves its loop and its deferred function runs cleanClose.
LeaveLoop ==
  /\ rpc = "read"
  /\ rpc' = "clean"
  /\ closed' = TRUE
  /\ UNCHANGED <<config, input, pending, msg, timer, visited>>

-----------------------------------------------------------------------------
(* cleanClose, run by Start ("start") and by makeSureClose ("timer"). *)

Cleaning(k)   == IF k = "start" THEN rpc = "clean" ELSE timer = "clean"
ToVisit(k)    == {pending[s] : s \in Streams} \ (visited[k] \cup {0})
MustClose(m)  == ~msg[m].isComplete /\ msg[m].poolReading

\* Seeded fault: the channels of the pending messages are left open.
CleanMessageKeep(k, m) ==
  /\ Cleaning(k)
  /\ m \in ToVisit(k)
  /\ visited' = [visited EXCEPT ![k] = @ \cup {m}]
  /\ UNCHANGED <<config, input, rpc, pending, msg, closed, timer>>

\* One round of the loop over pendingStreams.
CleanMessage(k, m) ==
  /\ Cleaning(k)
  /\ m \in ToVisit(k)
  /\ MustClose(m) => msg[m].msgPool = "open"
  /\ visited' = [visited EXCEPT ![k] = @ \cup {m}]
  /\ msg' = IF MustClose(m) THEN [msg EXCEPT ![m].msgPool = "closed"] ELSE msg
  /\ UNCHANGED <<config, input, rpc, pending, closed, timer>>

CleanDone(k) ==
  /\ Cleaning(k)
  /\ ToVisit(k) = {}
  /\ rpc' = IF k = "start" THEN "returned" ELSE rpc
  /\ timer' = IF k = "timer" THEN "over" ELSE timer
  /\ UNCHANGED <<config, input, pending, msg, closed, visited>>

\* The application calls Close: closeUpdate starts makeSureClose once.
Close ==
  /\ timer = "off"
  /\ timer' = "sleeping"
  /\ UNCHANGED <<config, input, rpc, pending, msg, closed, visited>>

\* CloseTimeout is over and makeSureClose looks at con.closed, without a lock.
TimerCheck ==
  /\ timer = "sleeping"
  /\ timer' = IF closed THEN "over" ELSE "closing"
  /\ UNCHANGED <<config, input, rpc, pending, msg, closed, visited>>

\* It goes on to cleanClose.
TimerClose ==
  /\ timer = "closing"
  /\ timer' = "clean"
  /\ closed' = TRUE
  /\ UNCHANGED <<config, input, rpc, pending, msg, visited>>

-----------------------------------------------------------------------------
(* The handler of message m: it reads at once or iterates. *)

MayLock(m) == msg[m].hpc = "spawned" /\ msg[m].updateLock = "none"

\* Seeded fault: Read does not check that the message is complete.
HandlerReadEarly(m) ==
  /\ MayLock(m)
  /\ msg' = [msg EXCEPT ![m].out = msg[m].entity, ![m].entity = << >>, ![m].hpc = "done"]
  /\ UNCHANGED <<config, input, rpc, pending, closing>>

\* Read: the whole message, or MsgYetComplete and the handler tries again.
HandlerRead(m) ==
  /\ MayLock(m)
  /\ triggerOnStart => msg[m].isComplete
  /\ msg' = [msg EXCEPT ![m].out = msg[m].entity, ![m].entity = << >>, ![m].hpc = "done"]
  /\ UNCHANGED <<config, input, rpc, pending, closing>>

\* ReadIter takes updateLock and sets poolReading, ...
IterLock(m) ==
  /\ MayLock(m)
  /\ msg' = [msg EXCEPT ![m].updateLock = "handler", ![m].poolReading = TRUE,
                        ![m].hpc = "make"]
  /\ UNCHANGED <<config, input, rpc, pending, closing>>

\* ... then makes the channel, ...
IterMake(m) ==
  /\ msg[m].hpc = "make"
  /\ msg' = [msg EXCEPT ![m].msgPool = "open", ![m].hpc = "drain"]
  /\ UNCHANGED <<config, input, rpc, pending, closing>>

\* Seeded fault: ReadIter closes the channel of an unfinished message too.
IterDrainCloseAlways(m) ==
  /\ msg[m].hpc = "drain"
  /\ msg[m].msgPool = "open"
  /\ msg' = [msg EXCEPT ![m].chan = Append(@, msg[m].entity),
                        ![m].entity = << >>,
                        ![m].hpc = "close"]
  /\ UNCHANGED <<config, input, rpc, pending, closing>>

\* Seeded fault: ReadIter returns an unfinished message with updateLock locked.
IterDrainKeepLock(m) ==
  /\ msg[m].hpc = "drain"
  /\ msg[m].msgPool = "open"
  /\ msg' = [msg EXCEPT ![m].chan = Append(@, msg[m].entity),
                        ![m].entity = << >>,
                        ![m].hpc = IF msg[m].isComplete THEN "close" ELSE "range"]
  /\ UNCHANGED <<config, input, rpc, pending, closing>>

\* ... drains the buffer into it, ...
IterDrain(m) ==
  /\ msg[m].hpc = "drain"
  /\ msg[m].msgPool = "open"
  /\ msg' = [msg EXCEPT ![m].chan = Append(@, msg[m].entity),
                        ![m].entity = << >>,
                        ![m].updateLock = IF msg[m].isComplete THEN @ ELSE "none",
                        ![m].hpc = IF msg[m].isComplete THEN "close" ELSE "range"]
  /\ UNCHANGED <<config, input, rpc, pending, closing>>

\* ... and closes it when the message was complete.
IterClose(m) ==
  /\ msg[m].hpc = "close"
  /\ msg[m].msgPool = "open"
  /\ msg' = [msg EXCEPT ![m].msgPool = "closed", ![m].updateLock = "none",
                        ![m].hpc = "range"]
  /\ UNCHANGED <<config, input, rpc, pending, closing>>

\* The handler ranges over the channel ...
IterReceive(m) ==
  /\ msg[m].hpc = "range"
  /\ msg[m].chan # << >>
  /\ msg' = [msg EXCEPT ![m].out = @ \o Head(msg[m].chan), ![m].chan = Tail(@)]
  /\ UNCHANGED <<config, input, rpc, pending, closing>>

\* ... until it is empty and closed.
IterEnd(m) ==
  /\ msg[m].hpc = "range"
  /\ msg[m].chan = << >>
  /\ msg[m].msgPool = "closed"
  /\ msg' = [msg EXCEPT ![m].hpc = "done"]
  /\ UNCHANGED <<config, input, rpc, pending, closing>>

-----------------------------------------------------------------------------
Merge ==
  \/ NewMessage
  \/ MergeEntity(Current)
  \/ MergeLock(Current)
  \/ MergeSend(Current)
  \/ MergeClose(Current)
  \/ Settle(Current)

Clean(k) == (\E m \in Messages : CleanMessage(k, m)) \/ CleanDone(k)

Handler(m) ==
  \/ HandlerRead(m)
  \/ IterLock(m)
  \/ IterMake(m)
  \/ IterDrain(m)
  \/ IterClose(m)
  \/ IterReceive(m)
  \/ IterEnd(m)

Next ==
  \/ \E s \in StreamIds \cup {0}, t \in Tags : ReadFrame(s, t)
  \/ Merge
  \/ LeaveLoop
  \/ \E k \in Cleaners : Clean(k)
  \/ Close
  \/ TimerCheck
  \/ TimerClose
  \/ \E m \in Messages : Handler(m)

Spec == Init /\ [][Next]_vars

(***************************************************************************)
(* Every goroutine that can run does run; a handler keeps reading, and a   *)
(* waiter on updateLock gets it.  A goroutine has one step at a time, so   *)
(* one condition covers all of its steps.  Nothing makes the peer send,    *)
(* the application close or the connection fail.                           *)
(***************************************************************************)
FairSpec ==
  /\ Spec
  /\ SF_vars(Merge \/ Clean("start"))
  /\ WF_vars(TimerCheck \/ TimerClose \/ Clean("timer"))
  /\ \A m \in Messages : SF_vars(Handler(m))

-----------------------------------------------------------------------------
\* What a message holds and has given out so far.
Content(m) == msg[m].out \o FlattenSeq(msg[m].chan) \o msg[m].entity

\* The last frame of a message is in.
Ended(m) == Content(m) # << >> /\ Last(Content(m)).tag = "fin"

\* A goroutine is about to send on a closed channel ...
SendsOnClosed ==
  \/ rpc = "send" /\ msg[Current].msgPool = "closed"
  \/ \E m \in Messages : msg[m].hpc = "drain" /\ msg[m].msgPool = "closed"

\* ... or to close a channel that is closed or nil.
ClosesTwice ==
  \/ rpc = "close" /\ msg[Current].msgPool # "open"
  \/ \E m \in Messages : msg[m].hpc = "close" /\ msg[m].msgPool # "open"
  \/ \E k \in Cleaners : Cleaning(k) /\
       \E m \in ToVisit(k) : MustClose(m) /\ msg[m].msgPool # "open"

Panics == SendsOnClosed \/ ClosesTwice

(***************************************************************************)
(* A handler sees one message of the peer and sees it right: what it was   *)
(* given, what waits in the channel and what waits in the buffer are       *)
(* together frames 1 .. n of one message, none lost, doubled or out of     *)
(* order, whatever merge, ReadIter and Read did at the same time.  (A      *)
(* message that a cancel frame itself starts is the exception.)            *)
(***************************************************************************)
Faithful ==
  \A m \in Messages :
    LET c == Content(m)
    IN  c # << >> /\ c[1].tag # "cancel" =>
          \A i \in 1 .. Len(c) :
            /\ c[i].part = i
            /\ c[i].stream = c[1].stream /\ c[i].msg = c[1].msg
            /\ c[i].tag = "fin" => i = Len(c)

(***************************************************************************)
(* A handler that finished got the whole message, unless the connection    *)
(* was closed: the end of the range loop can be taken for the end of the   *)
(* message (README.md:303).                                                *)
(***************************************************************************)
EndMeansWhole ==
  \A m \in Messages :
    msg[m].hpc = "done" /\ ~closed =>
      msg[m].out # << >> /\ Last(msg[m].out).tag = "fin"

(***************************************************************************)
(* While the connection lives, merge, Read and ReadIter never close or     *)
(* send on a channel in the wrong state: only cleanClose can make a        *)
(* goroutine panic.                                                        *)
(***************************************************************************)
PanicOnlyAfterClose == Panics => closed

(***************************************************************************)
(* pendingStreams holds the unfinished messages and no other: between two  *)
(* frames the entry of a stream is a message whose last frame is still to  *)
(* come, and every unfinished message the peer has not cancelled is there. *)
(***************************************************************************)
PendingIsUnfinished ==
  rpc = "read" =>
    \A s \in Streams :
      IF peer[s].tag = "more" /\ peer[s].part > 0
        THEN pending[s] # 0 /\ ~Ended(pending[s])
        ELSE peer[s].tag = "fin" => pending[s] = 0

(***************************************************************************)
(* The handler of a message whose last frame has been merged comes to its  *)
(* end (README.md:303), also when the connection is closed meanwhile.      *)
(***************************************************************************)
EndedIsRead ==
  \A m \in Messages : Ended(m) ~> (msg[m].hpc = "done" \/ Panics)

(***************************************************************************)
(* A merge returns to the read loop although it may wait for updateLock    *)
(* and, with updateLock held, for room in the channel: a handler that goes *)
(* on reading never waits for the reader that waits for it.                *)
(***************************************************************************)
MergeReturns ==
  rpc \in {"demux", "merge", "send", "close", "settle"} ~> (rpc = "read" \/ Panics)

(***************************************************************************)
(* README.md:303 when the connection ends first: a handler that is ranging *)
(* over an unfinished message when Start begins to clean up comes to its   *)
(* end.  (One that calls ReadIter later never does: cleanClose closes only *)
(* the channels it finds.)                                                 *)
(***************************************************************************)
CleanEndsRange ==
  \A m \in Messages :
    rpc = "clean" /\ msg[m].hpc = "range" /\ m \in ToVisit("start") ~>
      (msg[m].hpc = "done" \/ Panics)
=============================================================================

------------------------------ MODULE Lifecycle ------------------------------
(***************************************************************************)
(* The life of a webson connection, seen from both of its ends: the status *)
(* machine of updateStatus, the calls of Close, the read loop of Start and *)
(* its deferred function, the makeSureClose timer and the status changes   *)
(* of KeepPing, over a TCP connection that may go silent.                  *)
(*                                                                         *)
(* Data messages and the inside of cleanClose are in Sender and Receiver;  *)
(* here a frame is "close", "bad" (parseMeta rejects it and the peer is    *)
(* told) or "fatal" (Start ends without a word: its header came in two     *)
(* pieces, it is too large, has stream id 0, or does not fit its message). *)
(* Close is modelled from the point where its Dispatch no longer waits for *)
(* writeLock or for the socket.                                            *)
(* updateStatus and the test of startClose run under statusLock, each as   *)
(* one step; con.status, con.closed are read without it.                   *)
(***************************************************************************)
EXTENDS Naturals, Sequences, FiniteSets

CONSTANTS Ends,       \* the two ends of the connection
          Closers,    \* the application's calls of Close: pairs <<end, name>>
          MaxLate,    \* bound: how often a pong comes too late
          MaxFrames   \* bound: frames on their way to one end

ASSUME LifecycleAssumption ==
  /\ Cardinality(Ends) = 2
  /\ \A c \in Closers : c[1] \in Ends
  /\ MaxLate \in Nat
  /\ MaxFrames \in Nat \ {0}

VARIABLES
  status,      \* con.status
  startClose,  \* con.startClose
  closed,      \* con.closed
  raw,         \* "open" until this end calls rawConnection.Close
  start,       \* where Start is
  closer,      \* where each call of Close is
  timers,      \* history: makeSureClose goroutines started
  timer,       \* where makeSureClose is
  keepPing,    \* where KeepPing is
  timeout,     \* KeepPing's variable timeout
  late,        \* pongs that came too late
  net,         \* the frames on their way to each end
  silent       \* the network drops everything, in both directions

flags == <<startClose, closed>>
ping  == <<keepPing, timeout, late>>
links == <<raw, net, silent>>
timing == <<timers, timer>>
vars  == <<status, flags, start, closer, timing, ping, links>>

Peer(e)  == CHOOSE f \in Ends : f # e
Statuses == {"YetReady", "Ready", "Closed", "Timeout"}
Frames   == {"close", "bad", "fatal"}

TypeOK ==
  /\ status \in [Ends -> Statuses]
  /\ startClose \in [Ends -> BOOLEAN]
  /\ closed \in [Ends -> BOOLEAN]
  /\ raw \in [Ends -> {"open", "closed"}]
  /\ start \in [Ends -> {"idle", "read", "reject", "closeUpdate", "update",
                         "deferUpdate", "clean", "returned"}]
  /\ closer \in [Closers -> {"idle", "dispatch", "closeUpdate", "update", "done"}]
  /\ timers \in [Ends -> 0 .. 1]
  /\ timer \in [Ends -> {"off", "sleeping", "clean", "over"}]
  /\ keepPing \in [Ends -> {"run", "late", "over"}]
  /\ timeout \in [Ends -> BOOLEAN]
  /\ late \in 0 .. MaxLate
  /\ \A e \in Ends : net[e] \in Seq(Frames) /\ Len(net[e]) <= MaxFrames
  /\ silent \in BOOLEAN

Init ==
  /\ status = [e \in Ends |-> "YetReady"]
  /\ startClose = [e \in Ends |-> FALSE]
  /\ closed = [e \in Ends |-> FALSE]
  /\ raw = [e \in Ends |-> "open"]
  /\ start = [e \in Ends |-> "idle"]
  /\ closer = [c \in Closers |-> "idle"]
  /\ timers = [e \in Ends |-> 0]
  /\ timer = [e \in Ends |-> "off"]
  /\ keepPing = [e \in Ends |-> "run"]
  /\ timeout = [e \in Ends |-> FALSE]
  /\ late = 0
  /\ net = [e \in Ends |-> << >>]
  /\ silent = FALSE

-----------------------------------------------------------------------------
\* updateStatus(s): the handlers of s run only when the status changes.
UpdateStatus(e, s) == status' = [status EXCEPT ![e] = s]

(***************************************************************************)
(* Dispatch of a control frame.  Nothing is written when con.status is not *)
(* Ready or the raw connection is closed; what is written may be lost.     *)
(***************************************************************************)
CanWrite(e) == status[e] = "Ready" /\ raw[e] = "open"

Deliver(e, f) ==
  IF ~silent /\ raw[Peer(e)] = "open" /\ Len(net[Peer(e)]) < MaxFrames
    THEN net' = [net EXCEPT ![Peer(e)] = Append(@, f)]
    ELSE UNCHANGED net

DispatchClose(e) ==
  IF CanWrite(e) THEN Deliver(e, "close") ELSE UNCHANGED net

\* Seeded fault: every call starts a makeSureClose.
CloseUpdateAlways(e) ==
  /\ startClose' = [startClose EXCEPT ![e] = TRUE]
  /\ timers' = [timers EXCEPT ![e] = @ + 1]
  /\ timer' = [timer EXCEPT ![e] = "sleeping"]
  /\ UNCHANGED closed

\* The locked part of closeUpdate: the first call starts makeSureClose.
CloseUpdate(e) ==
  /\ startClose' = [startClose EXCEPT ![e] = TRUE]
  /\ IF startClose[e]
       THEN UNCHANGED timing
       ELSE /\ timers' = [timers EXCEPT ![e] = @ + 1]
            /\ timer' = [timer EXCEPT ![e] = "sleeping"]
  /\ UNCHANGED closed

-----------------------------------------------------------------------------
(* The application calls Close. *)

CloseCall(c) ==
  /\ closer[c] = "idle"
  /\ closer' = [closer EXCEPT ![c] = "dispatch"]
  /\ UNCHANGED <<status, flags, start, timing, ping, links>>

CloseDispatch(c) ==
  /\ closer[c] = "dispatch"
  /\ DispatchClose(c[1])
  /\ closer' = [closer EXCEPT ![c] = "closeUpdate"]
  /\ UNCHANGED <<status, flags, start, timing, ping, raw, silent>>

CloseStartTimer(c) ==
  /\ closer[c] = "closeUpdate"
  /\ CloseUpdate(c[1])
  /\ closer' = [closer EXCEPT ![c] = "update"]
  /\ UNCHANGED <<status, start, ping, links>>

CloseSetStatus(c) ==
  /\ closer[c] = "update"
  /\ UpdateStatus(c[1], "Closed")
  /\ closer' = [closer EXCEPT ![c] = "done"]
  /\ UNCHANGED <<flags, start, timing, ping, links>>

\* Seeded fault: makeSureClose also stops when the status is Closed.
TimerCheckStatus(e) ==
  /\ timer[e] = "sleeping"
  /\ timer' = [timer EXCEPT ![e] = IF closed[e] \/ status[e] = "Closed" THEN "over" ELSE "clean"]
  /\ UNCHANGED <<status, flags, start, closer, timers, ping, links>>

\* CloseTimeout is over.  When Start has cleaned up already nothing is left to do.
TimerCheck(e) ==
  /\ timer[e] = "sleeping"
  /\ timer' = [timer EXCEPT ![e] = IF closed[e] THEN "over" ELSE "clean"]
  /\ UNCHANGED <<status, flags, start, closer, timers, ping, links>>

\* Seeded fault: cleanClose does not close the raw connection.
CleanCloseKeepRaw(e) ==
  /\ closed' = [closed EXCEPT ![e] = TRUE]
  /\ UNCHANGED <<startClose, links>>

\* cleanClose sets closed and closes the raw connection; only makeSureClose could
\* tell the two apart, and it does nothing when closed is set.
CleanClose(e) ==
  /\ closed' = [closed EXCEPT ![e] = TRUE]
  /\ raw' = [raw EXCEPT ![e] = "closed"]
  /\ UNCHANGED <<startClose, net, silent>>

TimerClean(e) ==
  /\ timer[e] = "clean"
  /\ CleanClose(e)
  /\ timer' = [timer EXCEPT ![e] = "over"]
  /\ UNCHANGED <<status, start, closer, timers, ping>>

-----------------------------------------------------------------------------
(* Start. *)

\* The application or the pool calls Start, or ReStart after it has returned:
\* ReStart drops the connection it negotiates and starts the old one.
StartCall(e) ==
  /\ start[e] \in {"idle", "returned"}
  /\ UpdateStatus(e, "Ready")
  /\ start' = [start EXCEPT ![e] = "read"]
  /\ UNCHANGED <<flags, closer, timing, ping, links>>

\* A frame is read.  A close frame ends the loop, and so does one that Start has no
\* answer to; a bad one is answered with CloseWithCode first.
StartRead(e) ==
  /\ start[e] = "read"
  /\ net[e] # << >>
  /\ net' = [net EXCEPT ![e] = Tail(@)]
  /\ start' = [start EXCEPT ![e] = IF Head(net[e]) = "bad" THEN "reject" ELSE "deferUpdate"]
  /\ UNCHANGED <<status, flags, closer, timing, ping, raw, silent>>

StartReject(e) ==
  /\ start[e] = "reject"
  /\ DispatchClose(e)
  /\ start' = [start EXCEPT ![e] = "closeUpdate"]
  /\ UNCHANGED <<status, flags, closer, timing, ping, raw, silent>>

StartStartTimer(e) ==
  /\ start[e] = "closeUpdate"
  /\ CloseUpdate(e)
  /\ start' = [start EXCEPT ![e] = "update"]
  /\ UNCHANGED <<status, closer, ping, links>>

\* Seeded fault: the end of the peer's stream does not end the read loop.
StartReadErrorOwn(e) ==
  /\ start[e] = "read"
  /\ raw[e] = "closed"
  /\ start' = [start EXCEPT ![e] = "deferUpdate"]
  /\ UNCHANGED <<status, flags, closer, timing, ping, links>>

\* The read fails: this end closed the raw connection, or the peer did and its
\* FIN or RST got through.
StartReadError(e) ==
  /\ start[e] = "read"
  /\ raw[e] = "closed" \/ (raw[Peer(e)] = "closed" /\ ~silent)
  /\ start' = [start EXCEPT ![e] = "deferUpdate"]
  /\ UNCHANGED <<status, flags, closer, timing, ping, links>>

\* Seeded fault: the deferred function does not set the status.
StartSetStatusOnce(e) ==
  /\ start[e] \in {"update", "deferUpdate"}
  /\ IF start[e] = "update" THEN UpdateStatus(e, "Closed") ELSE UNCHANGED status
  /\ start' = [start EXCEPT ![e] = IF @ = "update" THEN "deferUpdate" ELSE "clean"]
  /\ UNCHANGED <<flags, closer, timing, ping, links>>

\* updateStatus(StatusClosed) of closeUpdate, then of the deferred function.
StartSetStatus(e) ==
  /\ start[e] \in {"update", "deferUpdate"}
  /\ UpdateStatus(e, "Closed")
  /\ start' = [start EXCEPT ![e] = IF @ = "update" THEN "deferUpdate" ELSE "clean"]
  /\ UNCHANGED <<flags, closer, timing, ping, links>>

StartClean(e) ==
  /\ start[e] = "clean"
  /\ CleanClose(e)
  /\ start' = [start EXCEPT ![e] = "returned"]
  /\ UNCHANGED <<status, closer, timing, ping>>

-----------------------------------------------------------------------------
(* KeepPing, once per interval, after its Ping. *)

\* The last pong came later than PongTimeout after the ping; the loop ends when
\* the status, read without a lock, is Closed.
PongLate(e) ==
  /\ keepPing[e] = "run"
  /\ start[e] # "idle"
  /\ late < MaxLate
  /\ late' = late + 1
  /\ IF status[e] = "Closed"
       THEN keepPing' = [keepPing EXCEPT ![e] = "over"] /\ UNCHANGED timeout
       ELSE /\ keepPing' = [keepPing EXCEPT ![e] = "late"]
            /\ timeout' = [timeout EXCEPT ![e] = TRUE]
  /\ UNCHANGED <<status, flags, start, closer, timing, links>>

SetTimeout(e) ==
  /\ keepPing[e] = "late"
  /\ UpdateStatus(e, "Timeout")
  /\ keepPing' = [keepPing EXCEPT ![e] = "run"]
  /\ UNCHANGED <<flags, start, closer, timing, timeout, late, links>>

\* The last pong is not late: after a first timeout, every round sets Ready.
Recover(e) ==
  /\ keepPing[e] = "run"
  /\ timeout[e]
  /\ UpdateStatus(e, "Ready")
  /\ UNCHANGED <<flags, start, closer, timing, ping, links>>

-----------------------------------------------------------------------------
(* Frames that end the other end's Start, and the net. *)

SendBad(e) ==
  /\ CanWrite(e)
  /\ \E f \in {"bad", "fatal"} : Deliver(e, f)
  /\ UNCHANGED <<status, flags, start, closer, timing, ping, raw, silent>>

GoSilent ==
  /\ ~silent
  /\ silent' = TRUE
  /\ net' = [e \in Ends |-> << >>]
  /\ UNCHANGED <<status, flags, start, closer, timing, ping, raw>>

Closing(c) == CloseDispatch(c) \/ CloseStartTimer(c) \/ CloseSetStatus(c)

Starting(e) ==
  \/ StartRead(e)
  \/ StartReject(e)
  \/ StartStartTimer(e)
  \/ StartReadError(e)
  \/ StartSetStatus(e)
  \/ StartClean(e)

Timing(e) == TimerCheck(e) \/ TimerClean(e)

Next ==
  \/ \E c \in Closers : CloseCall(c) \/ Closing(c)
  \/ \E e \in Ends : StartCall(e) \/ Starting(e) \/ Timing(e)
  \/ \E e \in Ends : PongLate(e) \/ SetTimeout(e) \/ Recover(e)
  \/ \E e \in Ends : SendBad(e)
  \/ GoSilent

Spec == Init /\ [][Next]_vars

(***************************************************************************)
(* Goroutines run, CloseTimeout passes, a read of a closed connection      *)
(* fails.  Nobody has to call Start or Close, and the net may stay silent. *)
(***************************************************************************)
FairSpec ==
  /\ Spec
  /\ \A c \in Closers : WF_vars(Closing(c))
  /\ \A e \in Ends : WF_vars(Starting(e)) /\ WF_vars(Timing(e))

-----------------------------------------------------------------------------
(***************************************************************************)
(* However many calls of Close race with each other and with the close     *)
(* that Start makes for a malformed frame, makeSureClose is started once   *)
(* (startClose under statusLock in closeUpdate).                           *)
(***************************************************************************)
OneTimer == \A e \in Ends : timers[e] <= 1 /\ (startClose[e] => timers[e] = 1)

(***************************************************************************)
(* When Start has returned the status is Closed, whoever else changed it   *)
(* on the way (a Close before Start, a race of Close with a timeout),      *)
(* except that KeepPing, once it has seen a timeout, may overwrite it.     *)
(***************************************************************************)
ReturnedIsClosed ==
  \A e \in Ends : start[e] = "returned" /\ ~timeout[e] => status[e] = "Closed"

(***************************************************************************)
(* config.go:62, CloseTimeout bounds the wait for the peer's close: after  *)
(* Close a running Start returns, even if the peer never answers.          *)
(***************************************************************************)
CloseEnds ==
  \A e \in Ends :
    startClose[e] /\ start[e] # "idle" ~> start[e] = "returned"

(***************************************************************************)
(* The same for a connection nobody started, or whose Start is stuck: the  *)
(* raw connection is released, although makeSureClose leaves it alone when *)
(* it finds con.closed set by someone else.                                *)
(***************************************************************************)
CloseReleases ==
  \A e \in Ends : startClose[e] ~> raw[e] = "closed"

(***************************************************************************)
(* README.md:903: when one end closes, the other end closes too.  If the   *)
(* net is not silent, the Start of the peer returns.                       *)
(***************************************************************************)
PeerLearns ==
  \A e \in Ends :
    start[e] = "returned" /\ start[Peer(e)] # "idle" ~>
      (silent \/ start[Peer(e)] = "returned")
=============================================================================

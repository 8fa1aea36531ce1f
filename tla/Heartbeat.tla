------------------------------ MODULE Heartbeat ------------------------------
(***************************************************************************)
(* KeepPing at one end of a connection, with the times it compares: the    *)
(* ping it sends, the sleep, the look at lastPong, and the status it sets. *)
(* The application may call Ping too.  The peer answers late or never.     *)
(*                                                                         *)
(* Time is counted in ticks, TicksPerSecond of them a second, and always   *)
(* from the last call of Ping, so that no clock grows.  time.Unix cuts off *)
(* the part of a second; phase is that part at the last call of Ping, and  *)
(* differs from round to round as nothing takes exactly its time.          *)
(***************************************************************************)
EXTENDS Integers, Sequences, SequencesExt

CONSTANTS PingInterval,    \* config.PingInterval, in seconds
          PongTimeout,     \* config.Timeout.PongTimeout, in seconds
          TicksPerSecond,
          MaxDelay,        \* bound: ticks that a ping of KeepPing waits to be written
          MaxOwn,          \* bound: calls of Ping by the application
          MaxUnanswered    \* bound: pings the peer may still answer

ASSUME HeartbeatAssumption ==
  /\ PingInterval \in Nat \ {0}      \* prepare starts no KeepPing otherwise
  /\ PongTimeout \in Nat
  /\ TicksPerSecond \in Nat \ {0}
  /\ MaxDelay \in Nat
  /\ MaxOwn \in Nat
  /\ MaxUnanswered \in Nat \ {0}

VARIABLES
  status,      \* con.status
  keepPing,    \* where KeepPing is
  timeout,     \* its variable timeout
  waited,      \* ticks that it has been there, in Ping or in its sleep
  pinging,     \* where in Ping a caller is
  called,      \* ticks since it called Ping, Overdue at most
  own,         \* calls of Ping by the application so far
  phase,       \* con.lastPing, as a part of a second
  elapsed,     \* ticks since con.lastPing
  lastPong,    \* con.lastPong, in ticks after lastPing, Before if it is earlier
  unanswered,  \* the pings on the wire: ticks since the call of Ping
  dead,        \* the peer answers no more
  slow         \* history: a pong came more than PongTimeout after the call of its ping

loop    == <<keepPing, timeout>>
clock   == <<phase, elapsed>>
calls   == <<pinging, called, own>>
wire    == <<unanswered, dead>>
vars    == <<status, loop, waited, calls, clock, lastPong, wire, slow>>

Callers  == {"KeepPing", "application"}
Before   == -1
Interval == PingInterval * TicksPerSecond
Overdue  == PongTimeout * TicksPerSecond + 1
Ages     == 0 .. Overdue

TypeOK ==
  /\ status \in {"YetReady", "Ready", "Closed", "Timeout"}
  /\ keepPing \in {"ping", "dispatch", "sleep", "setTimeout", "setReady", "over"}
  /\ timeout \in BOOLEAN
  /\ waited \in Nat
  /\ pinging \in [Callers -> {"none", "lock", "copy"}]
  /\ called \in [Callers -> Ages]
  /\ own \in 0 .. MaxOwn
  /\ phase \in 0 .. TicksPerSecond - 1
  /\ elapsed \in Nat
  /\ lastPong \in Before .. elapsed
  /\ unanswered \in Seq(Ages) /\ Len(unanswered) <= MaxUnanswered
  /\ dead \in BOOLEAN
  /\ slow \in BOOLEAN

\* prepare starts KeepPing before the application has called Start.
Init ==
  /\ status = "YetReady"
  /\ keepPing = "ping"
  /\ timeout = FALSE
  /\ waited = 0
  /\ pinging = [c \in Callers |-> "none"]
  /\ called = [c \in Callers |-> 0]
  /\ own = 0
  /\ phase = 0
  /\ elapsed = 0
  /\ lastPong = Before
  /\ unanswered = << >>
  /\ dead = FALSE
  /\ slow = FALSE

-----------------------------------------------------------------------------
(* KeepPing. *)

\* Ping sets lastPing before anything is sent, and then calls Dispatch.
Ping(c, p) ==
  /\ pinging[c] = "none"
  /\ pinging' = [pinging EXCEPT ![c] = "lock"]
  /\ called' = [called EXCEPT ![c] = 0]
  /\ phase' = p
  /\ elapsed' = 0
  /\ lastPong' = Before
  /\ UNCHANGED <<status, timeout, wire, slow>>

KeepPingCalls ==
  /\ keepPing = "ping"
  /\ keepPing' = "dispatch"
  /\ waited' = 0
  /\ \E p \in 0 .. TicksPerSecond - 1 : Ping("KeepPing", p)
  /\ UNCHANGED own

ApplicationCalls ==
  /\ own < MaxOwn
  /\ own' = own + 1
  /\ \E p \in 0 .. TicksPerSecond - 1 : Ping("application", p)
  /\ UNCHANGED <<keepPing, waited>>

\* KeepPing goes on to its sleep whatever Ping has returned.
PingReturns(c) ==
  /\ pinging' = [pinging EXCEPT ![c] = "none"]
  /\ IF c = "KeepPing" THEN keepPing' = "sleep" /\ waited' = 0
                       ELSE UNCHANGED <<keepPing, waited>>
  /\ UNCHANGED <<status, timeout, called, own, clock, lastPong, dead, slow>>

\* A plain connection takes writeLock first, which a message of several frames
\* keeps to its end; the status is looked at when the wait is over.
PingRefused(c) ==
  /\ pinging[c] = "lock"
  /\ status # "Ready"
  /\ PingReturns(c)
  /\ UNCHANGED unanswered

PingAllowed(c) ==
  /\ pinging[c] = "lock"
  /\ status = "Ready"
  /\ pinging' = [pinging EXCEPT ![c] = "copy"]
  /\ UNCHANGED <<status, loop, waited, called, own, clock, lastPong, wire, slow>>

\* io.Copy returns: the ping is on the wire, or lost with the socket.
PingWritten(c) ==
  /\ pinging[c] = "copy"
  /\ PingReturns(c)
  /\ unanswered' =
       IF status # "Closed" /\ ~dead /\ Len(unanswered) < MaxUnanswered
         THEN Append(unanswered, called[c])
         ELSE unanswered

\* lastPong.Unix() - lastPing.Unix(); negative when the pong is the older one.
PongAfter == IF lastPong = Before THEN -1 ELSE (phase + lastPong) \div TicksPerSecond

\* Seeded fault: the time is compared with >=.
PongIsLateOrEqual == PongTimeout > 0 /\ PongAfter >= PongTimeout

PongIsLate == PongTimeout > 0 /\ PongAfter > PongTimeout

\* The sleep is over.  The only way out of the loop is a late pong after Closed.
Wake ==
  /\ keepPing = "sleep"
  /\ waited = Interval
  /\ timeout' = (timeout \/ (PongIsLate /\ status # "Closed"))
  /\ keepPing' =
       CASE PongIsLate /\ status = "Closed"               -> "over"
         [] PongIsLate /\ status # "Closed"               -> "setTimeout"
         [] ~PongIsLate /\ timeout /\ PongTimeout > 0     -> "setReady"
         [] ~PongIsLate /\ ~(timeout /\ PongTimeout > 0)  -> "ping"
  /\ UNCHANGED <<status, waited, calls, clock, lastPong, wire, slow>>

\* Seeded fault: the status is not set back to Ready.
SetReadyNever ==
  /\ keepPing = "setReady"
  /\ keepPing' = "ping"
  /\ UNCHANGED <<status, timeout, waited, calls, clock, lastPong, wire, slow>>

\* Seeded fault: Timeout is set only on a connection that has not been started.
SetTimeoutOnce ==
  /\ keepPing = "setTimeout"
  /\ status' = IF status = "YetReady" THEN "Timeout" ELSE status
  /\ keepPing' = "ping"
  /\ UNCHANGED <<timeout, waited, calls, clock, lastPong, wire, slow>>

\* updateStatus, which does not look at what the status was.
SetTimeout ==
  /\ keepPing = "setTimeout"
  /\ status' = "Timeout"
  /\ keepPing' = "ping"
  /\ UNCHANGED <<timeout, waited, calls, clock, lastPong, wire, slow>>

SetReady ==
  /\ keepPing = "setReady"
  /\ status' = "Ready"
  /\ keepPing' = "ping"
  /\ UNCHANGED <<timeout, waited, calls, clock, lastPong, wire, slow>>

-----------------------------------------------------------------------------
(* Time, the peer and the rest of the connection. *)

Older(age) == IF age < Overdue THEN age + 1 ELSE Overdue

Tick ==
  /\ \/ keepPing = "dispatch" /\ waited < MaxDelay
     \/ keepPing = "sleep" /\ waited < Interval
  /\ waited' = waited + 1
  /\ elapsed' = elapsed + 1
  /\ called' = [c \in Callers |-> Older(called[c])]
  /\ unanswered' = [i \in DOMAIN unanswered |-> Older(unanswered[i])]
  /\ UNCHANGED <<status, loop, pinging, own, phase, lastPong, dead, slow>>

\* The default handler of PongMessage calls RefreshPongTime, whatever ping the
\* pong is for; handlers are goroutines, so pongs may overtake each other.
RefreshPongTime(i) ==
  /\ keepPing # "over"
  /\ ~dead
  /\ unanswered' = RemoveAt(unanswered, i)
  /\ lastPong' = elapsed
  /\ slow' = (slow \/ unanswered[i] = Overdue)
  /\ UNCHANGED <<status, loop, waited, calls, clock, dead>>

PeerDies ==
  /\ ~dead
  /\ dead' = TRUE
  /\ unanswered' = << >>
  /\ UNCHANGED <<status, loop, waited, calls, clock, lastPong, slow>>

StartCall ==
  /\ status = "YetReady"
  /\ status' = "Ready"
  /\ UNCHANGED <<loop, waited, calls, clock, lastPong, wire, slow>>

StartReturns ==
  /\ status \notin {"YetReady", "Closed"}
  /\ status' = "Closed"
  /\ UNCHANGED <<loop, waited, calls, clock, lastPong, wire, slow>>

Dispatch(c) == PingRefused(c) \/ PingAllowed(c) \/ PingWritten(c)

Round == KeepPingCalls \/ Dispatch("KeepPing") \/ Wake \/ SetTimeout \/ SetReady

Next ==
  \/ Round
  \/ ApplicationCalls
  \/ Dispatch("application")
  \/ Tick
  \/ \E i \in DOMAIN unanswered : RefreshPongTime(i)
  \/ PeerDies
  \/ StartCall
  \/ StartReturns

Spec == Init /\ [][Next]_vars

\* KeepPing runs, its Ping returns, and its sleeps end; the peer need not answer.
FairSpec == Spec /\ WF_vars(Round) /\ WF_vars(keepPing = "sleep" /\ Tick)

-----------------------------------------------------------------------------
(***************************************************************************)
(* A connection is reported only if a pong came in more than PongTimeout   *)
(* after the call of the Ping it answers, although pongs are matched to no *)
(* ping, seconds are cut off, pongs of earlier pings come in after later   *)
(* ones, and the application pings as well (connection.go:170).            *)
(***************************************************************************)
AlarmMeansLate == status = "Timeout" => slow

(***************************************************************************)
(* README.md:932: a pong that comes more than PongTimeout (and the second  *)
(* that Unix may cut off) after the last call of Ping, but before KeepPing *)
(* looks, makes the status Timeout, unless the connection is closed or the *)
(* application calls Ping in between, which sets lastPing anew.            *)
(***************************************************************************)
LatePongIsNoticed ==
  \A n \in 0 .. MaxOwn :
    keepPing = "sleep" /\ status = "Ready" /\ PongTimeout > 0 /\ own = n
        /\ lastPong >= (PongTimeout + 1) * TicksPerSecond
      ~> status \in {"Timeout", "Closed"} \/ own > n

(***************************************************************************)
(* README.md:904 and 906: Timeout is not for ever, as no ping and no       *)
(* message can be sent in it: a connection whose Ping returns recovers or  *)
(* is closed.                                                              *)
(***************************************************************************)
TimeoutEnds == status = "Timeout" ~> status \in {"Ready", "Closed"}

(***************************************************************************)
(* README.md:932: "If the Pong is not received within Pong Timeout, a      *)
(* StatusTimeout will be triggered": a connection whose peer has died is   *)
(* reported or closed.                                                     *)
(***************************************************************************)
SilenceIsNoticed ==
  dead /\ status = "Ready" ~> status \in {"Timeout", "Closed"}
=============================================================================

--------------------------- MODULE HeartbeatProofs ---------------------------
(***************************************************************************)
(* What holds of Heartbeat for every interval, timeout and resolution of   *)
(* the clock: the types, and that a connection is reported only if a pong  *)
(* came late after the call of its own Ping.                               *)
(***************************************************************************)
EXTENDS Heartbeat, TLAPS

(***************************************************************************)
(* No Ping was called after the one that set lastPing: neither one whose   *)
(* frame waits to be written nor one on the wire.  So a pong that comes in *)
(* late after the last call is late after its own.                         *)
(***************************************************************************)
NoYoungerCall ==
  \A c \in Callers : pinging[c] # "none" => called[c] >= elapsed \/ called[c] = Overdue

NoYoungerPing ==
  \A i \in 1 .. Len(unanswered) :
    unanswered[i] >= elapsed \/ unanswered[i] = Overdue

LateIsSlow ==
  /\ lastPong >= Overdue => slow
  /\ keepPing = "setTimeout" => slow
  /\ status = "Timeout" => slow

HeartbeatInv == TypeOK /\ NoYoungerCall /\ NoYoungerPing /\ LateIsSlow

-----------------------------------------------------------------------------
\* What the quotient of the seconds says about the ticks.
LEMMA MoreThanSeconds ==
  ASSUME NEW t \in Nat \ {0}, NEW m \in Nat, NEW x \in Nat, x \div t > m
  PROVE  x >= m * t + t
<1> DEFINE d == x \div t
<1>1. d \in Nat /\ x >= d * t
  BY Z3
<1>2. d >= m + 1
  BY <1>1
<1> HIDE DEF d
<1>3. d * t >= (m + 1) * t
  BY <1>1, <1>2, Z3
<1>4. (m + 1) * t = m * t + t
  BY Z3
<1> QED BY <1>1, <1>3, <1>4, Z3

\* The ticks of a timeout are a number.
LEMMA TickTypes ==
  /\ Interval \in Nat /\ Overdue \in Nat \ {0}
  /\ PongTimeout * TicksPerSecond \in Nat
  /\ Overdue = PongTimeout * TicksPerSecond + 1
<1>1. \A a, b \in Nat : a * b \in Nat
  BY Z3
<1>2. Interval \in Nat /\ PongTimeout * TicksPerSecond \in Nat
  BY <1>1, HeartbeatAssumption DEF Interval
<1> QED BY <1>2 DEF Overdue

\* A pong that KeepPing calls late came in later than PongTimeout, to the tick.
LEMMA LatePong ==
  ASSUME TypeOK, PongIsLate
  PROVE  lastPong >= Overdue
<1>1. /\ phase \in Nat /\ phase <= TicksPerSecond - 1 /\ lastPong \in Int
      /\ lastPong >= Before /\ PongTimeout \in Nat /\ TicksPerSecond \in Nat \ {0}
  BY HeartbeatAssumption, TickTypes DEF TypeOK, Before
<1>2. lastPong # Before /\ (phase + lastPong) \div TicksPerSecond > PongTimeout
  BY <1>1 DEF PongIsLate, PongAfter
<1>3. phase + lastPong \in Nat
  BY <1>1, <1>2 DEF Before
<1>4. phase + lastPong >= PongTimeout * TicksPerSecond + TicksPerSecond
  BY <1>1, <1>2, <1>3, MoreThanSeconds
<1> QED BY <1>1, <1>4, TickTypes

\* What RemoveAt leaves.
LEMMA RemoveAtFacts ==
  ASSUME NEW S, NEW q \in Seq(S), NEW i \in 1 .. Len(q)
  PROVE  /\ RemoveAt(q, i) \in Seq(S)
         /\ Len(RemoveAt(q, i)) = Len(q) - 1
         /\ \A j \in 1 .. Len(q) - 1 :
              RemoveAt(q, i)[j] = q[j] \/ RemoveAt(q, i)[j] = q[j + 1]
<1> DEFINE a == SubSeq(q, 1, i - 1)
           b == SubSeq(q, i + 1, Len(q))
<1>1. /\ a \in Seq(S) /\ Len(a) = i - 1
      /\ \A j \in 1 .. i - 1 : a[j] = q[j]
  OBVIOUS
<1>2. /\ b \in Seq(S) /\ Len(b) = Len(q) - i
      /\ \A j \in 1 .. Len(q) - i : b[j] = q[j + i]
  OBVIOUS
<1>3. RemoveAt(q, i) = a \o b
  BY DEF RemoveAt
<1>4. Len(q) \in Nat /\ i \in Nat /\ 1 <= i /\ i <= Len(q)
  OBVIOUS
<1> HIDE DEF a, b
<1>5. a \o b \in Seq(S) /\ Len(a \o b) = Len(q) - 1
  <2>1. a \in Seq(S) /\ Len(a) = i - 1
    BY <1>1
  <2>2. b \in Seq(S) /\ Len(b) = Len(q) - i
    BY <1>2
  <2>3. a \o b \in Seq(S)
    BY <2>1, <2>2
  <2>4. Len(a \o b) = Len(a) + Len(b)
    BY <2>1, <2>2
  <2> QED BY <1>4, <2>1, <2>2, <2>3, <2>4
<1>6. ASSUME NEW j \in 1 .. Len(q) - 1
      PROVE  (a \o b)[j] = q[j] \/ (a \o b)[j] = q[j + 1]
  <2>1. (a \o b)[j] = IF j <= Len(a) THEN a[j] ELSE b[j - Len(a)]
    BY <1>1, <1>2, <1>4
  <2>2. CASE j <= i - 1
    BY <1>1, <1>4, <2>1, <2>2
  <2>3. CASE ~(j <= i - 1)
    <3>1. j - (i - 1) \in 1 .. Len(q) - i /\ j - (i - 1) + i = j + 1
      BY <1>4, <2>3
    <3>2. b[j - (i - 1)] = q[j + 1]
      BY <1>2, <3>1
    <3>3. (a \o b)[j] = b[j - (i - 1)]
      BY <1>1, <2>1, <2>3
    <3> QED BY <3>2, <3>3
  <2> QED BY <2>2, <2>3
<1> QED BY <1>3, <1>5, <1>6

\* A tick makes every age a greater one, as far as ages are told apart.
LEMMA OlderFacts ==
  ASSUME NEW a \in Ages
  PROVE  Older(a) \in Ages /\ Older(a) \in {a + 1, Overdue}
BY TickTypes DEF Ages, Older

-----------------------------------------------------------------------------
\* Appending puts one element behind the others.
LEMMA AppendFacts ==
  ASSUME NEW S, NEW seq \in Seq(S), NEW e \in S
  PROVE  \A i \in 1 .. Len(Append(seq, e)) :
           \/ i \in 1 .. Len(seq) /\ Append(seq, e)[i] = seq[i]
           \/ Append(seq, e)[i] = e
OBVIOUS

\* The pings on the wire that a step leaves, for the steps that change them.
LEMMA WireStep ==
  ASSUME TypeOK, [Next]_vars
  PROVE  /\ unanswered' \in Seq(Ages)
         /\ Len(unanswered') <= MaxUnanswered
<1>0. /\ unanswered \in Seq(Ages) /\ Len(unanswered) <= MaxUnanswered
      /\ called \in [Callers -> Ages]
  BY DEF TypeOK
<1>1. ASSUME NEW c \in Callers, PingWritten(c)
      PROVE  unanswered' \in Seq(Ages) /\ Len(unanswered') <= MaxUnanswered
  <2> DEFINE new == called[c]
  <2>1. new \in Ages
    BY <1>0, TickTypes DEF Ages
  <2>2. \/ unanswered' = unanswered
        \/ unanswered' = Append(unanswered, new) /\ Len(unanswered) < MaxUnanswered
    BY <1>1 DEF PingWritten
  <2> HIDE DEF new
  <2>3. /\ Append(unanswered, new) \in Seq(Ages)
        /\ Len(Append(unanswered, new)) = Len(unanswered) + 1 /\ Len(unanswered) \in Nat
    BY <1>0, <2>1
  <2> QED BY <1>0, <2>2, <2>3, HeartbeatAssumption
<1>2. CASE Tick
  <2>1. \A i \in DOMAIN unanswered : unanswered[i] \in Ages
    BY <1>0
  <2>2. \A i \in DOMAIN unanswered : unanswered'[i] \in Ages
    BY <1>2, <2>1, OlderFacts DEF Tick
  <2>3. DOMAIN unanswered' = DOMAIN unanswered
    BY <1>2 DEF Tick
  <2>4. unanswered' = [i \in 1 .. Len(unanswered) |-> unanswered'[i]]
    BY <1>0, <1>2 DEF Tick
  <2>5. unanswered' \in Seq(Ages) /\ Len(unanswered') = Len(unanswered)
    BY <1>0, <2>2, <2>4
  <2> QED BY <1>0, <2>5
<1>3. ASSUME NEW i \in DOMAIN unanswered, RefreshPongTime(i)
      PROVE  unanswered' \in Seq(Ages) /\ Len(unanswered') <= MaxUnanswered
  <2>1. i \in 1 .. Len(unanswered) /\ Len(unanswered) \in Nat
    BY <1>0
  <2> QED BY <1>0, <1>3, <2>1, RemoveAtFacts, HeartbeatAssumption DEF RefreshPongTime
<1>4. CASE PeerDies
  BY <1>4, HeartbeatAssumption DEF PeerDies
<1>5. CASE UNCHANGED unanswered
  BY <1>0, <1>5
<1>6. \/ \E c \in Callers : PingWritten(c)
      \/ Tick
      \/ \E i \in DOMAIN unanswered : RefreshPongTime(i)
      \/ PeerDies
      \/ UNCHANGED unanswered
  BY DEF Next, Round, Dispatch, KeepPingCalls, ApplicationCalls, Ping, PingRefused, PingAllowed,
         Wake, SetTimeout, SetReady, StartCall, StartReturns, vars, wire, Callers
<1> QED BY <1>1, <1>2, <1>3, <1>4, <1>5, <1>6

\* Every step keeps the types.
LEMMA TypeStep ==
  ASSUME TypeOK, [Next]_vars
  PROVE  TypeOK'
<1> USE WireStep, TickTypes, HeartbeatAssumption
    DEF TypeOK, loop, clock, calls, wire, Before, Callers
<1>0. 0 \in Ages
  BY DEF Ages
<1>1. ASSUME NEW c \in Callers, NEW p \in 0 .. TicksPerSecond - 1, Ping(c, p),
             keepPing' \in {keepPing, "dispatch"}, waited' \in Nat, own' \in 0 .. MaxOwn
      PROVE  TypeOK'
  BY <1>0, <1>1 DEF Ping
<1>2. CASE KeepPingCalls
  BY <1>1, <1>2 DEF KeepPingCalls
<1>3. CASE ApplicationCalls
  <2>1. own' \in 0 .. MaxOwn /\ UNCHANGED <<keepPing, waited>>
    BY <1>3 DEF ApplicationCalls
  <2> QED BY <1>1, <1>3, <2>1 DEF ApplicationCalls
<1>4. ASSUME NEW c \in Callers, Dispatch(c)
      PROVE  TypeOK'
  BY <1>4 DEF Dispatch, PingRefused, PingAllowed, PingWritten, PingReturns
<1>5. CASE Wake
  BY <1>5 DEF Wake
<1>6. CASE SetTimeout \/ SetReady
  BY <1>6 DEF SetTimeout, SetReady
<1>7. CASE Tick
  BY <1>7, OlderFacts DEF Tick
<1>8. ASSUME NEW i \in DOMAIN unanswered, RefreshPongTime(i)
      PROVE  TypeOK'
  BY <1>8 DEF RefreshPongTime
<1>9. CASE PeerDies
  BY <1>9 DEF PeerDies
<1>10. CASE StartCall \/ StartReturns
  BY <1>10 DEF StartCall, StartReturns
<1>11. CASE UNCHANGED vars
  BY <1>11 DEF vars
<1> HIDE DEF TypeOK
<1> QED BY <1>2, <1>3, <1>4, <1>5, <1>6, <1>7, <1>8, <1>9, <1>10, <1>11 DEF Next, Round

\* Every step keeps the ages of the calls and what follows from them.
LEMMA LateStep ==
  ASSUME HeartbeatInv, TypeOK', [Next]_vars
  PROVE  NoYoungerCall' /\ NoYoungerPing' /\ LateIsSlow'
<1> USE TickTypes, HeartbeatAssumption
    DEF HeartbeatInv, NoYoungerCall, NoYoungerPing, LateIsSlow, loop, clock, calls, wire,
        Before, Callers, Ages
<1> DEFINE Kept == NoYoungerCall' /\ NoYoungerPing' /\ LateIsSlow'
<1>0. /\ elapsed \in Nat /\ lastPong \in Int /\ lastPong <= elapsed
      /\ unanswered \in Seq(Ages)
      /\ Len(unanswered) \in Nat /\ DOMAIN unanswered = 1 .. Len(unanswered)
      /\ \A i \in 1 .. Len(unanswered) : unanswered[i] \in 0 .. Overdue
      /\ called \in [Callers -> 0 .. Overdue] /\ called' \in [Callers -> 0 .. Overdue]
  <2>1. /\ elapsed \in Nat /\ lastPong \in -1 .. elapsed /\ unanswered \in Seq(Ages)
        /\ called \in [Callers -> 0 .. Overdue]
    BY DEF TypeOK
  <2>2. called' \in [Callers -> 0 .. Overdue]
    BY DEF TypeOK
  <2>3. \A i \in 1 .. Len(unanswered) : unanswered[i] \in Ages
    BY <2>1
  <2> QED BY <2>1, <2>2, <2>3
<1>1. ASSUME NEW c \in Callers, NEW p \in 0 .. TicksPerSecond - 1, Ping(c, p),
             keepPing' \in {keepPing, "dispatch"}
      PROVE  Kept
  <2>1. /\ elapsed' = 0 /\ lastPong' = -1 /\ UNCHANGED <<status, slow, unanswered>>
    BY <1>1 DEF Ping
  <2>2. NoYoungerCall' /\ NoYoungerPing'
    BY <1>0, <2>1
  <2> QED BY <1>1, <2>1, <2>2
<1>2. CASE KeepPingCalls
  BY <1>1, <1>2 DEF KeepPingCalls
<1>3. CASE ApplicationCalls
  BY <1>1, <1>3 DEF ApplicationCalls
<1>4. ASSUME NEW c \in Callers, PingRefused(c) \/ PingAllowed(c)
      PROVE  Kept
  BY <1>4 DEF PingRefused, PingAllowed, PingReturns, TypeOK
<1>5. ASSUME NEW c \in Callers, PingWritten(c)
      PROVE  Kept
  <2> DEFINE new == called[c]
  <2>1. /\ UNCHANGED <<status, elapsed, lastPong, slow, called>>
        /\ keepPing' \in {keepPing, "sleep"}
        /\ \A d \in Callers : pinging'[d] # "none" => pinging[d] # "none"
    BY <1>5 DEF PingWritten, PingReturns, TypeOK
  <2>2. new >= elapsed \/ new = Overdue
    BY <1>5 DEF PingWritten
  <2>3. unanswered' = unanswered \/ unanswered' = Append(unanswered, new)
    BY <1>5 DEF PingWritten
  <2>4. \A i \in 1 .. Len(Append(unanswered, new)) :
          \/ i \in 1 .. Len(unanswered) /\ Append(unanswered, new)[i] = unanswered[i]
          \/ Append(unanswered, new)[i] = new
    <3>1. new \in Ages /\ unanswered \in Seq(Ages)
      BY <1>0
    <3> HIDE DEF new, Ages
    <3> QED BY <3>1, AppendFacts
  <2> HIDE DEF new
  <2>5. NoYoungerPing'
    BY <1>0, <2>1, <2>2, <2>3, <2>4
  <2> QED BY <2>1, <2>5
<1>6. CASE Wake
  <2>1. UNCHANGED <<status, pinging, called, elapsed, lastPong, unanswered, slow>>
    BY <1>6 DEF Wake
  <2>2. keepPing' = "setTimeout" => PongIsLate
    BY <1>6 DEF Wake
  <2>3. keepPing' = "setTimeout" => slow
    BY <2>2, LatePong
  <2>4. NoYoungerCall' /\ NoYoungerPing'
    BY <2>1
  <2>5. LateIsSlow'
    BY <2>1, <2>3
  <2> QED BY <2>4, <2>5
<1>7. CASE SetTimeout \/ SetReady
  BY <1>7 DEF SetTimeout, SetReady
<1>8. CASE Tick
  <2>1. /\ elapsed' = elapsed + 1 /\ UNCHANGED <<status, keepPing, pinging, lastPong, slow>>
        /\ Len(unanswered') = Len(unanswered)
        /\ \A i \in 1 .. Len(unanswered) : unanswered'[i] = Older(unanswered[i])
        /\ \A c \in Callers : called'[c] = Older(called[c])
    BY <1>0, <1>8 DEF Tick
  <2>2. \A i \in 1 .. Len(unanswered) :
          /\ unanswered'[i] \in {unanswered[i] + 1, Overdue}
          /\ unanswered'[i] \in 0 .. Overdue
    BY <1>0, <2>1, OlderFacts
  <2>3. \A c \in Callers : called'[c] \in {called[c] + 1, Overdue}
    BY <1>0, <2>1, OlderFacts
  <2>4. NoYoungerCall'
    BY <1>0, <2>1, <2>3
  <2>5. NoYoungerPing'
    <3> SUFFICES ASSUME NEW i \in 1 .. Len(unanswered)
                 PROVE  unanswered'[i] >= elapsed' \/ unanswered'[i] = Overdue
      BY <2>1
    <3> DEFINE a == unanswered[i]
               b == unanswered'[i]
    <3>1. /\ a \in 0 .. Overdue /\ b \in 0 .. Overdue /\ b \in {a + 1, Overdue}
          /\ a >= elapsed \/ a = Overdue
      BY <1>0, <2>2
    <3> HIDE DEF a, b
    <3>2. b >= elapsed + 1 \/ b = Overdue
      BY <1>0, <3>1
    <3> QED BY <2>1, <3>2 DEF b
  <2>6. LateIsSlow'
    BY <2>1
  <2> QED BY <2>4, <2>5, <2>6
<1>9. ASSUME NEW i \in DOMAIN unanswered, RefreshPongTime(i)
      PROVE  Kept
  <2>1. /\ unanswered' = RemoveAt(unanswered, i) /\ lastPong' = elapsed
        /\ slow' = (slow \/ unanswered[i] = Overdue)
        /\ UNCHANGED <<status, keepPing, pinging, called, elapsed>>
    BY <1>9 DEF RefreshPongTime
  <2>2. elapsed >= Overdue => unanswered[i] = Overdue
    BY <1>0
  <2>3. /\ Len(unanswered') = Len(unanswered) - 1
        /\ \A j \in 1 .. Len(unanswered') :
             unanswered'[j] = unanswered[j] \/ unanswered'[j] = unanswered[j + 1]
    <3>1. i \in 1 .. Len(unanswered)
      BY <1>0
    <3> QED BY <1>0, <2>1, <3>1, RemoveAtFacts
  <2>4. NoYoungerPing'
    <3> SUFFICES ASSUME NEW j \in 1 .. Len(unanswered')
                 PROVE  unanswered'[j] >= elapsed \/ unanswered'[j] = Overdue
      BY <2>1
    <3>1. j \in 1 .. Len(unanswered) /\ j + 1 \in 1 .. Len(unanswered)
      BY <1>0, <2>3
    <3> QED BY <2>3, <3>1
  <2> QED BY <2>1, <2>2, <2>4
<1>10. CASE PeerDies
  BY <1>10 DEF PeerDies
<1>11. CASE StartCall \/ StartReturns
  BY <1>11 DEF StartCall, StartReturns
<1>12. CASE UNCHANGED vars
  BY <1>12 DEF vars
<1> HIDE DEF HeartbeatInv, NoYoungerCall, NoYoungerPing, LateIsSlow
<1> QED BY <1>2, <1>3, <1>4, <1>5, <1>6, <1>7, <1>8, <1>9, <1>10, <1>11, <1>12
        DEF Next, Round, Dispatch

-----------------------------------------------------------------------------
\* The invariant of the heartbeat.
THEOREM HeartbeatInvariant == Spec => []HeartbeatInv
<1>1. Init => HeartbeatInv
  <2> SUFFICES ASSUME Init PROVE HeartbeatInv
    OBVIOUS
  <2>1. unanswered \in Seq(Ages) /\ Len(unanswered) = 0
    BY DEF Init
  <2>2. 0 \in Ages
    BY TickTypes DEF Ages
  <2>3. TypeOK
    <3>1. 0 \in 0 .. TicksPerSecond - 1 /\ 0 \in 0 .. MaxOwn /\ Len(unanswered) <= MaxUnanswered
      BY <2>1, HeartbeatAssumption
    <3>2. lastPong \in Before .. elapsed /\ elapsed \in Nat /\ waited \in Nat
      BY DEF Init, Before
    <3> QED BY <2>1, <2>2, <3>1, <3>2 DEF Init, TypeOK
  <2> QED BY <2>1, <2>3, TickTypes
          DEF Init, HeartbeatInv, NoYoungerCall, NoYoungerPing, LateIsSlow, Before
<1>2. HeartbeatInv /\ [Next]_vars => HeartbeatInv'
  BY TypeStep, LateStep DEF HeartbeatInv
<1> QED BY <1>1, <1>2, PTL DEF Spec

\* The types of the heartbeat.
THEOREM HeartbeatTypeOKTheorem == Spec => []TypeOK
BY HeartbeatInvariant, PTL DEF HeartbeatInv

\* connection.go:170: a connection is reported only if a pong came more than
\* PongTimeout after the call of its own Ping, whatever the interval, the timeout,
\* the waiting of the pings, the calls of the application and the order of the pongs.
THEOREM AlarmMeansLateTheorem == Spec => []AlarmMeansLate
<1>1. HeartbeatInv => AlarmMeansLate
  BY DEF HeartbeatInv, LateIsSlow, AlarmMeansLate
<1> QED BY <1>1, HeartbeatInvariant, PTL
=============================================================================

--------------------------- MODULE LifecycleProofs ---------------------------
(***************************************************************************)
(* What holds of Lifecycle for every number of calls of Close, of late     *)
(* pongs and of frames: the types, one makeSureClose for each end, and     *)
(* the status of a connection whose Start has returned.                    *)
(***************************************************************************)
EXTENDS Lifecycle, TLAPS

\* makeSureClose goroutines are counted by startClose.
TimerInv == \A e \in Ends : timers[e] = IF startClose[e] THEN 1 ELSE 0

\* From the last updateStatus of Start on only KeepPing may change the status.
ClosedInv ==
  \A e \in Ends :
    /\ start[e] \in {"clean", "returned"} /\ ~timeout[e] => status[e] = "Closed"
    /\ keepPing[e] = "late" => timeout[e]

LifecycleInv == TypeOK /\ DOMAIN net = Ends /\ TimerInv /\ ClosedInv

-----------------------------------------------------------------------------
\* closeUpdate starts at most one makeSureClose.
LEMMA CloseUpdateFacts ==
  ASSUME TypeOK, TimerInv, NEW e \in Ends, CloseUpdate(e)
  PROVE  /\ startClose' \in [Ends -> BOOLEAN]
         /\ closed' \in [Ends -> BOOLEAN]
         /\ timers' \in [Ends -> 0 .. 1]
         /\ timer' \in [Ends -> {"off", "sleeping", "clean", "over"}]
         /\ TimerInv'
<1>1. /\ startClose' = [startClose EXCEPT ![e] = TRUE] /\ closed' = closed
      /\ \/ startClose[e] /\ timers' = timers /\ timer' = timer
         \/ /\ ~startClose[e]
            /\ timers' = [timers EXCEPT ![e] = @ + 1]
            /\ timer' = [timer EXCEPT ![e] = "sleeping"]
  BY DEF CloseUpdate, timing
<1>2. startClose' \in [Ends -> BOOLEAN] /\ closed' \in [Ends -> BOOLEAN]
      /\ timer' \in [Ends -> {"off", "sleeping", "clean", "over"}]
  BY <1>1 DEF TypeOK
<1>3. timers' \in [Ends -> 0 .. 1] /\ TimerInv'
  <2>1. CASE startClose[e] /\ timers' = timers
    BY <1>1, <2>1 DEF TypeOK, TimerInv
  <2>2. CASE ~startClose[e] /\ timers' = [timers EXCEPT ![e] = @ + 1]
    <3>1. timers[e] = 0 /\ timers \in [Ends -> 0 .. 1]
      BY <2>2 DEF TypeOK, TimerInv
    <3>2. timers' = [timers EXCEPT ![e] = 1]
      BY <2>2, <3>1
    <3>3. timers' \in [Ends -> 0 .. 1]
      BY <3>1, <3>2
    <3>4. \A d \in Ends : timers'[d] = IF startClose'[d] THEN 1 ELSE 0
      BY <1>1, <3>1, <3>2 DEF TypeOK, TimerInv
    <3> QED BY <3>3, <3>4 DEF TimerInv
  <2> QED BY <1>1, <2>1, <2>2
<1> QED BY <1>2, <1>3

\* A frame is delivered, or lost.
LEMMA DeliverFacts ==
  ASSUME TypeOK, DOMAIN net = Ends, NEW e, NEW f \in Frames, Deliver(e, f)
  PROVE  /\ \A d \in Ends : net'[d] \in Seq(Frames) /\ Len(net'[d]) <= MaxFrames
         /\ DOMAIN net' = Ends
<1>1. CASE net' = net
  BY <1>1 DEF TypeOK
<1>2. CASE /\ Len(net[Peer(e)]) < MaxFrames
           /\ net' = [net EXCEPT ![Peer(e)] = Append(@, f)]
  <2>1. \A q \in Seq(Frames) :
          Append(q, f) \in Seq(Frames) /\ Len(Append(q, f)) = Len(q) + 1 /\ Len(q) \in Nat
    OBVIOUS
  <2> QED BY <1>2, <2>1, LifecycleAssumption DEF TypeOK
<1> QED BY <1>1, <1>2 DEF Deliver

\* Every step keeps the invariant.
LEMMA LifecycleStep ==
  ASSUME LifecycleInv, [Next]_vars
  PROVE  LifecycleInv'
<1> USE DEF flags, ping, links, timing, UpdateStatus
<1>0. TypeOK /\ DOMAIN net = Ends /\ TimerInv /\ ClosedInv
  BY DEF LifecycleInv
<1>1. ASSUME UNCHANGED net PROVE
        /\ \A d \in Ends : net'[d] \in Seq(Frames) /\ Len(net'[d]) <= MaxFrames
        /\ DOMAIN net' = Ends
  BY <1>0, <1>1 DEF TypeOK
<1>2. ASSUME UNCHANGED <<startClose, timers>> PROVE TimerInv'
  BY <1>0, <1>2 DEF TimerInv
<1>3. ASSUME UNCHANGED <<start, status, timeout, keepPing>> PROVE ClosedInv'
  BY <1>0, <1>3 DEF ClosedInv
<1>4. ASSUME NEW c \in Closers, CloseCall(c)
      PROVE  LifecycleInv'
  BY <1>0, <1>1, <1>2, <1>3, <1>4 DEF CloseCall, LifecycleInv, TypeOK
<1>5. ASSUME NEW c \in Closers, CloseDispatch(c)
      PROVE  LifecycleInv'
  <2>1. /\ \A d \in Ends : net'[d] \in Seq(Frames) /\ Len(net'[d]) <= MaxFrames
        /\ DOMAIN net' = Ends
    BY <1>0, <1>1, <1>5, DeliverFacts DEF CloseDispatch, DispatchClose, Frames
  <2> QED BY <1>0, <1>2, <1>3, <1>5, <2>1 DEF CloseDispatch, LifecycleInv, TypeOK
<1>6. ASSUME NEW c \in Closers, CloseStartTimer(c)
      PROVE  LifecycleInv'
  <2>1. /\ startClose' \in [Ends -> BOOLEAN] /\ closed' \in [Ends -> BOOLEAN]
        /\ timers' \in [Ends -> 0 .. 1]
        /\ timer' \in [Ends -> {"off", "sleeping", "clean", "over"}] /\ TimerInv'
    BY <1>0, <1>6, CloseUpdateFacts, LifecycleAssumption DEF CloseStartTimer
  <2> QED BY <1>0, <1>1, <1>3, <1>6, <2>1 DEF CloseStartTimer, LifecycleInv, TypeOK
<1>7. ASSUME NEW c \in Closers, CloseSetStatus(c)
      PROVE  LifecycleInv'
  <2>1. TypeOK'
    BY <1>0, <1>1, <1>7 DEF CloseSetStatus, TypeOK, Statuses
  <2>2. ClosedInv'
    BY <1>0, <1>7 DEF CloseSetStatus, ClosedInv, TypeOK
  <2> QED BY <1>1, <1>2, <1>7, <2>1, <2>2 DEF CloseSetStatus, LifecycleInv
<1>8. ASSUME NEW e \in Ends, TimerCheck(e)
      PROVE  LifecycleInv'
  BY <1>0, <1>1, <1>2, <1>3, <1>8 DEF TimerCheck, LifecycleInv, TypeOK
<1>9. ASSUME NEW e \in Ends, TimerClean(e)
      PROVE  LifecycleInv'
  BY <1>0, <1>1, <1>2, <1>3, <1>9 DEF TimerClean, CleanClose, LifecycleInv, TypeOK
<1>10. ASSUME NEW e \in Ends, StartCall(e)
       PROVE  LifecycleInv'
  <2>1. TypeOK'
    BY <1>0, <1>1, <1>10 DEF StartCall, TypeOK, Statuses
  <2>2. ClosedInv'
    BY <1>0, <1>10 DEF StartCall, ClosedInv, TypeOK
  <2> QED BY <1>1, <1>2, <1>10, <2>1, <2>2 DEF StartCall, LifecycleInv
<1>11. ASSUME NEW e \in Ends, StartRead(e)
       PROVE  LifecycleInv'
  <2>1. /\ \A d \in Ends : net'[d] \in Seq(Frames) /\ Len(net'[d]) <= MaxFrames
        /\ DOMAIN net' = Ends
    <3>1. net[e] \in Seq(Frames) /\ net[e] # << >> /\ net' = [net EXCEPT ![e] = Tail(@)]
      BY <1>0, <1>11 DEF StartRead, TypeOK
    <3>2. Tail(net[e]) \in Seq(Frames) /\ Len(Tail(net[e])) = Len(net[e]) - 1 /\ Len(net[e]) \in Nat
      BY <3>1
    <3> QED BY <1>0, <3>1, <3>2, LifecycleAssumption DEF TypeOK
  <2>2. TypeOK'
    BY <1>0, <1>11, <2>1 DEF StartRead, TypeOK
  <2>3. ClosedInv'
    BY <1>0, <1>11 DEF StartRead, ClosedInv, TypeOK
  <2> QED BY <1>2, <1>11, <2>1, <2>2, <2>3 DEF StartRead, LifecycleInv
<1>12. ASSUME NEW e \in Ends, StartReject(e)
       PROVE  LifecycleInv'
  <2>1. /\ \A d \in Ends : net'[d] \in Seq(Frames) /\ Len(net'[d]) <= MaxFrames
        /\ DOMAIN net' = Ends
    BY <1>0, <1>1, <1>12, DeliverFacts DEF StartReject, DispatchClose, Frames
  <2>2. TypeOK'
    BY <1>0, <1>12, <2>1 DEF StartReject, TypeOK
  <2>3. ClosedInv'
    BY <1>0, <1>12 DEF StartReject, ClosedInv, TypeOK
  <2> QED BY <1>2, <1>12, <2>1, <2>2, <2>3 DEF StartReject, LifecycleInv
<1>13. ASSUME NEW e \in Ends, StartStartTimer(e)
       PROVE  LifecycleInv'
  <2>1. /\ startClose' \in [Ends -> BOOLEAN] /\ closed' \in [Ends -> BOOLEAN]
        /\ timers' \in [Ends -> 0 .. 1]
        /\ timer' \in [Ends -> {"off", "sleeping", "clean", "over"}] /\ TimerInv'
    BY <1>0, <1>13, CloseUpdateFacts DEF StartStartTimer
  <2>2. TypeOK'
    BY <1>0, <1>1, <1>13, <2>1 DEF StartStartTimer, TypeOK
  <2>3. ClosedInv'
    BY <1>0, <1>13 DEF StartStartTimer, ClosedInv, TypeOK
  <2> QED BY <1>1, <1>13, <2>1, <2>2, <2>3 DEF StartStartTimer, LifecycleInv
<1>14. ASSUME NEW e \in Ends, StartReadError(e)
       PROVE  LifecycleInv'
  <2>1. TypeOK'
    BY <1>0, <1>1, <1>14 DEF StartReadError, TypeOK
  <2>2. ClosedInv'
    BY <1>0, <1>14 DEF StartReadError, ClosedInv, TypeOK
  <2> QED BY <1>1, <1>2, <1>14, <2>1, <2>2 DEF StartReadError, LifecycleInv
<1>15. ASSUME NEW e \in Ends, StartSetStatus(e)
       PROVE  LifecycleInv'
  <2>1. TypeOK'
    BY <1>0, <1>1, <1>15 DEF StartSetStatus, TypeOK, Statuses
  <2>2. ClosedInv'
    BY <1>0, <1>15 DEF StartSetStatus, ClosedInv, TypeOK
  <2> QED BY <1>1, <1>2, <1>15, <2>1, <2>2 DEF StartSetStatus, LifecycleInv
<1>16. ASSUME NEW e \in Ends, StartClean(e)
       PROVE  LifecycleInv'
  <2>1. TypeOK'
    BY <1>0, <1>1, <1>16 DEF StartClean, CleanClose, TypeOK
  <2>2. ClosedInv'
    BY <1>0, <1>16 DEF StartClean, ClosedInv, TypeOK
  <2> QED BY <1>1, <1>2, <1>16, <2>1, <2>2 DEF StartClean, CleanClose, LifecycleInv
<1>17. ASSUME NEW e \in Ends, PongLate(e)
       PROVE  LifecycleInv'
  <2>0. /\ late' = late + 1 /\ late < MaxLate
        /\ \/ keepPing' = [keepPing EXCEPT ![e] = "over"] /\ timeout' = timeout
           \/ /\ keepPing' = [keepPing EXCEPT ![e] = "late"]
              /\ timeout' = [timeout EXCEPT ![e] = TRUE]
    BY <1>17 DEF PongLate
  <2>0a. late' \in 0 .. MaxLate
    BY <1>0, <2>0, LifecycleAssumption DEF TypeOK
  <2>0b. /\ keepPing' \in [Ends -> {"run", "late", "over"}]
         /\ timeout' \in [Ends -> BOOLEAN]
    BY <1>0, <2>0 DEF TypeOK
  <2>1. TypeOK'
    BY <1>0, <1>1, <1>17, <2>0a, <2>0b DEF PongLate, TypeOK
  <2>2. ClosedInv'
    <3>1. \A d \in Ends : timeout[d] => timeout'[d]
      BY <1>0, <2>0 DEF TypeOK
    <3>2. \A d \in Ends : keepPing'[d] = "late" => timeout'[d]
      BY <1>0, <2>0 DEF TypeOK, ClosedInv
    <3> QED BY <1>0, <1>17, <3>1, <3>2 DEF PongLate, ClosedInv
  <2> QED BY <1>1, <1>2, <1>17, <2>1, <2>2 DEF PongLate, LifecycleInv
<1>18. ASSUME NEW e \in Ends, SetTimeout(e) \/ Recover(e)
       PROVE  LifecycleInv'
  <2>0. /\ status' \in [Ends -> Statuses]
        /\ keepPing' \in [Ends -> {"run", "late", "over"}]
    <3>1. CASE SetTimeout(e)
      BY <1>0, <3>1 DEF SetTimeout, TypeOK, Statuses
    <3>2. CASE Recover(e)
      BY <1>0, <3>2 DEF Recover, TypeOK, Statuses
    <3> QED BY <1>18, <3>1, <3>2
  <2>1. TypeOK'
    BY <1>0, <1>1, <1>18, <2>0 DEF SetTimeout, Recover, TypeOK
  <2>2. ClosedInv'
    BY <1>0, <1>18 DEF SetTimeout, Recover, ClosedInv, TypeOK
  <2> QED BY <1>1, <1>2, <1>18, <2>1, <2>2 DEF SetTimeout, Recover, LifecycleInv
<1>19. ASSUME NEW e \in Ends, SendBad(e)
       PROVE  LifecycleInv'
  <2>1. /\ \A d \in Ends : net'[d] \in Seq(Frames) /\ Len(net'[d]) <= MaxFrames
        /\ DOMAIN net' = Ends
    BY <1>0, <1>19, DeliverFacts DEF SendBad, Frames
  <2> QED BY <1>0, <1>2, <1>3, <1>19, <2>1 DEF SendBad, LifecycleInv, TypeOK
<1>20. CASE GoSilent
  <2>1. /\ \A d \in Ends : net'[d] \in Seq(Frames) /\ Len(net'[d]) <= MaxFrames
        /\ DOMAIN net' = Ends
    <3>1. \A d \in Ends : net'[d] = << >>
      BY <1>20 DEF GoSilent
    <3>2. << >> \in Seq(Frames) /\ Len(<< >>) = 0
      OBVIOUS
    <3> QED BY <1>20, <3>1, <3>2, LifecycleAssumption DEF GoSilent
  <2> QED BY <1>0, <1>2, <1>3, <1>20, <2>1 DEF GoSilent, LifecycleInv, TypeOK
<1>21. CASE UNCHANGED vars
  BY <1>0, <1>1, <1>2, <1>3, <1>21 DEF vars, LifecycleInv, TypeOK
<1> QED
  BY <1>4, <1>5, <1>6, <1>7, <1>8, <1>9, <1>10, <1>11, <1>12, <1>13, <1>14, <1>15,
     <1>16, <1>17, <1>18, <1>19, <1>20, <1>21
  DEF Next, Closing, Starting, Timing

\* The invariant holds of a connection that nobody has started.
LEMMA LifecycleInit == Init => LifecycleInv
<1> SUFFICES ASSUME Init PROVE LifecycleInv
  OBVIOUS
<1>1. DOMAIN net = Ends /\ \A e \in Ends : net[e] \in Seq(Frames) /\ Len(net[e]) <= MaxFrames
  <2>1. \A e \in Ends : net[e] = << >>
    BY DEF Init
  <2>2. << >> \in Seq(Frames) /\ Len(<< >>) = 0
    OBVIOUS
  <2> QED BY <2>1, <2>2, LifecycleAssumption DEF Init
<1>2. TypeOK
  <2>1. /\ status \in [Ends -> Statuses] /\ startClose \in [Ends -> BOOLEAN]
        /\ closed \in [Ends -> BOOLEAN] /\ raw \in [Ends -> {"open", "closed"}]
        /\ timeout \in [Ends -> BOOLEAN] /\ keepPing \in [Ends -> {"run", "late", "over"}]
    BY DEF Init, Statuses
  <2>2. /\ start \in [Ends -> {"idle", "read", "reject", "closeUpdate", "update",
                              "deferUpdate", "clean", "returned"}]
        /\ closer \in [Closers -> {"idle", "dispatch", "closeUpdate", "update", "done"}]
    BY DEF Init
  <2>3. timers \in [Ends -> 0 .. 1]
    BY DEF Init
  <2>4. late \in 0 .. MaxLate
    BY LifecycleAssumption DEF Init
  <2>5. silent \in BOOLEAN /\ timer \in [Ends -> {"off", "sleeping", "clean", "over"}]
    BY DEF Init
  <2> QED BY <1>1, <2>1, <2>2, <2>3, <2>4, <2>5 DEF TypeOK
<1>3. TimerInv /\ ClosedInv
  BY DEF Init, TimerInv, ClosedInv
<1> QED BY <1>1, <1>2, <1>3 DEF LifecycleInv

-----------------------------------------------------------------------------
\* The invariant of the life of a connection.
THEOREM LifecycleInvariant == Spec => []LifecycleInv
BY LifecycleInit, LifecycleStep, PTL DEF Spec

\* The types; at most one makeSureClose is part of them.
THEOREM LifecycleTypeOKTheorem == Spec => []TypeOK
BY LifecycleInvariant, PTL DEF LifecycleInv

\* However many calls of Close race, makeSureClose is started once (closeUpdate,
\* connection.go:124).
THEOREM OneTimerTheorem == Spec => []OneTimer
<1>1. LifecycleInv => OneTimer
  BY DEF LifecycleInv, TimerInv, OneTimer
<1> QED BY <1>1, LifecycleInvariant, PTL

\* A Start that has returned leaves the status Closed, unless KeepPing has ever seen
\* a timeout, whatever else ran meanwhile.
THEOREM ReturnedIsClosedTheorem == Spec => []ReturnedIsClosed
<1>1. LifecycleInv => ReturnedIsClosed
  BY DEF LifecycleInv, ClosedInv, ReturnedIsClosed
<1> QED BY <1>1, LifecycleInvariant, PTL
=============================================================================

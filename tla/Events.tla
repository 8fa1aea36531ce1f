-------------------------------- MODULE Events --------------------------------
(***************************************************************************)
(* Event dispatch of one connection: updateStatus and triggerMessage go    *)
(* through eventPool, a slice that Apply and Revoke change under them.     *)
(*                                                                         *)
(* A slice is a header (array, length) over cells that it shares with      *)
(* every copy of the header: append writes in place while there is room,   *)
(* Revoke shifts the cells in place, and a range loop keeps the header it  *)
(* began with but reads the cells as it goes.                              *)
(*                                                                         *)
(* Apply, Revoke and each round of a loop are one step: what goroutines    *)
(* that write the slice header at the same time do to it is left out.      *)
(* Who calls Apply, Revoke and Close (a handler, on whichever goroutine it *)
(* runs, or the application) makes no difference to what they do.          *)
(* messageEventMap and statusEventMap are filled before Start.             *)
(***************************************************************************)
EXTENDS Naturals, SequencesExt

CONSTANTS Handlers,     \* event handlers, each with a Name() of its own
          Applied,      \* handlers in the order the application applies them
          Closers,      \* goroutines that may call Close
          None,         \* an empty cell, no goroutine, no loop, no status
          Capacity(_),  \* the length of the array that append makes for n cells
          MaxMessages,  \* bound: messages read
          MaxCalls      \* bound: calls of Apply, Revoke, Close and KeepPing's

ASSUME EventsAssumption ==
  /\ Applied \in Seq(Handlers) /\ IsInjective(Applied)
  /\ None \notin Handlers
  /\ MaxMessages \in Nat /\ MaxCalls \in Nat
  /\ \A n \in 0 .. Len(Applied) + MaxCalls : Capacity(n) \in Nat /\ Capacity(n) >= n

VARIABLES
  synchronize,  \* con.config.Synchronize, TRUE or FALSE
  arrays,       \* the arrays eventPool has had: sequences of cells
  pool,         \* eventPool's header: its array and its length
  status,       \* con.status
  asks,         \* the status a goroutine calls updateStatus with
  holder,       \* the goroutine that holds statusLock
  loop,         \* the range loops of updateStatus and triggerMessage
  called,       \* with Synchronize: the reader is inside a handler
  reader,       \* where Start is: "idle" .. "returned"
  msgs,         \* messages read so far
  timeout,      \* KeepPing's variable timeout
  calls,        \* calls made so far
  ready         \* history: how often the action of OnReady ran

slice == <<arrays, pool>>
vars == <<synchronize, slice, status, asks, holder, loop, called, reader, msgs,
          timeout, calls, ready>>

Threads  == {"reader", "pinger"} \union Closers
Statuses == {"YetReady", "Ready", "Closed", "Timeout"}
Loops    == {"status", "message"}

\* A range loop: the header it began with (array and the handlers over), the cell
\* it comes to next, and what it has done; see LoopFrom.
LoopType == [array : Nat, over : Seq(Handlers), next : Nat, did : Seq(Handlers),
             seen : SUBSET Handlers, shifted : BOOLEAN]

ASSUME NoneAssumption == None \notin Threads /\ None \notin LoopType

Cells(p) == SubSeq(arrays[p.array], 1, p.len)
InPool   == ToSet(Cells(pool))

\* A loop over eventPool as it is now.  did: the handlers it has invoked;
\* seen, shifted: history of eventPool since the loop began.
LoopFrom(first) ==
  [array |-> pool.array, over |-> Cells(pool), next |-> first, did |-> << >>,
   seen |-> InPool, shifted |-> FALSE]

\* A new array with these handlers.
Stored(hs) == [i \in 1 .. Capacity(Len(hs)) |-> IF i <= Len(hs) THEN hs[i] ELSE None]

Init ==
  /\ synchronize \in BOOLEAN
  /\ \E n \in 0 .. Len(Applied) : LET hs == SubSeq(Applied, 1, n) IN
       arrays = <<Stored(hs)>> /\ pool = [array |-> 1, len |-> n]
  /\ status = "YetReady"
  /\ asks = [t \in Threads |-> None]
  /\ holder = None
  /\ loop = [l \in Loops |-> None]
  /\ called = FALSE
  /\ reader = "idle"
  /\ msgs = 0
  /\ timeout = FALSE
  /\ calls = 0
  /\ ready = 0

-----------------------------------------------------------------------------
(* Apply and Revoke. *)

\* The loops under way, each after what F does to it.
EachLoop(F(_)) == [l \in Loops |-> IF loop[l] = None THEN None ELSE F(loop[l])]

Call == calls < MaxCalls /\ calls' = calls + 1

AppendHandler(h) ==
  IF pool.len < Len(arrays[pool.array])
    THEN /\ arrays' = [arrays EXCEPT ![pool.array][pool.len + 1] = h]
         /\ pool' = [pool EXCEPT !.len = @ + 1]
    ELSE /\ arrays' = Append(arrays, Stored(Append(Cells(pool), h)))
         /\ pool' = [array |-> Len(arrays) + 1, len |-> pool.len + 1]

\* The application applies no handler that is already there.
Apply(h) ==
  /\ Call
  /\ h \notin InPool
  /\ AppendHandler(h)
  /\ loop' = EachLoop(LAMBDA l : [l EXCEPT !.seen = @ \union {h}])
  /\ UNCHANGED <<synchronize, status, asks, holder, called, reader, msgs, timeout, ready>>

\* Seeded fault: the cell behind the last one is cleared, as slices.Delete does.
ShiftAndClear(a, i, n) ==
  [j \in DOMAIN a |-> IF j \in i .. n - 1 THEN a[j + 1] ELSE IF j = n THEN None ELSE a[j]]

\* append(a[:i-1], a[i:n]...): cells i+1 to n move down by one, cell n stays.
ShiftCells(a, i, n) == [j \in DOMAIN a |-> IF j \in i .. n - 1 THEN a[j + 1] ELSE a[j]]

\* Without a handler of that name Revoke does nothing.
Revoke(h) ==
  /\ Call
  /\ \E i \in 1 .. pool.len :
       /\ arrays[pool.array][i] = h
       /\ arrays' = [arrays EXCEPT ![pool.array] = ShiftCells(@, i, pool.len)]
  /\ pool' = [pool EXCEPT !.len = @ - 1]
  /\ loop' = EachLoop(LAMBDA l : [l EXCEPT !.shifted = @ \/ l.array = pool.array])
  /\ UNCHANGED <<synchronize, status, asks, holder, called, reader, msgs, timeout, ready>>

-----------------------------------------------------------------------------
(* updateStatus. *)

\* Goroutine t calls updateStatus(s); it waits until the call has returned.
Waits(t)  == asks[t] # None
Ask(t, s) == ~Waits(t) /\ asks' = [asks EXCEPT ![t] = s]

\* Seeded fault: OnReady takes no notice of the status before.
OnReadyAlways(from, to) == to = "Ready"

\* The action OnReady registers ignores every change but the first one.
OnReadyRuns(from, to) == to = "Ready" /\ from = "YetReady"

\* Seeded fault: the early return forgets to unlock.
SameStatusKeepsLock(t) ==
  /\ holder' = t
  /\ UNCHANGED <<asks, status, loop, ready>>

\* Nothing happens when the status is the same; the lock is released again.
SameStatus(t) ==
  /\ asks' = [asks EXCEPT ![t] = None]
  /\ UNCHANGED <<status, holder, loop, ready>>

NewStatus(t) ==
  /\ holder' = t
  /\ status' = asks[t]
  /\ ready' = ready + (IF OnReadyRuns(status, asks[t]) THEN 1 ELSE 0)
  /\ loop' = [loop EXCEPT !["status"] = LoopFrom(1)]
  /\ UNCHANGED asks

LockStatus(t) ==
  /\ Waits(t) /\ holder = None
  /\ IF status = asks[t] THEN SameStatus(t) ELSE NewStatus(t)
  /\ UNCHANGED <<synchronize, slice, called, reader, msgs, timeout, calls>>

\* Seeded fault: the loop looks at eventPool again in every round.
HeaderNow(l) == pool

\* range evaluates eventPool once.
Header(l) == [array |-> loop[l].array, len |-> Len(loop[l].over)]

More(l) == loop[l].next <= Header(l).len

\* The handler in the next cell is invoked.
Invoke(l) ==
  loop' = [loop EXCEPT ![l].did = Append(@, arrays[Header(l).array][loop[l].next]),
                       ![l].next = @ + 1]
LoopEnds(l) == loop' = [loop EXCEPT ![l] = None]

\* go handler.OnStatus: nobody waits for it.
StatusHandler ==
  /\ loop["status"] # None /\ More("status")
  /\ Invoke("status")
  /\ UNCHANGED <<synchronize, slice, status, asks, holder, called, reader, msgs,
                 timeout, calls, ready>>

UnlockStatus ==
  /\ loop["status"] # None /\ ~More("status")
  /\ LoopEnds("status")
  /\ asks' = [asks EXCEPT ![holder] = None]
  /\ holder' = None
  /\ UNCHANGED <<synchronize, slice, status, called, reader, msgs, timeout, calls, ready>>

\* Close, as far as it calls updateStatus; a handler that the reader has called may
\* call it, too.
Close(t) ==
  /\ t \in Closers \/ (t = "reader" /\ called)
  /\ Call
  /\ Ask(t, "Closed")
  /\ UNCHANGED <<synchronize, slice, status, holder, loop, called, reader, msgs,
                 timeout, ready>>

\* KeepPing, as far as it calls updateStatus: see Heartbeat for when.
PongLate ==
  /\ status # "Closed"
  /\ Call
  /\ timeout' = TRUE
  /\ Ask("pinger", "Timeout")
  /\ UNCHANGED <<synchronize, slice, status, holder, loop, called, reader, msgs, ready>>

PongBack ==
  /\ timeout
  /\ Call
  /\ Ask("pinger", "Ready")
  /\ UNCHANGED <<synchronize, slice, status, holder, loop, called, reader, msgs,
                 timeout, ready>>

-----------------------------------------------------------------------------
(* Start, and triggerMessage on its goroutine. *)

Start ==
  /\ reader = "idle"
  /\ reader' = "starting"
  /\ Ask("reader", "Ready")
  /\ UNCHANGED <<synchronize, slice, status, holder, loop, called, msgs, timeout,
                 calls, ready>>

EnterLoop ==
  /\ reader = "starting" /\ ~Waits("reader")
  /\ reader' = "read"
  /\ UNCHANGED <<synchronize, slice, status, asks, holder, loop, called, msgs,
                 timeout, calls, ready>>

\* A handler runs.  With Synchronize the reader calls it and goes on when it has
\* returned; else it is a goroutine of its own that nobody waits for.
Run == called' = synchronize

\* A message is whole.  When messageEventMap has an action for its type, that
\* action comes first.
ReadMessage(mapped) ==
  /\ reader = "read" /\ msgs < MaxMessages
  /\ reader' = "trigger"
  /\ msgs' = msgs + 1
  /\ IF mapped THEN Run ELSE UNCHANGED called
  /\ UNCHANGED <<synchronize, slice, status, asks, holder, loop, timeout, calls, ready>>

TriggerHandlers ==
  /\ reader = "trigger" /\ ~called
  /\ reader' = "range"
  /\ loop' = [loop EXCEPT !["message"] = LoopFrom(1)]
  /\ UNCHANGED <<synchronize, slice, status, asks, holder, called, msgs, timeout,
                 calls, ready>>

MessageHandler ==
  /\ reader = "range" /\ ~called /\ More("message")
  /\ Invoke("message")
  /\ Run
  /\ UNCHANGED <<synchronize, slice, status, asks, holder, reader, msgs, timeout,
                 calls, ready>>

Triggered ==
  /\ reader = "range" /\ ~called /\ ~More("message")
  /\ LoopEnds("message")
  /\ reader' = "read"
  /\ UNCHANGED <<synchronize, slice, status, asks, holder, called, msgs, timeout,
                 calls, ready>>

HandlerReturns ==
  /\ called /\ ~Waits("reader")
  /\ called' = FALSE
  /\ UNCHANGED <<synchronize, slice, status, asks, holder, loop, reader, msgs,
                 timeout, calls, ready>>

\* The read loop ends, for whatever reason, and the deferred function runs.
LeaveLoop ==
  /\ reader = "read"
  /\ reader' = "closing"
  /\ Ask("reader", "Closed")
  /\ UNCHANGED <<synchronize, slice, status, holder, loop, called, msgs, timeout,
                 calls, ready>>

Return ==
  /\ reader = "closing" /\ ~Waits("reader")
  /\ reader' = "returned"
  /\ UNCHANGED <<synchronize, slice, status, asks, holder, loop, called, msgs,
                 timeout, calls, ready>>

-----------------------------------------------------------------------------
Read == Start \/ EnterLoop \/ (\E mapped \in BOOLEAN : ReadMessage(mapped))
        \/ TriggerHandlers \/ MessageHandler \/ Triggered \/ LeaveLoop \/ Return

Next ==
  \/ Read
  \/ \E h \in Handlers : Apply(h) \/ Revoke(h)
  \/ \E t \in Threads : LockStatus(t) \/ Close(t)
  \/ StatusHandler \/ UnlockStatus
  \/ PongLate \/ PongBack
  \/ HandlerReturns

Spec == Init /\ [][Next]_vars

\* The runtime schedules every goroutine, and a sync.Mutex starves nobody.  The
\* application's handlers may run for ever.
Fairness ==
  /\ \A t \in Threads : SF_vars(LockStatus(t))
  /\ WF_vars(StatusHandler \/ UnlockStatus)

FairSpec == Spec /\ Fairness

-----------------------------------------------------------------------------
\* A loop invokes only handlers that were in eventPool at some time since it
\* began, whatever Apply and Revoke do to the cells it goes through: no empty
\* cell, which would be a nil handler, and no handler revoked before.
NoStranger ==
  /\ InPool \subseteq Handlers
  /\ \A l \in Loops : loop[l] # None => ToSet(loop[l].did) \subseteq loop[l].seen

\* A loop whose array no Revoke has shifted invokes the handlers that were in
\* eventPool when it began, each once and in their order, however many Apply
\* adds in the meantime.
UndisturbedLoopIsWhole ==
  [][\A l \in Loops : loop[l] # None /\ loop'[l] # loop[l] /\ ~loop[l].shifted =>
       IF loop'[l] = None THEN loop[l].did = loop[l].over
                          ELSE IsPrefix(loop'[l].did, loop[l].over)]_vars

\* The action of OnReady runs once at most (README.md:906), whatever KeepPing,
\* Close and Start make of the status.
OnReadyOnce == ready <= 1

\* A call of updateStatus returns, even when a handler never does: neither path
\* through it keeps statusLock, and Close from inside a handler, with Synchronize
\* on the reader's own goroutine, does not wait for that handler.
StatusCallReturns == \A t \in Threads : Waits(t) ~> ~Waits(t)
=============================================================================

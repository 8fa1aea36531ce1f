# webson in TLA+

A verification project for [webson](../src/README.md), a Go websocket library whose messages may
be multiplexed over *streams*.  It holds TLA+ modules for the parts of the library, TLC
configurations that check them on small instances, a refinement of an abstract message channel, and
TLAPS proofs for every value of the constants.

Line numbers below refer to the files in `src/`; `PROJECT.json` gives them for every definition.

## 1. The system

### Components

| Component | Code | State it keeps | Operations |
|---|---|---|---|
| Sending | `connection.go` 186-301, `message.go` 123-241, 314-347 | `inUseStreams`, `lastStream`, `streamIdLock`, `writeLock`, `status` (read) | `Dispatch`, `DispatchReader`, `CloseWithCode`, `patchMsg`, `split`, `writeSingleFrame` |
| Receiving | `connection.go` 104-113, 376-489, `message.go` 287-311, 349-394 | `pendingStreams`, per message `entity`, `isComplete`, `poolReading`, `msgPool`, `updateLock` | the loop of `Start`, `merge`, `Read`, `ReadIter`, `cleanClose` |
| Life cycle | `connection.go` 104-140, 338-357, 376-392, `status.go` | `status`, `startClose`, `closed`, `statusLock`, the socket | `Start`, `Close`, `closeUpdate`, `makeSureClose`, `updateStatus` |
| Heartbeat | `connection.go` 76-88, 148-184 | `lastPing`, `lastPong`, `timeout` | `Ping`, `RefreshPongTime`, `KeepPing` |
| Event dispatch | `connection.go` 303-374 | `statusEventMap`, `messageEventMap`, `eventPool` | `Apply`, `Revoke`, `OnReady`, `updateStatus`, `triggerMessage` |
| Pool | `pool.go` | `entryMap`, `clients`, `servers`, `closed`, `poolLock` | `Add`, `remove`, `CastOut`, `startClient`, `startServer`, `Dispatch` and its variants, `Close`, `Wait` |
| Frame codec | `message.go` 141-285 | none (bytes in, bytes out) | `assemble`, `parseMeta`, `setMask`, `maskPayload` |
| Handshake | `client.go` 33-186, `server.go` 11-121 | `negoSet`, the deadline of the socket, two buffers | `Dial`, `negotiate`, `TakeOver` |
| Configuration | `config.go` 66-119 | `Config` | `setup` |

### How they interact

A connection is used by many goroutines.  One runs `Start`, the only reader of the socket.  Any
number call `Dispatch` and `DispatchReader`; each message handler runs on a goroutine of its own
(unless `Synchronize`) and often dispatches an answer.  `KeepPing` is a goroutine per connection,
`makeSureClose` one more after the first `Close`.  The pool runs `Start` for its members and
removes them afterwards.  Goroutines of one connection meet in `writeLock`, `streamIdLock`,
`statusLock`, in each message's `updateLock` and channel, and in fields that nothing guards:
`status` where it is read, `closed`, `pendingStreams`, `eventPool`, `lastPing`, `lastPong`.

The handshake decides `streamable` once.  A streamable connection gives each data message an id and
interleaves messages frame by frame; a plain one sends a message as one block under `writeLock`.
The peer reassembles by stream id alone (id 0 on a plain connection), so the sender's id discipline
is what keeps messages apart at the receiver.

### What is hard, and what makes each component correct

* **Sending.** Locks are taken per message or per frame depending on the negotiation; an id is given
  back just before the last frame goes out; the search for an id wraps round.  Correct: no two live
  messages share an id, `inUseStreams` is exact, frames of a plain message are contiguous, calls
  return.
* **Receiving.** A message is filled by the reader while its handler reads it, and `ReadIter` moves it
  from a buffer to a channel in the middle; `cleanClose` runs on two goroutines and touches messages
  without their lock.  Correct: a handler sees one message, whole and in order, its loop ends, and the
  reader is never blocked by a handler that goes on reading.
* **Both together.** Correct: one direction of a connection is a channel of whole messages, in order,
  each at most once, whatever frames come in between.
* **Life cycle.** Close can come from the application, from a malformed frame, from the peer, from a
  broken socket and from the timer, in any order.  Correct: one timer, the socket is released, `Start`
  returns, the peer learns of it, the status ends as Closed.
* **Heartbeat.** Whole seconds are compared, pongs belong to no particular ping, and the peer may answer
  late or never; a ping may wait before it is written, and the application pings too.  Correct: an alarm
  means that a pong was late, a late one is noticed, Ready when the peer comes back.
* **Event dispatch.** A slice is iterated over while it is appended to and shifted in place; handlers
  start with `statusLock` held.  Correct: nobody is invoked who was not applied, nobody applied is left
  out, OnReady runs once, status changes return.
* **Pool.** Membership is by name; a member may be cast out, replaced, retried and closed at once.
  Correct: `entryMap`, `clients` and `servers` agree, a running member is never evicted by another,
  `Close` returns after all members are gone, and returns unless a member's own write does not.
* **Frame codec.** Length classes, and a stream header that shares sixteen bits between the id and the
  cancel bit.  Correct: what is assembled parses back to the same frame.
* **Handshake.** Both ends compute the outcome for themselves, each may fail or give up after the other
  has gone on, and both read through a buffer that they then drop.  Correct: they agree on the outcome,
  the end that is left behind learns of it, no frame is lost.

Every hazard found in the code is in `PROJECT.json` with its line and the properties that cover it,
or the reason why none does.

## 2. Modules

| Module | Models | Proofs in | Runs |
|---|---|---|---|
| `Sender` | the sending side of one connection | `SenderProofs` | `sender` |
| `FrameCodec` | the header of a frame, as functions | `TransferProofs` | through `Transfer` |
| `MessageChannel` | what one direction promises, in the abstract | `TransferProofs` | through `Transfer` |
| `Transfer` | `Sender`, `FrameCodec` and the peer's read loop put together; implements `MessageChannel` | `TransferProofs` | `transfer` |
| `Receiver` | the inside of messages on their way to handlers | `ReceiverProofs` | `receiver`, `receiver_live` |
| `Lifecycle` | closing and status, at both ends of a connection | `LifecycleProofs` | `lifecycle`, `lifecycle_live` |
| `Heartbeat` | `KeepPing` and its arithmetic of times | `HeartbeatProofs` | `heartbeat`, `heartbeat_silence` |
| `Handshake` | `Dial`, `negotiate`, `TakeOver` and the first frames | `HandshakeProofs` | `handshake` |
| `Events` | the handlers of a connection and the slice they are in | `EventsProofs` | `events` |
| `Pool` | the connection pool | `PoolProofs` | `pool`, `pool_broadcast` |

An `MC` module instantiates a model for TLC.

Each module splits the code where another goroutine can interfere: at a `Lock`, at a channel
operation, at an unlocked read of a shared field, at a socket operation.  What lies between two such
points is one action.  A mutex is a variable naming its owner.  A `defer Unlock` is part of the action
that ends the function.

Next to some actions stands a variant marked *Seeded fault*.  It is not part of any specification; it
shows what kind of mistake in the code a property would catch, and `PROJECT.json` pairs it with that
property.

### Sender

An element of `Calls` is one invocation; `pc` says where it is.

| Action | Code |
|---|---|
| `Begin` | entry of `Dispatch` (payload or control), `DispatchReader`, `CloseWithCode` |
| `TakeStreamId`, `StreamIdsSpent` | `patchMsg` 253-274; the second is the error return at 264, with the lock kept |
| `LockMessage` | `writeLock.Lock` of a plain connection, 192 and 211 |
| `SpawnFrame`, `RefuseFrame` | the next chunk, of a control message too (`split` 314-347), and the status test of `writeSingleFrame` 279-285 |
| `LockFrame`, `ReleaseStreamId` | 291-296 |
| `CopyFrame`, `CopyError` | `io.Copy` to the socket, 299, and the deferred unlocks |
| `CloseUpdate` | the end of `CloseWithCode` |
| `UpdateStatus`, `CloseRaw` | what the rest of the connection does to `status` and to the socket, at any time |

`SearchStopsAt` is where the loop of `patchMsg` ends, stated as a set instead of a loop: the first free
id after `lastStream`, else id 1, free or not.  The status moves freely between Ready, Closed and
Timeout, more freely than `Lifecycle` lets it, so what holds here holds under it.  `sent`, `freed` and
`wire` are history.

### FrameCodec, MessageChannel and Transfer

`FrameCodec` has `Assemble`, from the fields of a message and of `msgSendOptions` to the first byte, the
length code, the extended length and the stream header, and `ParseMeta` with the accessors of `parseMeta`
and `Start` back again.  Bits are `\div` and `%`, so that they can be proved about.  `ReadsAs` says that
nothing changed on the way.

`Transfer` extends `Sender` with the reader at the other end: `nread` frames of `wire` were read, and
`pending` is the peer's `pendingStreams`.  `delivered` and `finals` are history: the messages that were
triggered, and where on the wire the last frames of messages are.

| Action | Code |
|---|---|
| `Send`, with `Aside` | any step of `Sender`; `Aside` notes a last frame in `finals` |
| `ReadRefused` | 405-446: a malformed frame, one that is too large, stream id 0 |
| `ReadControl` | 457-462; a close ends `Start` |
| `ReadData` | 463-487: merge into the pending message or start a new one, trigger with the last frame |
| `ReadShort` | 390, 410, 415, 422: `Read` returns a part of a header and no error, and `Start` returns |
| `ReadError` | 389-392, on a socket that is closed |

The refinement maps the frames to `MessageChannel`: a message is *sent* at the instant its last frame
is written, *failed* when its call returns without, *delivered* when the reader triggers it; a delivered
sequence of frames that is not exactly one message, whole and in order, maps to no message at all, which
`MessageChannel` does not allow.

`Cuts` fences off one behaviour of the code.  On a plain connection a message may be cut short, because
its reader fails (there is no cancel bit) or because the status leaves Ready between two of its frames
and comes back; the peer then appends the next message to it.  `NoCut` excludes it, and with
`Cuts = TRUE` TLC finds the spliced message at once.  A second fence is on the application: `OneFrame` keeps
it to the 125 bytes of a control message (README.md:619), which nothing in `Dispatch` does; `Sender` by
itself splits control messages as the code would.

### Receiver

The peer's frames are numbered by stream, message and position.  A message of this side is a record
(`MessageType`) named by the number of the frame that created it.  `rpc` is the position of the read
loop, `hpc` that of each handler, `timer` that of `makeSureClose`.

| Action | Code |
|---|---|
| `ReadFrame`, `NewMessage` | 389-451 and 478-485 |
| `MergeEntity`, `MergeLock`, `MergeSend`, `MergeClose`, `Settle` | `merge` and 471-475 |
| `LeaveLoop`, `CleanMessage`, `CleanDone` | the exits of the loop, the deferred `cleanClose`, one round of its loop at a time |
| `Close`, `TimerCheck`, `TimerClose` | 124-140 |
| `HandlerRead` | `Read` of a complete message (an incomplete one is an error and changes nothing) |
| `IterLock`, `IterMake`, `IterDrain`, `IterClose` | `ReadIter` 375-392; split because `cleanClose` looks in without the lock |
| `IterReceive`, `IterEnd` | the application's `range` |

A goroutine that is about to close a closed or nil channel or to send on a closed one has no step;
`Panics` names these states.  Every handler may `Read` or `ReadIter`, nondeterministically.  The
peer respects the protocol of `Sender`: after a cancel it does not use the stream again, since the
sender keeps the id.

`isComplete` is copied by `merge` only on the buffer path, and `Start` looks at the frame in hand, not
at the message; both are modelled as they are.

### Lifecycle

`Ends` are the client and the server.  Every variable is a function of the end; `net[e]` holds
the frames on their way to `e`.  `closer` are calls of `Close`; `start`, `timer` and `keepPing` are
the three goroutines of an end.  `CloseUpdate` and `CleanClose` are the bodies shared by the closing
paths.  `CloseTimeout` may pass at any time, so the timer may win or lose every race.  `GoSilent` is
a partition: nothing arrives any more in either direction, not even a FIN.  `SendBad` is a peer
whose frame `parseMeta` rejects, which makes `Start` close the connection by itself, or whose frame ends
`Start` without a word (411, 416, 423, 430, 434, 445, 453, 469).  A call of `Close` whose frame is never
written (`Dispatch` blocks before line 117) does not get as far as the timer; the module begins where
it has been written or refused, and `CloseEnds` is about calls that have set `startClose`.  `StartCall` is the
first call of `Start` and also `ReStart` and the pool's retry, which call it again after it returned.

### Heartbeat

Time is counted in ticks from the last call of `Ping`, `TicksPerSecond` of them a second, so no clock grows.
`phase` is the part of a second at that call: `time.Unix` cuts it off, and `PongAfter` computes
`lastPong - lastPing` as the code does, which depends on it.  `Ping` sets `lastPing` and only then
dispatches; a ping of `KeepPing` may wait up to `MaxDelay` ticks for `writeLock` and the write, and the
sleep starts behind it.  Each ping on the wire has two ages, since its call and since its write.

| Action | Code |
|---|---|
| `KeepPingCalls`, `ApplicationCalls` | `Ping` 148-151, called by either goroutine: `lastPing` is set |
| `PingRefused`, `PingAllowed`, `PingWritten` | its `Dispatch`: the wait for `writeLock`, the status test 278-285, the write 299 |
| `Wake`, `SetTimeout`, `SetReady` | 168-182, the test and the two `updateStatus`, which another goroutine may come between |
| `Tick` | time passes while `KeepPing` waits or sleeps |
| `RefreshPongTime` | 153-155, for any of the pings that the peer has not answered |
| `PeerDies` | from here on nothing is answered |
| `StartCall`, `StartReturns` | Ready and Closed, set by `Start` |

### Handshake

Headers are what the two ends make of them: a `Request` and a `Response` of four fields each.  The byte
stream to each end is a sequence of numbers, 0 for the request or response and `i` for the `i`-th frame
behind it, so that a buffer that takes in more than the response can be seen to lose frames.  `cut` says
that it has taken in a part of the next one, too: what `Start` reads from there on is out of step, and
`ReadGarbled`, `GarbledError` and waiting for ever are what can become of it.

| Action | Code |
|---|---|
| `DialSetup`, `DialTLS` | `setup` and the dial, 33-74 of `client.go`, with their errors; `tls.Dial` may wait for ever |
| `SendRequest`, `ReadResponse` | 81-110 and 111-186; deadlines, `ExtraHeaders`, every refusal |
| `DialFails`, `NegotiateFails` | the request or the response cannot be used: the socket is closed |
| `Hijack`, `Accept`, `AcceptFails`, `Refuse` | `TakeOver`, with the write of the response and its error |
| `Reply` | a server that is not webson answers anything |
| `HangUp` | `net/http` closes what was not taken over |
| `Prepare`, `WriteFrame`, `ReadFrame`, `ReadGarbled`, `ReadShort`, `ReadError`, `End`, `Close` | `prepare` and the first frames of `Start` and `Dispatch` at either end |

### Events

A Go slice is a header over cells that copies of it share.  `arrays` are the cells, `pool` the header of
`eventPool`, and `loop` the `range` loops of `updateStatus` and `triggerMessage`, each with the header it
began with.  How long an array `append` makes is the runtime's choice: `Capacity` is a parameter of which
only enough room is assumed, and the run doubles the array, as Go does for slices this short.

| Action | Code |
|---|---|
| `Apply`, `Revoke` | 303-318: `append` in place or to a new array, the shift in place |
| `LockStatus`, `StatusHandler`, `UnlockStatus` | `updateStatus`, one round of its loop at a time, with `statusLock` held |
| `ReadMessage`, `TriggerHandlers`, `MessageHandler`, `Triggered` | `triggerMessage`, called by `Start` |
| `HandlerReturns` | the application's handler, with `Synchronize`; it may call `Close` before |
| `Start`, `EnterLoop`, `LeaveLoop`, `Return`, `Close`, `PongLate`, `PongBack` | who calls `updateStatus`, and with what |

### Pool

`run` is where a connection stands: its `Add`, then the goroutine `startClient` or `startServer`.

| Action | Code |
|---|---|
| `AddNode`, `AddRefuse`, `AddEntry` | `Add`: `c.node` is set before the lock is taken |
| `Start`, `StartReturns`, `Retry`, `Wake`, `RemoveSelf` | `startClient`, `startServer` 140-157 |
| `CastOut`, `CastOutLookup`, `CastOutFound` | 159-174; by name, the lock is released between lookup and removal |
| `Broadcast`, `CloseMembers` | the six broadcasts 176-239 and the range of `Close` 244-248 take `poolLock` and settle whom they go to |
| `DispatchTo`, `DispatchWrites`, `DispatchReturns`, `RangeEnd` | one connection after the other, each `Dispatch` with `poolLock` held to its return |
| `Close`, `Wait` | 241-265 |

`RemoveConn` is the body of `remove`: it deletes by name, in the map and in one of the lists.  Of a
member only its status, its socket and whether it was closed are modelled; that a closed `Start`
returns is `CloseEnds` of `Lifecycle`, taken as fairness here, except for the connections in `MayBlock`: their
`Dispatch` and `Start` may go on for ever, as a write without a deadline does whose peer takes nothing, or
a message that waits for a `streamIdLock` left locked at `connection.go:264`.  The slice of a broadcast is `payload`:
`assemble` of a plain client connection masks it in place.  The receivers of a broadcast are visited in
any order, which Go's map iteration allows for the entries; for the two lists it is more than the code does.

### How the modules fit together

`Transfer` composes `Sender` and the reader; `TransferImplementsSender` is what makes the theorems of
`Sender` available there.  The other modules share no variables but fit at their edges: `Sender` and
`Events` let the status move at least as freely as `Lifecycle` and `Heartbeat` do; `Receiver` is fed by a
peer that keeps what `StreamIdExclusive` and `OneMessageAtATime` say; `Lifecycle` lets `KeepPing` see a
late pong at any time, `Heartbeat` says when it really does; `Pool` assumes of a member what `CloseEnds`
says; and `nego` of `Transfer` is the same at both ends by `Agreement`.

## 3. Runs

All runs end in under four minutes with two workers.  Deadlock is not checked: calls are finite, so
every system here comes to rest by design (a connection that is closed, a peer that sends no more).

| Run | Bounds | Shows |
|---|---|---|
| `sender` | 3 calls, 1 or 2 ids or plain, 2 frames a message, control messages too | `StreamIdExclusive`, `OneMessageAtATime`, `InUseIsExact`, and `SenderInv`, the invariant of the proofs |
| `transfer` | 2 calls, 1 or 2 ids or plain, 2 frames; payloads of 65534 and 124 bytes, limits of 65536; `Cuts = FALSE` | `ChannelSpec` (the refinement), `WireIsReadable`, `RefusedOnlyWhenSpent`, `SentArrives`, `Returns` |
| `receiver` | 2 streams or plain, 3 frames, channel of 1 | `TypeOK`, `Faithful`, `EndMeansWhole`, `PanicOnlyAfterClose`, `PendingIsUnfinished` |
| `receiver_live` | 1 stream or plain, 2 frames, channel of 1 | `EndedIsRead`, `MergeReturns`, `CleanEndsRange` |
| `lifecycle` | 2 ends, 2 calls of Close at one end, 1 late pong, 1 frame in flight | `OneTimer`, `ReturnedIsClosed` |
| `lifecycle_live` | 2 ends, 1 call of Close, no late pong | `CloseEnds`, `CloseReleases`, `PeerLearns` |
| `heartbeat` | a ping every 3 s, `PongTimeout` 1 s, 2 ticks a second, a wait of 4 ticks, 1 `Ping` of the application, 2 pings unanswered | `AlarmMeansLate`, `LatePongIsNoticed`, `TimeoutEnds` |
| `heartbeat_silence` | the same, no `Ping` of the application | **violated** `SilenceIsNoticed` |
| `handshake` | 8 configurations at each end, a limit of 4 streams, 2 frames a side, foreign servers | `Agreement`, `SafeUnlessEarly`, `StrangersDontTalk`, `DialReturns`, `ServerLearns`, `TalkArrives` |
| `events` | 3 handlers, 2 messages, 3 calls of Apply, Revoke, Close and KeepPing | `NoStranger`, `OnReadyOnce`, `UndisturbedLoopIsWhole`, `StatusCallReturns` |
| `pool` | 1 client with 1 retry, 1 server that may block, 2 names | `TypeOK`, `TablesAgree`, `CloseWaits`, `CloseReturns` |
| `pool_broadcast` | the same, the client masks in place | **violated** `BroadcastIntact` |

The type invariants that are proved are not checked again by the runs.

**Why the bounds are enough.**

* *Sender:* three calls are one more than there are ids, so ids run out, wrap round and are reused while
  their former holder has its last frame in hand; with two frames a message can be interrupted between
  its first and its last one.  The proofs remove these bounds.  Calls are symmetric.
* *Transfer:* two calls are enough for one message to come between the frames of another.  With two ids each
  has its own; with one, the second call takes it over from the first before the last frame of the first is
  out, or finds it taken, which is the leak of `connection.go:264`.  The chunk of 65534 bytes becomes 65536 with
  its stream header, the last class of lengths and the edge of both limits at once; 124 becomes 126, the edge
  of the first class.  A cancel bit of 4 leaves room for the two ids below it, as 2^15 does for
  `MAX_STREAMS_IN_THEORY - 1`.
* *Receiver:* three frames on two streams give a message of three fragments, two interleaved messages,
  and two messages on one stream one after the other; a channel of one is full after ReadIter's own send,
  so merge has to wait.
* *Lifecycle:* two closers race for `startClose`, with `Start`'s own close as the third; one late pong is
  enough to set `timeout`, after which KeepPing may write Ready any number of times.  With one frame in
  flight to each end, a second one is dropped, which stands for loss.
* *Heartbeat:* with half seconds a difference of one second may be cut off to one or count as two; two
  unanswered pings let the pong of an earlier one come in after the later one was sent.  A wait of four
  ticks, two seconds, makes a pong that comes at once look late, wherever the second began; one `Ping` of the
  application can come at every point of a round.
* *Handshake:* the configurations have `MaxStreams` negative, left out, one, at the limit and beyond it, with
  and without compression and streams; two frames let the first be lost and the second arrive, or be cut.
* *Events:* three handlers are the fewest for a loop that has one behind it, one revoked and one to come;
  three calls are a Revoke, an Apply into the cell that it freed, and one more.
* *Pool:* two names for two connections make names clash and come back after a CastOut.  One retry is
  enough for a member to sleep while the pool closes.  `Size` is 0, no limit, so that `CloseReturns` meets
  an `Add` behind `Close`; the proofs hold for every size.

**Fairness.**  A goroutine that can take a step eventually takes it (weak fairness), which is what the Go
scheduler gives.  Go's mutexes switch to a hand-over mode for a waiter of one millisecond, so waiting
for a mutex that is released again and again ends: strong fairness where a step takes `writeLock`,
`streamIdLock`, `updateLock`, `statusLock` or `poolLock`.  A goroutine has one step at a time, so one
condition per goroutine covers all its steps.  `CloseTimeout` and the handshake's deadline pass.  Nothing
else is fair: no application has to call anything, no peer has to send or answer, no handler has to return
(`StatusCallReturns`), and the network may stay silent for ever.  `EndedIsRead` assumes a handler that goes
on ranging, as README.md:303 shows it.  In `Pool`, `Start` of a connection that was closed, or whose
socket is dead, returns, and so does its `Dispatch`, unless the connection is in `MayBlock`.  In `Sender`,
`Transfer` and `Heartbeat` a write on the socket returns, and in the first two the `io.Reader` of
`DispatchReader` does; `Returns` is about the locks of the sending side and no more.  In `Handshake` nothing
is assumed of `tls.Dial`, nor of a `Start` that is out of step.

### What the violated properties say

1. `SilenceIsNoticed`: `KeepPing` compares `lastPong - lastPing`, which is negative as long as no pong has
   come since the last ping.  A peer that stops answering never causes `StatusTimeout`; only one that
   answers late does.
2. `BroadcastIntact`: a plain client masks the slice of a pool broadcast in place, so whoever comes after it
   is sent masked bytes.

### Other differences between code and documents

These are in the models as the code has them; the properties say around them what does hold.

| Where | What the code does | What the property says |
|---|---|---|
| `connection.go:264` | when the search for an id fails, `patchMsg` returns with `streamIdLock` held, and soon nobody sends; README.md:984 and 986 promise an error and a release | `Returns`: until then every call returns |
| `connection.go:262` | the search gives up at id 1 although other ids may be free | `InUseIsExact`: the table stays exact |
| `config.go:96` | lets 32768 streams through, whose top id is the cancel bit | `TopIdIsRefused`, a theorem |
| `connection.go:258` | takes `config.MaxStreams` where config.go:70 says the smaller of both is used | `Agreement`: the negotiated number is the same at both ends |
| `connection.go:390` | one `Read` is taken for a whole header: when the buffer ends within it fewer bytes come and no error, and `Start` ends on a good frame; README.md:897 says "Any Message will be parsed" | `ChannelSpec`: what was delivered until then is right |
| `connection.go:149` | `lastPing` is set before the ping waits for `writeLock` and the write, so a peer that answers at once is reported for that wait; config.go:61 counts from the ping | `AlarmMeansLate`: a pong came late after the call of its `Ping` |
| `connection.go:316` | `Revoke` shifts `eventPool` under the loop of `triggerMessage`, which skips the handler behind the revoked one; README.md:804 has it triggered | `UndisturbedLoopIsWhole`: no handler is skipped without a `Revoke` |
| `connection.go:110` | `cleanClose` may panic during a `ReadIter` | `PanicOnlyAfterClose`: nothing else panics |
| `connection.go:320` | OnReady never runs when Close comes before `Start` | `OnReadyOnce`: at most once |
| `connection.go:179` | KeepPing may set Ready after the connection is Closed, README.md:903 notwithstanding | `ReturnedIsClosed` excepts connections that have seen a timeout |
| `pool.go:143` | a retry starts a connection on the socket its last `Start` closed; README.md:419 speaks of reconnecting | `CloseReturns`: retries end |
| `client.go:112` | frames that arrive together with the response are lost with the buffer, and when it ends within one of them all that follows is read out of step; the server of the example `simple-echo` dispatches in OnReady | `SafeUnlessEarly`: only if the server wrote before it had read a frame |
| `client.go:45` | `tls.Dial` does the handshake of TLS without a deadline, HandshakeTimeout (config.go:60) notwithstanding | `DialReturns`: all of `negotiate` behind it ends |
| `pool.go:182` | a broadcast keeps `poolLock` while one member's write blocks; nobody can add, cast out or close | `CloseReturns`: nothing else holds `Close` up |
| `config.go` `AlwaysMask` | is documented (README.md:451) and never read | the server's frames are not masked |

## 4. Proofs

The theorems hold for every value of the constants that the module's named `ASSUME` allows, and for the
whole of `Spec`.  Each safety proof follows the same argument: an invariant `...Inv` is stronger than
what one wants to know, because whether a step breaks the property depends on where the other goroutines
stand; it holds initially, every action preserves it (a lemma with one step per action), and it implies
the property.

**SenderProofs** (any calls, `MaxStreams > 0`, any number of chunks): `InUseIsExactTheorem`,
`StreamIdExclusiveTheorem`, `OneMessageAtATimeTheorem`.  The parts of `SenderInv`:

* `LockInv`: which calls own `writeLock`, namely those in a critical stretch.
* `PlaceInv`: what the place of a call implies for its id, its tag and `freed`.
* `IdInv`: ids in use and their holders correspond, one to one.
* `WireInv`, `FinIsLast`: what a frame on the wire says of its writer; the final frame ends a call.
* `FreedIsEnded`: a call that released its id and left the critical stretch has its final frame on the
  wire, unless the socket is closed.
* `HandOver`: between the release and the final frame, the new holder of the id has written
  nothing.  This is the heart of exclusivity: the release happens under `writeLock`, and the new
  holder cannot write a frame without it.
* `PlainInv`: on a plain connection, only the last message on the wire may be unfinished.

`CopyFrame`, the only action that grows the wire, is the hard case and has a lemma of its own for each
part about the wire.  `StreamIdExclusive` is not a part of the invariant: it is preserved because only
`CopyFrame` changes the wire (`WireGrows`), and because an earlier writer on the same id must then
have its final frame out (`EarlierHolderEnded`).

`MessageInvariant` adds to it what the wire holds of each message: a gapless prefix of its frames, each
once and in order (`PartInv`), and nothing behind its final or its cancelling frame (`EndInv`, `TagInv`).

**TransferProofs** begins with the codec: `FrameRoundTrip`, what `assemble` writes `parseMeta` and
`Start` read back, for every size, flag and stream id below the cancel bit; `SendableIsAccepted`;
`TopIdIsRefused`.  The leaves are arithmetic of `%` and `\div`, with lemmas for the divisor that is no
literal.  Then the composition: `TransferImplementsSender` (each step is one of `Sender` or leaves it
alone); `TransferTypeOKTheorem`; `WireIsReadableTheorem`, from the round trip, for `MaxStreams <
CancelBit`; `RefusedOnlyWhenSpentTheorem`, for the same and frames that fit: a frame without an id comes
only from a call that got none (`SpentInv`), `streamIdLock` then stays locked (`LockIsKept`), control
frames are in one piece (`ControlFrameInv`, from `OneFrame`), and a frame with an id is read
(`GoodFrameIsRead`).  What `ReadShort` does to `Start` it does not deny: that is a reader that ended, not a
frame that was refused for what it says.

*The refinement.*  `TransferImplementsChannel` is `TransferSpec => ChannelSpec`, for any calls, ids and
frames, with two hypotheses: `MaxStreams < CancelBit`, as the id 32768 is no id to the reader
(`TopIdIsRefused`), and `Cuts = FALSE`, as a plain message that was cut short is spliced with the next
(see `Cuts` above; a streamable connection cuts nothing short either way).  It rests on three invariants:

1. `MessageInv` of `Sender`, above.
2. `UncutInvariant`: on a plain connection a frame of another message comes only behind the final frame
   of the one before it (`PlainWhole`), for which a call that returned unfinished must have left the
   status out of Ready (`PlainEnd`).
3. `ReaderInvariant`: the messages delivered are those of the first final frames (`CountInv`,
   `MatchInv`), and what the reader holds for a stream is the prefix of the one message on it whose end
   it has not read (`PendingInv`).

When the final frame of a message arrives, the third says that the reader holds all the frames before
it, so the delivered sequence is `Whole`, and it is the next one in the order of `finals`: a `Deliver`
of the channel.  A last frame written is a `Commit`, a return without one a `Fail`; every other step
changes nothing the channel shows.  `MessagesInOrderOnce` says what follows for an application: the
messages it gets are whole, in the order in which they were finished, each at most once.

**ReceiverProofs** (any number of streams and frames, any size of the channel): `TypeCorrect`,
`FaithfulTheorem`, `EndMeansWholeTheorem`, `PanicOnlyAfterCloseTheorem`, `PendingIsUnfinishedTheorem`.
What a handler gets is spread over what it has read, the channel and the buffer; `ContentOf` joins the
three, and the parts of `ReceiverInv` speak of that:

* `WholeInv`: the content of a message is a gapless beginning of one message of the peer.
* `StreamInv`: the content of the pending message of a stream ends with the last frame the peer sent on
  it, except while the reader has just that frame in hand (`HandInv`).  So a merge continues the message.
* `EndInv`: what counts as ended (`isComplete`, a closed channel, a loop that is over) has its final frame.
* `HandlerInv`, `LockInv`, `DrainInv`: where handler and reader stand, who has `updateLock`, and that
  whoever is about to send or close has an open channel, as long as the connection is not closed.
* `FreshInv`, `CleanInv`: messages not yet created are empty; `cleanClose` runs only when `closed` is set.

The channel joins frames with `FlattenSeq`, which the library defines by a recursive function.  What it
does to a sequence that grows at the end and shrinks at the front (`FlattenAppend`, `FlattenHead`) is an
induction over data; it is done by the least counterexample, which exists because the intervals `0 .. n`
are well founded under inclusion (`LeastOf`), so no theorem with an operator parameter is needed.

**EventsProofs** (any number of handlers, goroutines, messages and calls, any `Capacity` with enough
room): `NoStrangerTheorem`, `OnReadyOnceTheorem`, and the action property
`UndisturbedLoopIsWhole` as `UndisturbedTheorem`.  A loop reads cells that others write behind it, so the
invariant says of every cell that a loop can still come to, or that a `Revoke` can still move there
(`Reach`), that it holds a handler seen since the loop began; and of a loop whose array no `Revoke` has
shifted, that its cells are as they were and that it has done a prefix of them (`LoopOK`).  `append` in
place writes only beyond the pool's length, which no such loop reaches.  `LoopMoves` lists what a step
can do to a loop.

**HandshakeProofs** (any set of configurations, any limits): `AgreementTheorem`, `SafeUnlessEarlyTheorem`,
`StrangersDontTalkTheorem`.  The invariant follows the outcome on its way: what the request says of the
client's configuration (`RequestInv`), what the response says of the server's outcome (`ResponseInv`),
and what both ends hold after it (`OutcomeInv`); the lemma `SameOutcome` is the arithmetic of both
sides' minimum.  `StreamInv` numbers the items on the byte stream: what was read, lost and is under way
is, put together, exactly what was written, also behind a buffer that ended within a frame; and the items
that can be in a dropped buffer were written early.

**HeartbeatProofs** (any interval, timeout, resolution, wait and number of calls): `AlarmMeansLateTheorem`.
No ping, on the wire (`NoYoungerPing`) or waiting to be written (`NoYoungerCall`), was called after the call
that set `lastPing` last; so a pong that counts as late after that call is late after its own.
`MoreThanSeconds` is the lemma about seconds that are cut off.

**LifecycleProofs** (any calls of Close, late pongs and frames): `OneTimerTheorem`,
`ReturnedIsClosedTheorem`, from `TimerInv` (who is between the test of `startClose` and the start of
the timer) and `ClosedInv` (who may still write a status once `Start` has returned).

**PoolProofs** (any connections, names, size and retries): `TypeCorrect`, `TablesAgreeTheorem`,
`CloseWaitsTheorem`, from `MemberInv`, `MapInv` and `ListInv`.  No list names a connection twice, so that
an entry is counted once (`OnceInList`); `remove` takes the *first* connection of a name off a list, and
this is the right one because two that are running can share a name only if it is `Renewed`
(`RemoveStep`).

**Only model-checked.**  All liveness: `StatusCallReturns`, `CloseReturns`, `CloseEnds`, `CloseReleases`,
`PeerLearns`, `EndedIsRead`, `MergeReturns`, `CleanEndsRange`, `SentArrives`, `Returns`, `DialReturns`,
`ServerLearns`, `TalkArrives`, `LatePongIsNoticed`, `TimeoutEnds` (they need fairness, and the prover has no
ENABLED).  Every invariant and every other action property of a passing run is a theorem.

## 5. Not modelled

* Payload bytes, and with them masking, deflate and UTF-8.  `assemble` drops the last four bytes of every
  compressed frame by itself; whether a message of several such frames can be inflated takes the format of
  deflate to say.  That masking happens in place is in `Pool`.
* `parseUrl`, the layout of headers, HTTP status codes, error texts and logging.
* Goroutines that write the header of `eventPool`, or `pendingStreams`, at the very same time: what Go
  makes of such a data race on a multi-word value or a map is not a matter of the code.
* Changes of the two event maps after `Start`.
* More than one handler that reads the same message (a message handler and a pool handler share its
  buffer); with `Synchronize` handlers run on the read loop, and `Read` and `ReadIter` of unfinished
  messages are refused, so the hazards of `Receiver` do not arise.
* Writes of a second `Dial` with the same `DialConfig` (`client.go:42`): `ReStart` discards the connection
  it dials in any case.
* A second `Add` of a connection that is a member: `pool.go:82` gives it the new name before the check
  refuses it, and its entry under the old one stays.
* How long a call of `Close` takes to write its frame (`Lifecycle` begins behind it; `Pool` has the effect on
  `poolLock`).
* The order of the handlers of one message with `Synchronize`: it follows from the two tests of
  `triggerMessage` on the one goroutine that runs it, and a property would say them again.
* The end of the goroutine of `KeepPing`: nothing promises it, and normally it does not end.
* Examples and tests: applications of the library.

## 6. Plan

Done: `Sender`, `Receiver`, `Lifecycle`, `Pool`, `FrameCodec`, `MessageChannel` and `Transfer`, `Heartbeat`,
`Handshake`, `Events`, and proofs of every safety property the runs check.

What would come next:

1. Theorems about what the modules assume of each other: that `Lifecycle`'s and `Heartbeat`'s statuses are
   behaviours of the free status of `Sender` and `Events`.
2. `Receiver` fed by the wire of `Transfer` instead of its own peer, on the smallest instance, and the
   peer of `Receiver` shown to be what `MessageInvariant` says of `Sender`'s wire.
3. The capacity of `Cuts`: the weakest condition under which a plain connection splices no messages.
4. An abstract deflate, with sync markers as symbols, for the compression of split messages.

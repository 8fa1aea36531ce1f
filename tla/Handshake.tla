----------------------------- MODULE Handshake -----------------------------
(***************************************************************************)
(* The opening of a connection: Dial and negotiate at the client, TakeOver *)
(* at the server, over a byte stream that delivers in order, and the first *)
(* frames behind it.  Each side reads the handshake through a buffer that  *)
(* may take in more than the handshake, up to the middle of a frame, and   *)
(* is then dropped.  TCP may deliver the header of a frame in pieces.      *)
(*                                                                         *)
(* Headers are what the two ends make of them.  On the stream 0 stands for *)
(* the request or the response, i > 0 for the i-th frame of that side.     *)
(* The server may be a foreign one that answers anything, or never.        *)
(***************************************************************************)
EXTENDS Integers, Sequences, SequencesExt

CONSTANTS Configs,             \* the configurations either end may have
          DEFAULT_MAX_STREAMS,
          MAX_STREAMS_IN_THEORY,
          ExtraStreams,        \* the Webson-Max-Streams of ExtraHeaders
          NotANumber,          \* a Webson-Max-Streams that Atoi refuses
          MaxFrames            \* bound: frames of one side

Config == [enableStreams : BOOLEAN, maxStreams : Int, enableCompress : BOOLEAN]

ASSUME HandshakeAssumption ==
  /\ Configs \subseteq Config
  /\ MAX_STREAMS_IN_THEORY \in Nat
  /\ DEFAULT_MAX_STREAMS \in 1 .. MAX_STREAMS_IN_THEORY
  /\ ExtraStreams \in Int /\ NotANumber \in Int /\ NotANumber < 0
  /\ MaxFrames \in Nat

VARIABLES
  conf,      \* each end's Config
  place,     \* where each end is
  nego,      \* each end's negoSet
  request,   \* what the request says
  response,  \* what the response says
  link,      \* for each end, what is on its way to it
  open,      \* each end's socket
  deadline,  \* the client's socket has a read deadline
  got,       \* history: the frames each end's Start has read
  cut,       \* each end's dropped buffer has taken in a part of the next frame
  lost,      \* history: the frames in each end's dropped buffer, or read out of step
  wrote,     \* history: the frames each end has written
  early,     \* history: the frames the server wrote before it had read one
  given      \* what is fixed from the start: see Given

vars == <<conf, place, nego, request, response, link, open, deadline,
          got, cut, lost, wrote, early, given>>
talk == <<got, cut, lost, wrote, early>>

Ends    == {"client", "server"}
Peer(e) == IF e = "client" THEN "server" ELSE "client"
Places  == {"idle", "dialing", "dialed", "waiting", "prepare", "up", "failed",
            "broken", "short", "over"}

(***************************************************************************)
(* extra is the handshake header that DialConfig.ExtraHeaders sets, if     *)
(* any, maybe in another case: "streams", "extensions", "key" or one that  *)
(* the server refuses.  timeout is HandshakeTimeout > 0.                   *)
(***************************************************************************)
Given == [extra : {"none", "streams", "extensions", "key", "refused"},
          sameKey : BOOLEAN, foreign : BOOLEAN, timeout : BOOLEAN]

Negotiated == [streamable : BOOLEAN, maxStreams : Int, compressable : BOOLEAN]
Request    == [wellFormed : BOOLEAN, challenge : BOOLEAN,
               streams : SUBSET Int, deflate : BOOLEAN]
Response   == [switching : BOOLEAN, accept : BOOLEAN,
               streams : SUBSET Int, deflate : BOOLEAN]

NoNego     == [streamable |-> FALSE, maxStreams |-> 0, compressable |-> FALSE]
NoRequest  == [wellFormed |-> FALSE, challenge |-> FALSE, streams |-> {}, deflate |-> FALSE]
NoResponse == [switching |-> FALSE, accept |-> FALSE, streams |-> {}, deflate |-> FALSE]

TypeOK ==
  /\ conf \in [Ends -> Config]
  /\ place \in [Ends -> Places]
  /\ \A e \in Ends : place[e] \in {"prepare", "up"} =>
       conf[e].maxStreams <= MAX_STREAMS_IN_THEORY
  /\ nego \in [Ends -> Negotiated]
  /\ request \in Request /\ response \in Response
  /\ link \in [Ends -> Seq(0 .. MaxFrames)]
  /\ open \in [Ends -> BOOLEAN]
  /\ deadline \in BOOLEAN
  /\ got \in [Ends -> Seq(1 .. MaxFrames)]
  /\ cut \in [Ends -> BOOLEAN]
  /\ lost \in [Ends -> Nat]
  /\ wrote \in [Ends -> 0 .. MaxFrames]
  /\ early \in 0 .. MaxFrames
  /\ given \in Given

Init ==
  /\ conf \in [Ends -> Configs]
  /\ place = [e \in Ends |-> "idle"]
  /\ nego = [e \in Ends |-> NoNego]
  /\ request = NoRequest
  /\ response = NoResponse
  /\ link = [e \in Ends |-> << >>]
  /\ open = [e \in Ends |-> FALSE]
  /\ deadline = FALSE
  /\ got = [e \in Ends |-> << >>]
  /\ cut = [e \in Ends |-> FALSE]
  /\ lost = [e \in Ends |-> 0]
  /\ wrote = [e \in Ends |-> 0]
  /\ early = 0
  /\ given \in Given

Goto(e, p) == place' = [place EXCEPT ![e] = p]

\* Bytes for an end whose socket is closed are dropped.
Put(e, x) == link' = [link EXCEPT ![e] = IF open[e] THEN Append(@, x) ELSE @]

Lesser(a, b) == IF a < b THEN a ELSE b

\* The value of a header that is there once.
ValueOf(values) == CHOOSE n \in values : TRUE

-----------------------------------------------------------------------------
(* Config.setup: the defaults, and the one limit of a stream id. *)

Setup(c) ==
  [c EXCEPT !.maxStreams =
     IF ~c.enableStreams THEN 0 ELSE IF @ = 0 THEN DEFAULT_MAX_STREAMS ELSE @]

SetupRefuses(c) == Setup(c).maxStreams > MAX_STREAMS_IN_THEORY

-----------------------------------------------------------------------------
(* The client: Dial and negotiate. *)

\* net.Dial connects, or fails; tls.Dial then goes on with the handshake of TLS.
DialSetup ==
  /\ place["client"] = "idle"
  /\ conf' = [conf EXCEPT !["client"] = Setup(@)]
  /\ IF SetupRefuses(conf["client"])
       THEN Goto("client", "failed") /\ UNCHANGED open
       ELSE \/ /\ \E p \in {"dialing", "dialed"} : Goto("client", p)
               /\ open' = [e \in Ends |-> TRUE]
            \/ Goto("client", "failed") /\ UNCHANGED open
  /\ UNCHANGED <<nego, request, response, link, deadline, talk, given>>

\* tls.Dial returns: no deadline is set yet, the peer may keep it waiting for ever.
DialTLS ==
  /\ place["client"] = "dialing"
  /\ \/ open["server"] /\ Goto("client", "dialed") /\ UNCHANGED open
     \/ Goto("client", "failed") /\ open' = [open EXCEPT !["client"] = FALSE]
  /\ UNCHANGED <<conf, nego, request, response, link, deadline, talk, given>>

(***************************************************************************)
(* The headers that negotiate sends.  EnableStreams and EnableCompress     *)
(* overwrite what ExtraHeaders says; in another case both are sent, in any *)
(* order, and the server looks at the first one.                           *)
(***************************************************************************)
StreamsHeaders ==
  LET own == IF conf["client"].enableStreams THEN {{conf["client"].maxStreams}} ELSE {}
      ext == IF given.extra = "streams" THEN {{ExtraStreams}} ELSE {}
  IN  IF own \cup ext = {} THEN {{}} ELSE own \cup ext

\* Seeded fault: the read deadline is not set.
SendRequestNoDeadline ==
  /\ place["client"] = "dialed"
  /\ \E s \in StreamsHeaders :
       request' = [wellFormed |-> given.extra # "refused",
                   challenge  |-> given.extra # "key",
                   streams    |-> s,
                   deflate    |-> conf["client"].enableCompress \/ given.extra = "extensions"]
  /\ Put("server", 0)
  /\ UNCHANGED deadline
  /\ Goto("client", "waiting")
  /\ UNCHANGED <<conf, nego, response, open, talk, given>>

SendRequest ==
  /\ place["client"] = "dialed"
  /\ \E s \in StreamsHeaders :
       request' = [wellFormed |-> given.extra # "refused",
                   challenge  |-> given.extra # "key",
                   streams    |-> s,
                   deflate    |-> conf["client"].enableCompress \/ given.extra = "extensions"]
  /\ Put("server", 0)
  /\ deadline' = given.timeout
  /\ Goto("client", "waiting")
  /\ UNCHANGED <<conf, nego, response, open, talk, given>>

\* Seeded fault: the accept key is not compared with the challenge.
ResponseOKAnyKey ==
  /\ response.switching
  /\ ~(conf["client"].enableStreams /\ response.streams = {NotANumber})

\* The status row, the accept key and a Webson-Max-Streams that is a number.
ResponseOK ==
  /\ response.switching
  /\ response.accept
  /\ ~(conf["client"].enableStreams /\ response.streams = {NotANumber})

\* Seeded fault: the client takes its own MaxStreams.
ClientNegoOwn ==
  LET streams == {n \in response.streams : n > 0 /\ conf["client"].enableStreams}
  IN  [ streamable   |-> streams # {},
        maxStreams   |-> IF streams # {} THEN conf["client"].maxStreams ELSE 0,
        compressable |-> conf["client"].enableCompress /\ response.deflate ]

ClientNego ==
  LET streams == {n \in response.streams : n > 0 /\ conf["client"].enableStreams}
  IN  [ streamable   |-> streams # {},
        maxStreams   |-> IF streams # {}
                           THEN Lesser(conf["client"].maxStreams, ValueOf(streams))
                           ELSE 0,
        compressable |-> conf["client"].enableCompress /\ response.deflate ]

(***************************************************************************)
(* A buffered reader has taken in the first k items of the stream, the     *)
(* handshake and k - 1 frames, and, if c, a part of the next frame.        *)
(***************************************************************************)
TakenIn(e, k, c) ==
  /\ k \in 1 .. Len(link[e]) /\ (c => k < Len(link[e]))
  /\ lost' = [lost EXCEPT ![e] = k - 1]
  /\ cut' = [cut EXCEPT ![e] = c]

Behind(e, k) == SubSeq(link[e], k + 1, Len(link[e]))

\* negotiate is through with the response, and its reader is dropped.
ReadResponse(k, c) ==
  /\ place["client"] = "waiting"
  /\ TakenIn("client", k, c)
  /\ ResponseOK
  /\ nego' = [nego EXCEPT !["client"] = ClientNego]
  /\ link' = [link EXCEPT !["client"] = Behind("client", k)]
  /\ Goto("client", "prepare")
  /\ UNCHANGED <<conf, request, response, open, deadline, got, wrote, early, given>>

\* Seeded fault: the socket is left open when negotiate fails.
DialFailsOpen ==
  /\ Goto("client", "failed")
  /\ UNCHANGED open

\* Dial returns an error, and the deferred function of negotiate closes the socket.
DialFails ==
  /\ Goto("client", "failed")
  /\ open' = [open EXCEPT !["client"] = FALSE]

\* The Write fails, the deadline is over, the stream ends, or the response (or
\* HeaderVerify) is not what it should be.
NegotiateFails ==
  /\ \/ place["client"] = "dialed" /\ ~open["server"]
     \/ place["client"] = "waiting" /\ deadline
     \/ place["client"] = "waiting" /\ link["client"] = << >> /\ ~open["server"]
     \/ place["client"] = "waiting" /\ link["client"] # << >>
  /\ DialFails
  /\ UNCHANGED <<conf, nego, request, response, link, deadline, talk, given>>

-----------------------------------------------------------------------------
(* The server: net/http and TakeOver. *)

MayTakeOver ==
  /\ ~given.foreign
  /\ place["server"] = "idle"
  /\ link["server"] # << >>

Acceptable ==
  /\ request.wellFormed
  /\ ~SetupRefuses(conf["server"])
  /\ Setup(conf["server"]).maxStreams > 0 => \A n \in request.streams : n > 0

ServerNego(c) ==
  LET streamable == c.maxStreams > 0 /\ request.streams # {}
  IN  [ streamable   |-> streamable,
        maxStreams   |-> IF streamable
                           THEN Lesser(ValueOf(request.streams), c.maxStreams)
                           ELSE c.maxStreams,
        compressable |-> c.enableCompress /\ request.deflate ]

\* The headers of the response, from what the server has settled on.
ResponseFor(n) ==
  [ switching |-> TRUE,
    accept    |-> given.sameKey /\ request.challenge,
    streams   |-> IF n.streamable THEN {n.maxStreams} ELSE {},
    deflate   |-> n.compressable ]

\* TakeOver hijacks the connection, and drops the reader of net/http.
Hijack(k, c) ==
  /\ MayTakeOver
  /\ TakenIn("server", k, c)
  /\ Acceptable
  /\ conf' = [conf EXCEPT !["server"] = Setup(@)]
  /\ UNCHANGED <<request, deadline, got, wrote, early, given>>

\* The response with status 101 is written, and the connection made.
Accept(k, c) ==
  /\ Hijack(k, c)
  /\ nego' = [nego EXCEPT !["server"] = ServerNego(Setup(conf["server"]))]
  /\ response' = ResponseFor(ServerNego(Setup(conf["server"])))
  /\ link' = [link EXCEPT !["server"] = Behind("server", k),
                          !["client"] = IF open["client"] THEN Append(@, 0) ELSE @]
  /\ Goto("server", "prepare")
  /\ UNCHANGED open

\* A Write to a client that is gone may fail: TakeOver closes the socket.
AcceptFails(k, c) ==
  /\ Hijack(k, c)
  /\ ~open["client"]
  /\ Goto("server", "failed")
  /\ open' = [open EXCEPT !["server"] = FALSE]
  /\ UNCHANGED <<nego, response, link>>

\* sendHTTPError: the request is not acceptable, HeaderVerify refuses it, or the
\* connection cannot be hijacked.  net/http keeps the connection.
Refuse ==
  /\ MayTakeOver
  /\ conf' = [conf EXCEPT !["server"] = IF request.wellFormed THEN Setup(@) ELSE @]
  /\ Put("client", 0)
  /\ Goto("server", "failed")
  /\ UNCHANGED <<nego, request, response, open, deadline, talk, given>>

\* A foreign server answers what it likes.
Reply(r) ==
  /\ given.foreign
  /\ place["server"] = "idle"
  /\ link["server"] # << >>
  /\ response' = r
  /\ Put("client", 0)
  /\ Goto("server", "failed")
  /\ UNCHANGED <<conf, nego, request, open, deadline, talk, given>>

\* net/http or a foreign server gives up a connection that was not taken over.
HangUp ==
  /\ place["server"] \in {"idle", "failed"} /\ open["server"]
  /\ open' = [open EXCEPT !["server"] = FALSE]
  /\ Goto("server", "failed")
  /\ UNCHANGED <<conf, nego, request, response, link, deadline, talk, given>>

-----------------------------------------------------------------------------
(* Behind the handshake. *)

\* Seeded fault: prepare leaves the deadline of the handshake in place.
PrepareKeepDeadline(e) ==
  /\ place[e] = "prepare"
  /\ Goto(e, "up")
  /\ UNCHANGED <<conf, nego, request, response, link, open, deadline, talk, given>>

\* prepare, which clears the deadlines; the application starts the connection.
Prepare(e) ==
  /\ place[e] = "prepare"
  /\ Goto(e, "up")
  /\ deadline' = (IF e = "client" THEN FALSE ELSE deadline)
  /\ UNCHANGED <<conf, nego, request, response, link, open, talk, given>>

\* Seeded fault: the client does not wait for the response before it writes.
WriteFrameAtOnce(e) ==
  /\ place[e] \in {"waiting", "up"}
  /\ wrote[e] < MaxFrames
  /\ wrote' = [wrote EXCEPT ![e] = @ + 1]
  /\ early' = IF e = "server" /\ got["server"] = << >> THEN early + 1 ELSE early
  /\ Put(Peer(e), wrote[e] + 1)
  /\ UNCHANGED <<conf, place, nego, request, response, open, deadline, got, cut, lost, given>>

\* The application of either end writes, in OnReady or later.
WriteFrame(e) ==
  /\ place[e] = "up"
  /\ wrote[e] < MaxFrames
  /\ wrote' = [wrote EXCEPT ![e] = @ + 1]
  /\ early' = IF e = "server" /\ got["server"] = << >> THEN early + 1 ELSE early
  /\ Put(Peer(e), wrote[e] + 1)
  /\ UNCHANGED <<conf, place, nego, request, response, open, deadline, got, cut, lost, given>>

ReadFrame(e) ==
  /\ place[e] = "up" /\ ~cut[e]
  /\ link[e] # << >>
  /\ got' = [got EXCEPT ![e] = Append(@, Head(link[e]))]
  /\ link' = [link EXCEPT ![e] = Tail(@)]
  /\ UNCHANGED <<conf, place, nego, request, response, open, deadline, cut, lost,
                 wrote, early, given>>

\* Start takes the rest of a frame for a header, and n frames behind it for whatever
\* that header says: none of them is known to arrive.
ReadGarbled(e, n) ==
  /\ place[e] = "up" /\ cut[e]
  /\ link' = [link EXCEPT ![e] = Behind(e, n)]
  /\ lost' = [lost EXCEPT ![e] = @ + n]
  /\ UNCHANGED <<conf, place, nego, request, response, open, deadline, got, cut,
                 wrote, early, given>>

End(e, p) ==
  /\ place[e] = "up"
  /\ Goto(e, p)
  /\ open' = [open EXCEPT ![e] = FALSE]
  /\ UNCHANGED <<conf, nego, request, response, link, deadline, talk, given>>

\* Start returns with an error: the stream has ended, or a deadline is over.
ReadError(e) ==
  /\ \/ link[e] = << >> /\ ~open[Peer(e)]
     \/ e = "client" /\ deadline
  /\ End(e, "broken")

\* Start refuses what it takes for a frame; or it waits for the rest of it for ever.
GarbledError(e) == cut[e] /\ End(e, "broken")

\* Only a part of a header is there yet when Start reads it (connection.go:390, 410,
\* 415, 422): Read returns fewer bytes than asked for, and Start returns.
ReadShort(e) == link[e] # << >> /\ End(e, "short")

\* The application ends the connection.
Close(e) == End(e, "over")

-----------------------------------------------------------------------------
Negotiating == \/ DialSetup
               \/ SendRequest
               \/ \E k \in 1 .. Len(link["client"]), c \in BOOLEAN : ReadResponse(k, c)
               \/ NegotiateFails
               \/ Prepare("client")

TakingOver == \/ \E k \in 1 .. Len(link["server"]), c \in BOOLEAN :
                   Accept(k, c) \/ AcceptFails(k, c)
              \/ Refuse
              \/ Prepare("server")

Replies == [switching : BOOLEAN, accept : BOOLEAN, deflate : BOOLEAN,
            streams : {{}, {ExtraStreams}, {NotANumber}}]

Next ==
  \/ Negotiating
  \/ DialTLS
  \/ TakingOver
  \/ \E r \in Replies : Reply(r)
  \/ HangUp
  \/ \E e \in Ends : \/ WriteFrame(e) \/ ReadFrame(e) \/ ReadError(e) \/ ReadShort(e)
                      \/ GarbledError(e) \/ Close(e)
                      \/ \E n \in 1 .. Len(link[e]) : ReadGarbled(e, n)

Spec == Init /\ [][Next]_vars

\* Both programs run; a foreign server need not answer, nobody has to write, tls.Dial
\* and a Start that is out of step may wait for ever.
FairSpec ==
  /\ Spec
  /\ WF_vars(Negotiating)
  /\ WF_vars(TakingOver)
  /\ \A e \in Ends : WF_vars(ReadFrame(e) \/ ReadError(e))

-----------------------------------------------------------------------------
Established == {"prepare", "up", "broken", "short", "over"}

\* ExtraHeaders says nothing about what is negotiated, and the server is webson.
Plain == ~given.foreign /\ given.extra \notin {"streams", "extensions"}

(***************************************************************************)
(* config.go:70, "little one will be choosed": when the client's Dial has  *)
(* succeeded the server has taken over, and both ends hold the same        *)
(* outcome; a streamed frame or a compressed one would otherwise end the   *)
(* connection at the other end.  What they choose is in both configs.      *)
(***************************************************************************)
Agreement ==
  Plain /\ place["client"] \in Established =>
    /\ place["server"] \in Established
    /\ nego["client"].streamable = nego["server"].streamable
    /\ nego["client"].compressable = nego["server"].compressable
    /\ nego["client"].streamable =>
         /\ nego["client"].maxStreams = nego["server"].maxStreams
         /\ nego["client"].maxStreams \in 1 .. MAX_STREAMS_IN_THEORY
         /\ \A e \in Ends : nego[e].maxStreams <= conf[e].maxStreams

(***************************************************************************)
(* README.md:897, "Any Message will be parsed": an end reads the frames of *)
(* its peer in order and without a gap, unless the server wrote before it  *)
(* had read a frame of the client.  Those frames can be lost in the buffer *)
(* that negotiate drops (client.go:112), and when that buffer ends within  *)
(* one of them, all that follows is read out of step.  The reader that     *)
(* Hijack drops (server.go:92) never holds any part of a frame.            *)
(***************************************************************************)
SafeUnlessEarly ==
  /\ lost["server"] = 0 /\ ~cut["server"]
  /\ cut["client"] => early > 0
  /\ ~cut["client"] => lost["client"] <= early
  /\ \A e \in Ends : \A i \in DOMAIN got[e] : got[e][i] = lost[e] + i

(***************************************************************************)
(* README.md:441: MagicKey is "like a password".  Ends with different ones *)
(* exchange no frame in either direction, although the server, which       *)
(* checks nothing, believes the connection to be up.                       *)
(***************************************************************************)
StrangersDontTalk ==
  ~given.sameKey /\ ~given.foreign => \A e \in Ends : got[e] = << >>

(***************************************************************************)
(* config.go:60, HandshakeTimeout: once it has its socket, negotiate       *)
(* returns, whatever the server does or does not do.  Only tls.Dial, which *)
(* comes before the deadline (client.go:45, 109), can keep Dial for ever.  *)
(***************************************************************************)
DialReturns ==
  given.timeout /\ place["client"] # "dialing"
    ~> place["client"] \in {"dialing", "up", "failed", "broken", "short", "over"}

(***************************************************************************)
(* A server that has taken over a connection whose client then gave up     *)
(* (timeout, HeaderVerify, MagicKey) does not keep it for ever.            *)
(***************************************************************************)
ServerLearns ==
  place["client"] = "failed" ~> ~(place["server"] \in {"prepare", "up"})

(***************************************************************************)
(* Behind the handshake its timeout has no effect: a connection that is up *)
(* at both ends stays so and every frame on it is read, until one of the   *)
(* applications closes it, or a header comes in pieces, or if the dropped  *)
(* buffer ended within a frame.                                            *)
(***************************************************************************)
TalkArrives ==
  \A i \in 1 .. MaxFrames :
    wrote["server"] >= i /\ place["client"] = "up" /\ ~cut["client"] /\ i > lost["client"]
      ~> \/ Contains(got["client"], i)
         \/ \E e \in Ends : place[e] \in {"over", "short"}
=============================================================================

--------------------------- MODULE HandshakeProofs ---------------------------
(***************************************************************************)
(* What holds of Handshake for every set of configurations and every       *)
(* number of frames.  NegoInv follows the outcome of the negotiation from  *)
(* the request to both ends; StreamInv says what is on the byte stream,    *)
(* and that an end is in step with it unless its dropped buffer is cut.    *)
(***************************************************************************)
EXTENDS Handshake, TLAPS

\* The types that the proofs need; TypeOK adds the bounds.
Typed ==
  /\ conf \in [Ends -> Config]
  /\ place \in [Ends -> Places]
  /\ nego \in [Ends -> Negotiated]
  /\ request \in Request
  /\ response \in Response
  /\ link \in [Ends -> Seq(Nat)]
  /\ open \in [Ends -> BOOLEAN]
  /\ deadline \in BOOLEAN
  /\ got \in [Ends -> Seq(Nat)]
  /\ cut \in [Ends -> BOOLEAN]
  /\ lost \in [Ends -> Nat]
  /\ wrote \in [Ends -> Nat]
  /\ early \in Nat
  /\ given \in Given

\* What setup lets through.
Settled(c) == c.maxStreams <= MAX_STREAMS_IN_THEORY

\* The client has not sent its request yet.
BeforeRequest == {"idle", "dialing", "dialed"}

\* Until the request is sent the server has nothing to read and to answer.
QuietInv ==
  place["client"] \in BeforeRequest =>
    link["server"] = << >> /\ ~response.switching

\* What a request without ExtraHeaders says, behind setup.
RequestInv ==
  place["client"] \notin {"idle", "failed"} =>
    /\ Settled(conf["client"])
    /\ place["client"] \notin BeforeRequest /\ given.extra \notin {"streams", "extensions"} =>
         /\ request.streams =
              IF conf["client"].enableStreams THEN {conf["client"].maxStreams} ELSE {}
         /\ request.deflate = conf["client"].enableCompress

\* What a response of webson says is what the server took the connection over with.
ResponseInv ==
  ~given.foreign /\ response.switching =>
    /\ place["server"] \in Established
    /\ Settled(conf["server"])
    /\ conf["server"].maxStreams > 0 => \A n \in request.streams : n > 0
    /\ nego["server"] = ServerNego(conf["server"])
    /\ response.streams =
         IF nego["server"].streamable THEN {nego["server"].maxStreams} ELSE {}
    /\ response.deflate = nego["server"].compressable
    /\ response.accept => given.sameKey

\* A server answers once, after the request.
AnswerInv == response.switching => place["server"] # "idle"

\* A client that is through with the handshake has seen a response.
OutcomeInv ==
  place["client"] \in Established =>
    /\ response.switching /\ response.accept
    /\ nego["client"] = ClientNego

NegoInv == QuietInv /\ RequestInv /\ ResponseInv /\ AnswerInv /\ OutcomeInv

-----------------------------------------------------------------------------
(* The operators of Handshake. *)

\* A header that is there has one of its values.
LEMMA ValueOfMember ==
  ASSUME NEW values, values # {}
  PROVE  ValueOf(values) \in values
BY Zenon DEF ValueOf

\* A header that is there once has that value.
LEMMA ValueOfOne ==
  ASSUME NEW n, NEW values, values = {n}
  PROVE  ValueOf(values) = n
BY Zenon DEF ValueOf

\* setup makes a configuration of a configuration, and refuses what is too large.
LEMMA SetupType ==
  ASSUME NEW c \in Config
  PROVE  /\ Setup(c) \in Config
         /\ Setup(c).enableStreams = c.enableStreams
         /\ ~SetupRefuses(c) => Settled(Setup(c))
<1> DEFINE v == IF ~c.enableStreams THEN 0
                ELSE IF c.maxStreams = 0 THEN DEFAULT_MAX_STREAMS ELSE c.maxStreams
<1>1. Setup(c) = [c EXCEPT !.maxStreams = v]
  BY DEF Setup
<1>2. v \in Int
  BY HandshakeAssumption DEF Config
<1> HIDE DEF v
<1>3. Setup(c) \in Config /\ Setup(c).enableStreams = c.enableStreams
  BY <1>1, <1>2 DEF Config
<1> QED BY <1>3, HandshakeAssumption DEF SetupRefuses, Settled, Config

\* The headers of the request, as far as ExtraHeaders leaves them alone.
LEMMA PlainHeaders ==
  ASSUME given.extra # "streams"
  PROVE  StreamsHeaders =
           {IF conf["client"].enableStreams THEN {conf["client"].maxStreams} ELSE {}}
BY DEF StreamsHeaders

(***************************************************************************)
(* The heart of the negotiation: from a request for c and a response for s *)
(* both ends compute the same outcome, whatever the configurations are.    *)
(***************************************************************************)
LEMMA SameOutcome ==
  ASSUME Typed, Settled(conf["client"]), Settled(conf["server"]),
         request.streams =
           IF conf["client"].enableStreams THEN {conf["client"].maxStreams} ELSE {},
         request.deflate = conf["client"].enableCompress,
         conf["server"].maxStreams > 0 => \A n \in request.streams : n > 0,
         nego["server"] = ServerNego(conf["server"]),
         response.streams =
           IF nego["server"].streamable THEN {nego["server"].maxStreams} ELSE {},
         response.deflate = nego["server"].compressable
  PROVE  /\ ClientNego.streamable = nego["server"].streamable
         /\ ClientNego.compressable = nego["server"].compressable
         /\ ClientNego.streamable =>
              /\ ClientNego.maxStreams = nego["server"].maxStreams
              /\ ClientNego.maxStreams \in 1 .. MAX_STREAMS_IN_THEORY
              /\ ClientNego.maxStreams <= conf["client"].maxStreams
              /\ nego["server"].maxStreams <= conf["server"].maxStreams
<1> DEFINE c == conf["client"]
           s == conf["server"]
           n == nego["server"]
           heard == {i \in response.streams : i > 0 /\ c.enableStreams}
<1>1. c \in Config /\ s \in Config /\ n \in Negotiated
  BY DEF Typed, Ends
<1>2. /\ n.streamable <=> s.maxStreams > 0 /\ request.streams # {}
      /\ n.streamable => n.maxStreams = Lesser(ValueOf(request.streams), s.maxStreams)
      /\ n.compressable <=> s.enableCompress /\ request.deflate
  <2> DEFINE streamable == s.maxStreams > 0 /\ request.streams # {}
             max == IF streamable THEN Lesser(ValueOf(request.streams), s.maxStreams)
                                  ELSE s.maxStreams
             deflate == s.enableCompress /\ request.deflate
  <2>1. n = [streamable |-> streamable, maxStreams |-> max, compressable |-> deflate]
    BY DEF ServerNego
  <2>2. n.streamable = streamable /\ n.maxStreams = max /\ n.compressable = deflate
    <3> HIDE DEF n, streamable, max, deflate
    <3> QED BY <2>1
  <2> QED BY <2>2
<1>3. /\ ClientNego.streamable <=> heard # {}
      /\ heard # {} => ClientNego.maxStreams = Lesser(c.maxStreams, ValueOf(heard))
      /\ ClientNego.compressable <=> c.enableCompress /\ response.deflate
      /\ ClientNego.streamable \in BOOLEAN /\ ClientNego.compressable \in BOOLEAN
  <2> DEFINE max == IF heard # {} THEN Lesser(c.maxStreams, ValueOf(heard)) ELSE 0
             some == heard # {}
             deflate == c.enableCompress /\ response.deflate
  <2>1. ClientNego = [streamable |-> some, maxStreams |-> max, compressable |-> deflate]
    BY DEF ClientNego
  <2>2. /\ ClientNego.streamable = some /\ ClientNego.maxStreams = max
        /\ ClientNego.compressable = deflate
    <3> HIDE DEF some, max, deflate
    <3> QED BY <2>1
  <2> QED BY <2>2
<1>4. ClientNego.compressable = n.compressable
  BY <1>1, <1>2, <1>3 DEF Config, Negotiated
<1>5. CASE n.streamable
  <2>1. c.enableStreams /\ request.streams = {c.maxStreams} /\ s.maxStreams > 0
        /\ c.maxStreams > 0
    BY <1>2, <1>5
  <2>2. ValueOf(request.streams) = c.maxStreams
    BY <2>1, ValueOfOne
  <2>3. n.maxStreams = Lesser(c.maxStreams, s.maxStreams) /\ n.maxStreams > 0
    BY <1>1, <1>2, <1>5, <2>1, <2>2 DEF Lesser, Config
  <2>4. heard = {n.maxStreams}
    BY <1>5, <2>1, <2>3
  <2>5. ValueOf(heard) = n.maxStreams
    BY <2>4, ValueOfOne
  <2>6. ClientNego.streamable = TRUE /\ ClientNego.maxStreams = n.maxStreams
    BY <1>1, <1>3, <2>3, <2>4, <2>5 DEF Lesser, Config
  <2>7. c.maxStreams <= MAX_STREAMS_IN_THEORY
    BY <1>1, HandshakeAssumption DEF Settled, SetupRefuses, Config
  <2>8. n.streamable = TRUE
    BY <1>5, <1>1 DEF Negotiated
  <2> QED
    <3>1. n.maxStreams \in Int /\ n.maxStreams <= c.maxStreams /\ n.maxStreams <= s.maxStreams
      BY <1>1, <2>3 DEF Lesser, Config
    <3>2. n.maxStreams \in 1 .. MAX_STREAMS_IN_THEORY
      BY <1>1, <2>3, <2>7, <3>1, HandshakeAssumption DEF Config
    <3> QED BY <1>4, <2>6, <2>8, <3>1, <3>2
<1>6. CASE ~n.streamable
  <2>1. heard = {}
    BY <1>6
  <2>2. ClientNego.streamable = FALSE /\ n.streamable = FALSE
    BY <1>1, <1>3, <1>6, <2>1 DEF Negotiated
  <2> QED BY <1>4, <2>2
<1> QED BY <1>5, <1>6
\* What either end computes is an outcome.
LEMMA ClientNegoType ==
  ASSUME Typed
  PROVE  ClientNego \in Negotiated
<1> DEFINE c == conf["client"]
           heard == {i \in response.streams : i > 0 /\ c.enableStreams}
           max == IF heard # {} THEN Lesser(c.maxStreams, ValueOf(heard)) ELSE 0
           deflate == c.enableCompress /\ response.deflate
<1>1. ClientNego = [streamable |-> heard # {}, maxStreams |-> max, compressable |-> deflate]
  BY DEF ClientNego
<1>2. max \in Int
  <2>1. c.maxStreams \in Int /\ heard \subseteq Int
    BY DEF Typed, Config, Response, Ends
  <2>2. heard # {} => ValueOf(heard) \in Int
    BY <2>1, ValueOfMember
  <2> QED BY <2>1, <2>2 DEF Lesser
<1>3. deflate \in BOOLEAN /\ (heard # {}) \in BOOLEAN
  OBVIOUS
<1> HIDE DEF heard, max, deflate
<1> QED BY <1>1, <1>2, <1>3 DEF Negotiated

\* What the server negotiates is an outcome.
LEMMA ServerNegoType ==
  ASSUME Typed, NEW c \in Config
  PROVE  ServerNego(c) \in Negotiated
<1> DEFINE streamable == c.maxStreams > 0 /\ request.streams # {}
           max == IF streamable THEN Lesser(ValueOf(request.streams), c.maxStreams)
                                ELSE c.maxStreams
           deflate == c.enableCompress /\ request.deflate
<1>1. ServerNego(c) = [streamable |-> streamable, maxStreams |-> max, compressable |-> deflate]
  BY DEF ServerNego
<1>2. max \in Int
  <2>1. c.maxStreams \in Int /\ request.streams \subseteq Int
    BY DEF Typed, Config, Request
  <2>2. request.streams # {} => ValueOf(request.streams) \in Int
    BY <2>1, ValueOfMember
  <2> QED BY <2>1, <2>2 DEF Lesser
<1>3. streamable \in BOOLEAN /\ deflate \in BOOLEAN
  OBVIOUS
<1> HIDE DEF streamable, max, deflate
<1> QED BY <1>1, <1>2, <1>3 DEF Negotiated

\* What the server answers an outcome with is a response.
LEMMA ResponseForType ==
  ASSUME Typed, NEW n \in Negotiated
  PROVE  ResponseFor(n) \in Response
<1>1. n.streamable \in BOOLEAN /\ n.maxStreams \in Int /\ n.compressable \in BOOLEAN
  BY DEF Negotiated
<1>2. (given.sameKey /\ request.challenge) \in BOOLEAN
  OBVIOUS
<1>3. (IF n.streamable THEN {n.maxStreams} ELSE {}) \in SUBSET Int
  BY <1>1
<1> QED BY <1>1, <1>2, <1>3 DEF ResponseFor, Response

-----------------------------------------------------------------------------
\* What is left of a stream behind its first k items.
LEMMA SuffixFacts ==
  ASSUME NEW S, NEW q \in Seq(S), NEW k \in 1 .. Len(q)
  PROVE  /\ SubSeq(q, k + 1, Len(q)) \in Seq(S)
         /\ Len(SubSeq(q, k + 1, Len(q))) = Len(q) - k
         /\ \A i \in 1 .. Len(q) - k : SubSeq(q, k + 1, Len(q))[i] = q[i + k]
<1> DEFINE t == SubSeq(q, k + 1, Len(q))
<1>1. t = [i \in 1 .. Len(q) - k |-> q[i + k]]
  OBVIOUS
<1>2. \A i \in 1 .. Len(q) - k : t[i] = q[i + k] /\ q[i + k] \in S
  BY <1>1
<1> HIDE DEF t
<1>3. Len(q) - k \in Nat /\ DOMAIN t = 1 .. Len(q) - k
  BY <1>1
<1>4. t \in Seq(S) /\ Len(t) = Len(q) - k
  BY <1>1, <1>2, <1>3
<1> QED BY <1>2, <1>4 DEF t

\* A sequence is over the set of its items.
LEMMA SeqOfItems ==
  ASSUME NEW S, NEW T, NEW q \in Seq(S), \A i \in 1 .. Len(q) : q[i] \in T
  PROVE  q \in Seq(T)
OBVIOUS

\* One more item behind a stream.
LEMMA AppendNat ==
  ASSUME NEW q \in Seq(Nat), NEW x \in Nat
  PROVE  /\ Len(Append(q, x)) = Len(q) + 1
         /\ \A i \in 1 .. Len(q) : Append(q, x)[i] = q[i]
         /\ Append(q, x)[Len(q) + 1] = x
OBVIOUS

\* Put adds one item to one stream, or none.
LEMMA PutType ==
  ASSUME Typed, NEW e \in Ends, NEW x \in Nat, Put(e, x)
  PROVE  /\ link' \in [Ends -> Seq(Nat)]
         /\ \A d \in Ends : d # e => link'[d] = link[d]
         /\ link'[e] = IF open[e] THEN Append(link[e], x) ELSE link[e]
BY DEF Typed, Put

\* The values of a header are numbers.
LEMMA StreamsHeadersType ==
  ASSUME Typed
  PROVE  \A h \in StreamsHeaders : h \in SUBSET Int
<1>1. conf["client"].maxStreams \in Int /\ ExtraStreams \in Int
  BY HandshakeAssumption DEF Typed, Ends, Config
<1> QED BY <1>1 DEF StreamsHeaders

\* Every step keeps the types.
LEMMA TypedStep ==
  ASSUME Typed, [Next]_vars
  PROVE  Typed'
<1> USE DEF Typed, Ends, Places, Goto, talk
<1>1. CASE DialSetup
  <2>1. conf' \in [Ends -> Config]
    <3>1. conf' = [conf EXCEPT !["client"] = Setup(conf["client"])] /\ conf["client"] \in Config
      BY <1>1 DEF DialSetup
    <3> QED BY <3>1, SetupType
  <2>2. place' \in [Ends -> Places] /\ open' \in [Ends -> BOOLEAN]
    BY <1>1 DEF DialSetup
  <2> QED BY <1>1, <2>1, <2>2 DEF DialSetup
<1>2. CASE SendRequest
  <2>1. request' \in Request
    <3>1. \A h \in StreamsHeaders : h \in SUBSET Int
      BY StreamsHeadersType
    <3>2. conf["client"].enableCompress \in BOOLEAN
      BY DEF Config
    <3> QED BY <1>2, <3>1, <3>2 DEF SendRequest, Request
  <2>2. link' \in [Ends -> Seq(Nat)]
    BY <1>2, PutType DEF SendRequest
  <2> QED BY <1>2, <2>1, <2>2 DEF SendRequest, Given
<1>3. ASSUME NEW k \in 1 .. Len(link["client"]), NEW b \in BOOLEAN, ReadResponse(k, b)
      PROVE  Typed'
  <2>1. nego' \in [Ends -> Negotiated]
    BY <1>3, ClientNegoType DEF ReadResponse
  <2>2. link' \in [Ends -> Seq(Nat)]
    BY <1>3, SuffixFacts DEF ReadResponse, Behind
  <2>3. lost' \in [Ends -> Nat] /\ cut' \in [Ends -> BOOLEAN]
    BY <1>3 DEF ReadResponse, TakenIn
  <2> QED BY <1>3, <2>1, <2>2, <2>3 DEF ReadResponse
<1>4. CASE NegotiateFails
  BY <1>4 DEF NegotiateFails, DialFails
<1>5. ASSUME NEW k \in 1 .. Len(link["server"]), NEW b \in BOOLEAN, Hijack(k, b)
      PROVE  conf' \in [Ends -> Config] /\ lost' \in [Ends -> Nat] /\ cut' \in [Ends -> BOOLEAN]
  BY <1>5, SetupType DEF Hijack, TakenIn
<1>5a. ASSUME NEW k \in 1 .. Len(link["server"]), NEW b \in BOOLEAN, Accept(k, b)
       PROVE  Typed'
  <2> DEFINE n == ServerNego(Setup(conf["server"]))
  <2>1. n \in Negotiated
    BY SetupType, ServerNegoType
  <2>2. nego' \in [Ends -> Negotiated]
    BY <1>5a, <2>1 DEF Accept
  <2>3. response' \in Response
    BY <1>5a, <2>1, ResponseForType DEF Accept
  <2>4. SubSeq(link["server"], k + 1, Len(link["server"])) \in Seq(Nat)
        /\ Append(link["client"], 0) \in Seq(Nat)
    BY SuffixFacts
  <2>5. link' \in [Ends -> Seq(Nat)]
    BY <1>5a, <2>4 DEF Accept, Behind
  <2> QED BY <1>5, <1>5a, <2>2, <2>3, <2>5 DEF Accept, Hijack
<1>5b. ASSUME NEW k \in 1 .. Len(link["server"]), NEW b \in BOOLEAN, AcceptFails(k, b)
       PROVE  Typed'
  BY <1>5, <1>5b DEF AcceptFails, Hijack
<1>6. CASE Refuse
  <2>1. link' \in [Ends -> Seq(Nat)]
    BY <1>6, PutType DEF Refuse
  <2>2. conf' \in [Ends -> Config]
    BY <1>6, SetupType DEF Refuse
  <2> QED BY <1>6, <2>1, <2>2 DEF Refuse
<1>7. ASSUME NEW e \in Ends, Prepare(e)
      PROVE  Typed'
  BY <1>7 DEF Prepare
<1>8. ASSUME NEW r \in Replies, Reply(r)
      PROVE  Typed'
  <2>1. link' \in [Ends -> Seq(Nat)]
    BY <1>8, PutType DEF Reply
  <2>2. response' \in Response
    BY <1>8, HandshakeAssumption DEF Reply, Replies, Response
  <2> QED BY <1>8, <2>1, <2>2 DEF Reply
<1>9. CASE HangUp
  BY <1>9 DEF HangUp
<1>10. ASSUME NEW e \in Ends, WriteFrame(e)
       PROVE  Typed'
  <2>1. link' \in [Ends -> Seq(Nat)]
    BY <1>10, PutType DEF WriteFrame, Peer
  <2> QED BY <1>10, <2>1 DEF WriteFrame
<1>11. ASSUME NEW e \in Ends, ReadFrame(e)
       PROVE  Typed'
  BY <1>11 DEF ReadFrame
<1>12. ASSUME NEW e \in Ends, NEW p \in {"broken", "short", "over"}, End(e, p)
       PROVE  Typed'
  BY <1>12 DEF End
<1>13. CASE UNCHANGED vars
  BY <1>13 DEF vars
<1>14. CASE DialTLS
  BY <1>14 DEF DialTLS
<1>15. ASSUME NEW e \in Ends, NEW n \in 1 .. Len(link[e]), ReadGarbled(e, n)
       PROVE  Typed'
  <2>1. link' \in [Ends -> Seq(Nat)]
    BY <1>15, SuffixFacts DEF ReadGarbled, Behind
  <2>2. lost' \in [Ends -> Nat]
    BY <1>15 DEF ReadGarbled
  <2> QED BY <1>15, <2>1, <2>2 DEF ReadGarbled
<1> HIDE DEF Typed, Ends
<1> QED
  BY <1>1, <1>2, <1>3, <1>4, <1>5a, <1>5b, <1>6, <1>7, <1>8, <1>9, <1>10, <1>11, <1>12, <1>13,
     <1>14, <1>15
  DEF Next, Negotiating, TakingOver, ReadError, ReadShort, GarbledError, Close, Ends
-----------------------------------------------------------------------------
(***************************************************************************)
(* Every step keeps the way of the outcome from the request to both ends.  *)
(* A step that touches the server's configuration, the request or the      *)
(* response comes before the part of the invariant that speaks of them.    *)
(***************************************************************************)
LEMMA NegoStep ==
  ASSUME Typed, NegoInv, [Next]_vars
  PROVE  NegoInv'
<1> USE DEF NegoInv, QuietInv, RequestInv, ResponseInv, AnswerInv, OutcomeInv,
            Established, BeforeRequest, ServerNego, ClientNego, Goto, talk
<1>0. /\ conf["client"] \in Config /\ conf["server"] \in Config
      /\ DOMAIN place = Ends /\ DOMAIN conf = Ends /\ DOMAIN nego = Ends /\ DOMAIN link = Ends
      /\ Ends = {"client", "server"}
  BY DEF Typed, Ends
<1>1. CASE DialSetup
  BY <1>0, <1>1, SetupType DEF DialSetup
<1>2. CASE SendRequest
  <2>1. given.extra # "streams" =>
          request'.streams =
            IF conf["client"].enableStreams THEN {conf["client"].maxStreams} ELSE {}
    BY <1>2, PlainHeaders DEF SendRequest
  <2>2. given.extra # "extensions" => request'.deflate = conf["client"].enableCompress
    BY <1>0, <1>2 DEF SendRequest, Config
  <2>3. ~response.switching
    BY <1>2 DEF SendRequest
  <2> QED BY <1>0, <1>2, <2>1, <2>2, <2>3 DEF SendRequest
<1>3. ASSUME NEW k \in 1 .. Len(link["client"]), NEW b \in BOOLEAN, ReadResponse(k, b)
      PROVE  NegoInv'
  BY <1>0, <1>3 DEF ReadResponse, ResponseOK
<1>4. CASE NegotiateFails
  BY <1>0, <1>4 DEF NegotiateFails, DialFails
<1>5. ASSUME NEW k \in 1 .. Len(link["server"]), NEW b \in BOOLEAN, Accept(k, b)
      PROVE  NegoInv'
  <2>1. /\ ~given.foreign /\ ~response.switching /\ place["client"] \notin Established
        /\ place["client"] \notin BeforeRequest
    BY <1>0, <1>5 DEF Accept, Hijack, MayTakeOver
  <2>2. Settled(conf'["server"])
    BY <1>0, <1>5, SetupType DEF Accept, Hijack, Acceptable
  <2> QED
    BY <1>0, <1>5, <2>1, <2>2 DEF Accept, Hijack, Acceptable, ResponseFor
<1>6. ASSUME NEW k \in 1 .. Len(link["server"]), NEW b \in BOOLEAN, AcceptFails(k, b)
      PROVE  NegoInv'
  BY <1>0, <1>6 DEF AcceptFails, Hijack, MayTakeOver
<1>7. CASE Refuse
  <2>1. link'["server"] = link["server"]
    BY <1>0, <1>7, PutType DEF Refuse
  <2> QED BY <1>0, <1>7, <2>1 DEF Refuse, MayTakeOver
<1>8. ASSUME NEW e \in Ends, Prepare(e)
      PROVE  NegoInv'
  BY <1>0, <1>8 DEF Prepare
<1>9. ASSUME NEW r \in Replies, Reply(r)
      PROVE  NegoInv'
  <2>1. link'["server"] = link["server"]
    BY <1>0, <1>9, PutType DEF Reply
  <2> QED BY <1>0, <1>9, <2>1 DEF Reply
<1>10. CASE HangUp
  BY <1>0, <1>10 DEF HangUp
<1>11. ASSUME NEW e \in Ends, WriteFrame(e)
       PROVE  NegoInv'
  <2>1. e = "server" => link'["server"] = link["server"]
    BY <1>0, <1>11, PutType DEF WriteFrame, Peer, Typed
  <2> QED BY <1>0, <1>11, <2>1 DEF WriteFrame
<1>12. ASSUME NEW e \in Ends, ReadFrame(e)
       PROVE  NegoInv'
  BY <1>0, <1>12 DEF ReadFrame
<1>13. ASSUME NEW e \in Ends, NEW p \in {"broken", "short", "over"}, End(e, p)
       PROVE  NegoInv'
  BY <1>0, <1>13 DEF End
<1>14. CASE UNCHANGED vars
  BY <1>14 DEF vars
<1>15. CASE DialTLS
  BY <1>0, <1>15 DEF DialTLS
<1>16. ASSUME NEW e \in Ends, NEW n \in 1 .. Len(link[e]), ReadGarbled(e, n)
       PROVE  NegoInv'
  BY <1>0, <1>16 DEF ReadGarbled
<1> HIDE DEF NegoInv
<1> QED
  BY <1>0, <1>1, <1>2, <1>3, <1>4, <1>5, <1>6, <1>7, <1>8, <1>9, <1>10, <1>11, <1>12,
     <1>13, <1>14, <1>15, <1>16
  DEF Next, Negotiating, TakingOver, ReadError, ReadShort, GarbledError, Close
-----------------------------------------------------------------------------
(***************************************************************************)
(* The byte stream.  NextItem is the item that end e reads next; the items on *)
(* their way to e are numbered from there up to what its peer wrote last,  *)
(* as long as e can be written to.                                         *)
(***************************************************************************)
NextItem(e) == IF place[e] \in Established THEN lost[e] + Len(got[e]) + 1 ELSE 0

\* Items q are on their way to an end that reads item n next; its peer has written
\* w frames, the end has a socket if o, and its peer is through if p.
Stream(q, n, w, o, p) ==
  /\ \A i \in 1 .. Len(q) : q[i] = n + i - 1
  /\ n + Len(q) <= w + 1
  /\ o => n + Len(q) = w + 1 \/ (n + Len(q) = 0 /\ ~p)

\* The end e is through with the handshake.
Through(e) == place[e] \in Established

StreamOf(e) == Stream(link[e], NextItem(e), wrote[Peer(e)], open[e], Through(Peer(e)))

HistoryOf(e) ==
  /\ \A i \in 1 .. Len(got[e]) : got[e][i] = lost[e] + i
  /\ cut[e] => Len(got[e]) = 0
  /\ place[e] \notin Established => Len(got[e]) = 0 /\ lost[e] = 0 /\ wrote[e] = 0
  /\ wrote[e] <= MaxFrames

\* The order of the handshake: nothing is there before what it answers.
OrderInv ==
  /\ place["client"] \in BeforeRequest \/ place["server"] = "idle" =>
       Len(link["client"]) = 0
  /\ place["client"] \in BeforeRequest => Len(link["server"]) = 0
  /\ place["server"] \in Established => response.switching /\ ~given.foreign
  /\ response.switching =>
       place["server"] \in Established \/ Len(link["server"]) > 0

\* Frames are lost at the client only; as long as it is in step with the stream, no
\* more than the server wrote early.
EarlyInv ==
  /\ lost["server"] = 0 /\ ~cut["server"]
  /\ cut["client"] => early > 0
  /\ ~cut["client"] => lost["client"] <= early
  /\ early <= wrote["server"]
  /\ Len(got["server"]) = 0 => early = wrote["server"]

\* What the configuration has to be before a connection is made of it.
LimitInv ==
  \A e \in Ends : place[e] \in {"prepare", "up"} => Settled(conf[e])

StreamInv ==
  /\ \A e \in Ends : StreamOf(e) /\ HistoryOf(e)
  /\ OrderInv
  /\ EarlyInv
  /\ LimitInv

\* The types of the single variables, as the prover wants them.
LEMMA StreamTypes ==
  ASSUME Typed
  PROVE  /\ Ends = {"client", "server"} /\ Peer("client") = "server" /\ Peer("server") = "client"
         /\ \A e \in Ends :
              /\ link[e] \in Seq(Nat) /\ got[e] \in Seq(Nat)
              /\ Len(link[e]) \in Nat /\ Len(got[e]) \in Nat
              /\ lost[e] \in Nat /\ wrote[e] \in Nat /\ open[e] \in BOOLEAN
         /\ early \in Nat
         /\ DOMAIN place = Ends /\ DOMAIN conf = Ends /\ DOMAIN link = Ends
         /\ DOMAIN got = Ends /\ DOMAIN lost = Ends /\ DOMAIN wrote = Ends
         /\ DOMAIN open = Ends /\ DOMAIN nego = Ends
BY DEF Typed, Ends, Peer

\* Closing a socket, or a peer that is not there yet, takes nothing away.
LEMMA StreamKept ==
  ASSUME NEW q \in Seq(Nat), NEW n \in Nat, NEW w \in Nat, NEW o \in BOOLEAN,
         NEW p \in BOOLEAN, NEW o2 \in BOOLEAN, NEW p2 \in BOOLEAN,
         Stream(q, n, w, o, p), o2 => o, o2 /\ p2 => p
  PROVE  Stream(q, n, w, o2, p2)
BY DEF Stream

\* The next item goes to the end of the stream, or nowhere.
LEMMA StreamPut ==
  ASSUME NEW q \in Seq(Nat), NEW n \in Nat, NEW w \in Nat, NEW o \in BOOLEAN,
         Stream(q, n, w, o, TRUE)
  PROVE  Stream(IF o THEN Append(q, w + 1) ELSE q, n, w + 1, o, TRUE)
<1>1. CASE o
  <2>1. n + Len(q) = w + 1 /\ Len(q) \in Nat
    BY <1>1 DEF Stream
  <2>2. \A i \in 1 .. Len(q) + 1 : Append(q, w + 1)[i] = n + i - 1
    <3> TAKE i \in 1 .. Len(q) + 1
    <3>1. CASE i \in 1 .. Len(q)
      BY <3>1, AppendNat DEF Stream
    <3>2. CASE i = Len(q) + 1
      BY <2>1, <3>2, AppendNat
    <3> QED BY <2>1, <3>1, <3>2
  <2> DEFINE r == Append(q, w + 1)
  <2>3. Len(r) = Len(q) + 1
    BY AppendNat
  <2> HIDE DEF r
  <2>4. Stream(r, n, w + 1, o, TRUE)
    <3>1. \A i \in 1 .. Len(r) : r[i] = n + i - 1
      BY <2>2, <2>3 DEF r
    <3> QED BY <2>1, <2>3, <3>1 DEF Stream
  <2> QED BY <1>1, <2>4 DEF r
<1>2. CASE ~o
  BY <1>2 DEF Stream
<1> QED BY <1>1, <1>2

\* The response, or the request, is the first item of a stream.
LEMMA StreamFirst ==
  ASSUME NEW q \in Seq(Nat), NEW o \in BOOLEAN, NEW p \in BOOLEAN, Len(q) = 0
  PROVE  Stream(IF o THEN Append(q, 0) ELSE q, 0, 0, o, p)
<1>1. \A i \in 1 .. 1 : Append(q, 0)[i] = 0
  BY AppendNat
<1> QED BY <1>1, AppendNat DEF Stream

\* The first k items are taken off the stream.
LEMMA StreamCut ==
  ASSUME NEW q \in Seq(Nat), NEW n \in Nat, NEW w \in Nat, NEW o \in BOOLEAN,
         NEW p \in BOOLEAN, Stream(q, n, w, o, p), NEW k \in 1 .. Len(q)
  PROVE  Stream(SubSeq(q, k + 1, Len(q)), n + k, w, o, TRUE)
<1> DEFINE t == SubSeq(q, k + 1, Len(q))
<1>1. Len(t) = Len(q) - k /\ \A i \in 1 .. Len(q) - k : t[i] = q[i + k]
  BY SuffixFacts
<1>2. Len(q) \in Nat /\ k \in Nat /\ 0 < k /\ k <= Len(q) /\ \A i \in 1 .. Len(q) - k : i + k \in 1 .. Len(q)
  OBVIOUS
<1> HIDE DEF t
<1>3. \A i \in 1 .. Len(t) : t[i] = n + k + i - 1
  BY <1>1, <1>2 DEF Stream
<1>4. /\ n + Len(q) <= w + 1
      /\ o => n + Len(q) = w + 1 \/ n + Len(q) = 0
  BY DEF Stream
<1>5. /\ (n + k) + Len(t) <= w + 1
      /\ o => (n + k) + Len(t) = w + 1
  <2> DEFINE l == Len(q)
             m == Len(t)
  <2>1. l \in Nat /\ k \in Nat /\ 0 < k /\ k <= l /\ m = l - k /\ n + l <= w + 1
    BY <1>1, <1>2, <1>4
  <2>2. o => n + l = w + 1 \/ n + l = 0
    BY <1>4
  <2> HIDE DEF l, m
  <2>3. (n + k) + m = n + l /\ n + l > 0
    BY <2>1
  <2>4. (n + k) + m <= w + 1 /\ (o => (n + k) + m = w + 1)
    BY <2>1, <2>2, <2>3
  <2> QED BY <2>4 DEF l, m
<1>6. Stream(t, n + k, w, o, TRUE)
  BY <1>3, <1>5 DEF Stream
<1> QED BY <1>6 DEF t

\* The item that is read next is the one that is expected.
LEMMA StreamTail ==
  ASSUME NEW q \in Seq(Nat), NEW n \in Nat, NEW w \in Nat, NEW o \in BOOLEAN,
         NEW p \in BOOLEAN, Stream(q, n, w, o, p), q # << >>
  PROVE  /\ Stream(Tail(q), n + 1, w, o, p)
         /\ Head(q) = n
<1>1. Len(Tail(q)) = Len(q) - 1 /\ Len(q) \in Nat \ {0} /\ Head(q) = q[1]
  OBVIOUS
<1>2. \A i \in 1 .. Len(q) - 1 : Tail(q)[i] = q[i + 1]
  OBVIOUS
<1> QED BY <1>1, <1>2 DEF Stream

\* A step that leaves the stream to e and its two ends alone.
LEMMA StreamOfKept ==
  ASSUME Typed, Typed', NEW e \in Ends, StreamOf(e),
         link'[e] = link[e], NextItem(e)' = NextItem(e), wrote'[Peer(e)] = wrote[Peer(e)],
         open'[e] => open[e], open'[e] /\ Through(Peer(e))' => Through(Peer(e))
  PROVE  StreamOf(e)'
<1>1. /\ link[e] \in Seq(Nat) /\ wrote[Peer(e)] \in Nat
      /\ open[e] \in BOOLEAN /\ open'[e] \in BOOLEAN
  BY StreamTypes DEF Typed
<1>2. NextItem(e) \in Nat /\ Through(Peer(e)) \in BOOLEAN /\ Through(Peer(e))' \in BOOLEAN
  BY StreamTypes DEF NextItem, Through
<1>3. Stream(link[e], NextItem(e), wrote[Peer(e)], open'[e], Through(Peer(e))')
  BY <1>1, <1>2, StreamKept DEF StreamOf
<1> QED BY <1>3 DEF StreamOf

\* A step that writes nothing, reads nothing and brings no end through.
LEMMA StreamsKept ==
  ASSUME Typed, Typed', \A e \in Ends : StreamOf(e),
         link' = link, wrote' = wrote,
         \A e \in Ends : NextItem(e)' = NextItem(e),
         \A e \in Ends : open'[e] => open[e],
         \A e \in Ends : Through(e)' => Through(e)
  PROVE  \A e \in Ends : StreamOf(e)'
BY StreamOfKept DEF Peer, Ends

\* The types of what StreamOf speaks of, end by end.
LEMMA EndTypes ==
  ASSUME Typed, NEW e \in Ends
  PROVE  /\ link[e] \in Seq(Nat) /\ Len(link[e]) \in Nat
         /\ wrote[e] \in Nat /\ open[e] \in BOOLEAN
         /\ NextItem(e) \in Nat /\ Through(e) \in BOOLEAN
         /\ lost[e] \in Nat /\ got[e] \in Seq(Nat) /\ Len(got[e]) \in Nat
         /\ Through(e) => NextItem(e) = lost[e] + Len(got[e]) + 1
         /\ ~Through(e) => NextItem(e) = 0
BY StreamTypes DEF NextItem, Through

\* What the order of the handshake says where a step of it is taken.
LEMMA BeforeAnswer ==
  ASSUME Typed, NegoInv, StreamInv
  PROVE  /\ place["client"] \in BeforeRequest =>
              /\ place["server"] \notin Established
              /\ Len(link["server"]) = 0 /\ Len(link["client"]) = 0
         /\ place["server"] = "idle" =>
              /\ place["client"] \notin Established
              /\ Len(link["client"]) = 0 /\ Len(link["server"]) <= 1
         /\ \A e \in Ends : place[e] \notin Established =>
              /\ NextItem(e) = 0 /\ wrote[e] = 0 /\ Len(got[e]) = 0 /\ lost[e] = 0
<1> USE StreamTypes DEF NegoInv
<1>1. place["client"] \in BeforeRequest =>
        /\ place["server"] \notin Established
        /\ Len(link["server"]) = 0 /\ Len(link["client"]) = 0
  BY DEF StreamInv, OrderInv, QuietInv
<1>2. \A e \in Ends : place[e] \notin Established =>
        /\ NextItem(e) = 0 /\ wrote[e] = 0 /\ Len(got[e]) = 0 /\ lost[e] = 0
  BY DEF StreamInv, HistoryOf, NextItem
<1>3. place["server"] = "idle" =>
        /\ place["client"] \notin Established /\ place["server"] \notin Established
        /\ Len(link["client"]) = 0
  BY DEF StreamInv, OrderInv, AnswerInv, OutcomeInv, Established
<1>4. NextItem("server") + Len(link["server"]) <= wrote["client"] + 1
  BY DEF StreamInv, StreamOf, Stream
<1>5. place["server"] = "idle" => Len(link["server"]) <= 1
  BY <1>2, <1>3, <1>4
<1> QED BY <1>1, <1>2, <1>3, <1>5

\* Every step keeps what is on the way to either end.
LEMMA StreamOfStep ==
  ASSUME Typed, Typed', NegoInv, StreamInv, [Next]_vars
  PROVE  \A e \in Ends : StreamOf(e)'
<1> USE DEF Goto, talk
<1> DEFINE c == "client"
           s == "server"
<1>0. \A e \in Ends : StreamOf(e)
  BY DEF StreamInv
<1>0a. /\ c \in Ends /\ s \in Ends /\ Ends = {c, s} /\ Peer(c) = s /\ Peer(s) = c
       /\ DOMAIN place = Ends /\ DOMAIN link = Ends /\ DOMAIN got = Ends
       /\ DOMAIN lost = Ends /\ DOMAIN wrote = Ends /\ DOMAIN open = Ends
  BY StreamTypes
<1>1. CASE DialSetup
  <2> SUFFICES ASSUME NEW e \in Ends PROVE StreamOf(e)'
    OBVIOUS
  <2>1. place["client"] = "idle" /\ place'["client"] \in {"dialing", "dialed", "failed"}
    BY <1>0a, <1>1 DEF DialSetup
  <2>2. \A d \in Ends : Through(d) = FALSE /\ Through(d)' = FALSE
    BY <1>0a, <1>1, <2>1, BeforeAnswer DEF DialSetup, Through, Established, BeforeRequest
  <2>3. link'[e] = link[e] /\ Len(link[e]) = 0 /\ wrote'[Peer(e)] \in Nat /\ NextItem(e)' = 0
    BY <1>0a, <1>1, <2>1, <2>2, BeforeAnswer, EndTypes
       DEF DialSetup, NextItem, Through, BeforeRequest
  <2>4. Through(Peer(e))' = FALSE
    BY <1>0a, <2>2
  <2> QED BY <2>3, <2>4 DEF StreamOf, Stream
<1>2. CASE SendRequest
  <2>1. place["client"] = "dialed" /\ place'["client"] = "waiting"
    BY <1>0a, <1>2 DEF SendRequest
  <2>2. \A d \in Ends : NextItem(d)' = NextItem(d) /\ Through(d)' = Through(d)
    BY <1>0a, <1>2, <2>1 DEF SendRequest, NextItem, Through, Established
  <2>3. StreamOf("client")'
    <3>1. link'["client"] = link["client"]
      BY <1>0a, <1>2, PutType DEF SendRequest
    <3> QED BY <1>0, <1>0a, <1>2, <2>2, <3>1, StreamOfKept DEF SendRequest
  <2>4. StreamOf("server")'
    <3>1. link'["server"] = IF open["server"] THEN Append(link["server"], 0) ELSE link["server"]
      BY <1>0a, <1>2, PutType DEF SendRequest
    <3>2. Len(link["server"]) = 0 /\ NextItem("server") = 0 /\ wrote["client"] = 0
      BY <1>0a, <2>1, BeforeAnswer DEF Established, BeforeRequest
    <3>3. Stream(link'["server"], 0, 0, open["server"], Through("client"))
      BY <1>0a, <3>1, <3>2, StreamFirst, EndTypes
    <3>4. wrote' = wrote /\ open' = open
      BY <1>2 DEF SendRequest
    <3> QED BY <1>0a, <2>2, <3>2, <3>3, <3>4 DEF StreamOf
  <2> QED BY <1>0a, <2>3, <2>4
<1>3. ASSUME NEW k \in 1 .. Len(link["client"]), NEW b \in BOOLEAN, ReadResponse(k, b)
      PROVE  \A e \in Ends : StreamOf(e)'
  <2>1. /\ place["client"] = "waiting" /\ place'["client"] = "prepare"
        /\ place'["server"] = place["server"] /\ response.switching
        /\ lost'["client"] = k - 1 /\ lost'["server"] = lost["server"] /\ got' = got
        /\ wrote' = wrote /\ open' = open
    BY <1>0a, <1>3 DEF ReadResponse, TakenIn, ResponseOK
  <2>2. Through("client") = FALSE /\ Through("client")' = TRUE /\ Through("server")' = Through("server")
    BY <2>1 DEF Through, Established
  <2>3. NextItem("client") = 0 /\ Len(got["client"]) = 0
    BY <1>0a, <2>1, BeforeAnswer DEF Established
  <2>4. k \in Nat /\ NextItem("client")' = k
    BY <2>1, <2>2, <2>3 DEF Through, NextItem
  <2>5. StreamOf("client")'
    <3>1. link'["client"] = SubSeq(link["client"], k + 1, Len(link["client"]))
      BY <1>0a, <1>3 DEF ReadResponse, Behind
    <3>2. Stream(link["client"], 0, wrote["server"], open["client"], Through("server"))
      BY <1>0, <1>0a, <2>3 DEF StreamOf
    <3>3. Stream(link'["client"], k, wrote["server"], open["client"], TRUE)
      <4>1. link["client"] \in Seq(Nat) /\ wrote["server"] \in Nat
            /\ open["client"] \in BOOLEAN /\ Through("server") \in BOOLEAN
        BY <1>0a, EndTypes
      <4>2. Stream(link'["client"], 0 + k, wrote["server"], open["client"], TRUE)
        <5> 0 \in Nat
          OBVIOUS
        <5> QED BY ONLY <3>1, <3>2, <4>1, StreamCut
      <4>3. 0 + k = k
        BY <2>4
      <4> QED BY ONLY <4>2, <4>3
    <3>4. Stream(link'["client"], k, wrote["server"], open["client"], Through("server"))
      <4>1. link'["client"] \in Seq(Nat) /\ wrote["server"] \in Nat
            /\ open["client"] \in BOOLEAN /\ Through("server") \in BOOLEAN
        BY <1>0a, EndTypes DEF Typed
      <4> QED BY <2>4, <3>3, <4>1, StreamKept
    <3> QED BY <1>0a, <2>1, <2>2, <2>4, <3>4 DEF StreamOf
  <2>6. StreamOf("server")'
    <3>1. Through("server") \/ Len(link["server"]) > 0
      BY <2>1 DEF StreamInv, OrderInv, Through
    <3>2. NextItem("server") + Len(link["server"]) > 0
      BY <1>0a, <3>1, EndTypes
    <3>3. Stream(link["server"], NextItem("server"), wrote["client"], open["server"], Through("client"))
      BY <1>0, <1>0a DEF StreamOf
    <3>4. Stream(link["server"], NextItem("server"), wrote["client"], open["server"], TRUE)
      BY <3>2, <3>3 DEF Stream
    <3>5. link'["server"] = link["server"] /\ NextItem("server")' = NextItem("server")
      BY <1>0a, <1>3, <2>1 DEF ReadResponse, NextItem
    <3> QED BY <1>0a, <2>1, <2>2, <3>4, <3>5 DEF StreamOf
  <2> QED BY <1>0a, <2>5, <2>6
<1>4. CASE NegotiateFails
  <2>1. /\ link' = link /\ wrote' = wrote /\ got' = got /\ lost' = lost
        /\ place["client"] \in {"dialed", "waiting"} /\ place' = [place EXCEPT !["client"] = "failed"]
        /\ \A e \in Ends : open'[e] => open[e]
    BY <1>0a, <1>4 DEF NegotiateFails, DialFails
  <2>2. \A e \in Ends : NextItem(e)' = NextItem(e) /\ (Through(e)' => Through(e))
    BY <1>0a, <2>1 DEF NextItem, Through, Established
  <2> QED BY <1>0, <2>1, <2>2, StreamsKept
<1>5. ASSUME NEW k \in 1 .. Len(link["server"]), NEW b \in BOOLEAN, Accept(k, b)
      PROVE  \A e \in Ends : StreamOf(e)'
  <2>1. /\ place["server"] = "idle" /\ place'["server"] = "prepare"
        /\ place'["client"] = place["client"]
        /\ lost'["server"] = k - 1 /\ lost'["client"] = lost["client"] /\ got' = got
        /\ wrote' = wrote /\ open' = open
    BY <1>0a, <1>5 DEF Accept, Hijack, TakenIn, MayTakeOver
  <2>2. Through("server") = FALSE /\ Through("server")' = TRUE /\ Through("client")' = Through("client")
    BY <2>1 DEF Through, Established
  <2>3. /\ NextItem("server") = 0 /\ Len(got["server"]) = 0 /\ Len(link["client"]) = 0
        /\ NextItem("client") = 0 /\ wrote["server"] = 0
    BY <1>0a, <2>1, BeforeAnswer DEF Established
  <2>4. k \in Nat /\ NextItem("server")' = k /\ NextItem("client")' = NextItem("client")
    BY <2>1, <2>2, <2>3 DEF Through, NextItem
  <2>5. StreamOf("server")'
    <3>1. link'["server"] = SubSeq(link["server"], k + 1, Len(link["server"]))
      BY <1>0a, <1>5 DEF Accept, Behind
    <3>2. Stream(link["server"], 0, wrote["client"], open["server"], Through("client"))
      BY <1>0, <1>0a, <2>3 DEF StreamOf
    <3>3. Stream(link'["server"], k, wrote["client"], open["server"], TRUE)
      <4>1. link["server"] \in Seq(Nat) /\ wrote["client"] \in Nat
            /\ open["server"] \in BOOLEAN /\ Through("client") \in BOOLEAN
        BY <1>0a, EndTypes
      <4>2. Stream(link'["server"], 0 + k, wrote["client"], open["server"], TRUE)
        <5> 0 \in Nat
          OBVIOUS
        <5> QED BY ONLY <3>1, <3>2, <4>1, StreamCut
      <4>3. 0 + k = k
        BY <2>4
      <4> QED BY ONLY <4>2, <4>3
    <3>4. Stream(link'["server"], k, wrote["client"], open["server"], Through("client"))
      <4>1. link'["server"] \in Seq(Nat) /\ wrote["client"] \in Nat
            /\ open["server"] \in BOOLEAN /\ Through("client") \in BOOLEAN
        BY <1>0a, EndTypes DEF Typed
      <4> QED BY <2>4, <3>3, <4>1, StreamKept
    <3> QED BY <1>0a, <2>1, <2>2, <2>4, <3>4 DEF StreamOf
  <2>6. StreamOf("client")'
    <3>1. link'["client"] = IF open["client"] THEN Append(link["client"], 0) ELSE link["client"]
      BY <1>0a, <1>5 DEF Accept
    <3>2. Stream(link'["client"], 0, 0, open["client"], TRUE)
      <4>1. link["client"] \in Seq(Nat) /\ open["client"] \in BOOLEAN
        BY <1>0a, EndTypes
      <4> QED BY <2>3, <3>1, <4>1, StreamFirst
    <3> QED BY <1>0a, <2>1, <2>2, <2>3, <2>4, <3>2 DEF StreamOf
  <2> QED BY <1>0a, <2>5, <2>6
<1>6. ASSUME NEW k \in 1 .. Len(link["server"]), NEW b \in BOOLEAN, AcceptFails(k, b)
      PROVE  \A e \in Ends : StreamOf(e)'
  <2>1. /\ link' = link /\ wrote' = wrote /\ got' = got /\ lost'["client"] = lost["client"]
        /\ place["server"] = "idle" /\ place' = [place EXCEPT !["server"] = "failed"]
        /\ \A e \in Ends : open'[e] => open[e]
    BY <1>0a, <1>6 DEF AcceptFails, Hijack, TakenIn, MayTakeOver
  <2>2. \A e \in Ends : NextItem(e)' = NextItem(e) /\ (Through(e)' => Through(e))
    BY <1>0a, <2>1 DEF NextItem, Through, Established
  <2> QED BY <1>0, <2>1, <2>2, StreamsKept
<1>7. ASSUME place["server"] = "idle", place' = [place EXCEPT !["server"] = "failed"],
             Put("client", 0), UNCHANGED <<open, talk>>
      PROVE  \A e \in Ends : StreamOf(e)'
  <2>1. \A d \in Ends : NextItem(d)' = NextItem(d) /\ Through(d)' = Through(d)
    BY <1>0a, <1>7 DEF NextItem, Through, Established
  <2>2. StreamOf("client")'
    <3>1. link'["client"] = IF open["client"] THEN Append(link["client"], 0) ELSE link["client"]
      BY <1>0a, <1>7, PutType
    <3>2. Len(link["client"]) = 0 /\ wrote["server"] = 0 /\ NextItem("client") = 0
      BY <1>0a, <1>7, BeforeAnswer DEF Established
    <3>3. Stream(link'["client"], 0, 0, open["client"], Through("server"))
      <4>1. link["client"] \in Seq(Nat) /\ open["client"] \in BOOLEAN /\ Through("server") \in BOOLEAN
        BY <1>0a, EndTypes
      <4> QED BY <3>1, <3>2, <4>1, StreamFirst
    <3> QED BY <1>0a, <1>7, <2>1, <3>2, <3>3 DEF StreamOf
  <2>3. StreamOf("server")'
    <3>1. link'["server"] = link["server"]
      BY <1>0a, <1>7, PutType
    <3> QED BY <1>0, <1>0a, <1>7, <2>1, <3>1, StreamOfKept
  <2> QED BY <1>0a, <2>2, <2>3
<1>8. ASSUME NEW e \in Ends, Prepare(e)
      PROVE  \A d \in Ends : StreamOf(d)'
  <2>1. /\ link' = link /\ wrote' = wrote /\ got' = got /\ lost' = lost /\ open' = open
        /\ place[e] = "prepare" /\ place' = [place EXCEPT ![e] = "up"]
    BY <1>8 DEF Prepare
  <2>2. \A d \in Ends : NextItem(d)' = NextItem(d) /\ (Through(d)' => Through(d))
    BY <1>0a, <2>1 DEF NextItem, Through, Established
  <2> QED BY <1>0, <2>1, <2>2, StreamsKept
<1>10. CASE HangUp
  <2>1. /\ link' = link /\ wrote' = wrote /\ got' = got /\ lost' = lost
        /\ place["server"] \in {"idle", "failed"} /\ place' = [place EXCEPT !["server"] = "failed"]
        /\ \A e \in Ends : open'[e] => open[e]
    BY <1>0a, <1>10 DEF HangUp
  <2>2. \A e \in Ends : NextItem(e)' = NextItem(e) /\ (Through(e)' => Through(e))
    BY <1>0a, <2>1 DEF NextItem, Through, Established
  <2> QED BY <1>0, <2>1, <2>2, StreamsKept
<1>11. ASSUME NEW e \in Ends, WriteFrame(e)
       PROVE  \A d \in Ends : StreamOf(d)'
  <2> DEFINE f == Peer(e)
  <2>1. f \in Ends /\ Peer(f) = e /\ f # e /\ \A d \in Ends : d = e \/ d = f
    BY DEF Peer, Ends
  <2>2. place[e] = "up" /\ place' = place /\ open' = open /\ got' = got /\ lost' = lost
        /\ wrote'[e] = wrote[e] + 1 /\ wrote'[f] = wrote[f]
    BY <1>0a, <1>11, <2>1 DEF WriteFrame
  <2>3. \A d \in Ends : NextItem(d)' = NextItem(d) /\ Through(d)' = Through(d)
    BY <2>2 DEF Through, NextItem
  <2>4. Put(f, wrote[e] + 1)
    BY <1>11 DEF WriteFrame
  <2>5. /\ link'[f] = IF open[f] THEN Append(link[f], wrote[e] + 1) ELSE link[f]
        /\ link'[e] = link[e]
    BY <2>1, <2>4, PutType, EndTypes
  <2>6. StreamOf(f)'
    <3>1. Through(e) = TRUE
      BY <2>2 DEF Through, Established
    <3>2. Stream(link[f], NextItem(f), wrote[e], open[f], TRUE)
      BY <1>0, <2>1, <3>1 DEF StreamOf
    <3>3. link[f] \in Seq(Nat) /\ NextItem(f) \in Nat /\ wrote[e] \in Nat /\ open[f] \in BOOLEAN
      BY <2>1, EndTypes
    <3>4. Stream(link'[f], NextItem(f), wrote[e] + 1, open[f], TRUE)
      <4> HIDE DEF f
      <4> QED BY <2>5, <3>2, <3>3, StreamPut
    <3> QED BY <2>1, <2>2, <2>3, <3>1, <3>4 DEF StreamOf
  <2>7. StreamOf(e)'
    <3>1. StreamOf(e) /\ wrote'[Peer(e)] = wrote[Peer(e)] /\ open'[e] = open[e]
          /\ NextItem(e)' = NextItem(e) /\ Through(Peer(e))' = Through(Peer(e))
      BY <1>0, <2>1, <2>2, <2>3
    <3> QED BY <2>5, <3>1, StreamOfKept
  <2> QED BY <2>1, <2>6, <2>7
<1>12. ASSUME NEW e \in Ends, ReadFrame(e)
       PROVE  \A d \in Ends : StreamOf(d)'
  <2>1. place[e] = "up" /\ place' = place /\ open' = open /\ wrote' = wrote /\ link[e] # << >>
        /\ lost' = lost /\ got'[e] = Append(got[e], Head(link[e]))
        /\ link'[e] = Tail(link[e])
        /\ \A d \in Ends : d # e => link'[d] = link[d] /\ got'[d] = got[d]
    BY <1>0a, <1>12 DEF ReadFrame
  <2>2. \A d \in Ends : Through(d)' = Through(d)
    BY <2>1 DEF Through
  <2>3. NextItem(e)' = NextItem(e) + 1
    <3>1. Head(link[e]) \in Nat
      BY <2>1, EndTypes
    <3>2. Len(got'[e]) = Len(got[e]) + 1
      BY <2>1, <3>1, EndTypes, AppendNat
    <3>3. place'[e] \in Established /\ place[e] \in Established /\ lost'[e] = lost[e]
      BY <2>1 DEF Established
    <3>4. NextItem(e) = lost[e] + Len(got[e]) + 1 /\ NextItem(e)' = lost[e] + Len(got'[e]) + 1
      BY <3>3 DEF NextItem
    <3> QED BY <3>2, <3>4, EndTypes
  <2>4. \A d \in Ends : d # e => NextItem(d)' = NextItem(d)
    BY <2>1 DEF NextItem
  <2>5. StreamOf(e)'
    <3>0. Peer(e) \in Ends
      BY DEF Peer, Ends
    <3>1. Stream(link[e], NextItem(e), wrote[Peer(e)], open[e], Through(Peer(e)))
      BY <1>0 DEF StreamOf
    <3>2. Stream(Tail(link[e]), NextItem(e) + 1, wrote[Peer(e)], open[e], Through(Peer(e)))
      <4>1. link[e] \in Seq(Nat) /\ NextItem(e) \in Nat /\ wrote[Peer(e)] \in Nat
            /\ open[e] \in BOOLEAN /\ Through(Peer(e)) \in BOOLEAN
        BY <3>0, EndTypes
      <4> QED BY <2>1, <3>1, <4>1, StreamTail
    <3> QED BY <2>1, <2>2, <2>3, <3>0, <3>2 DEF StreamOf
  <2>6. ASSUME NEW d \in Ends, d # e PROVE StreamOf(d)'
    <3>1. Peer(d) \in Ends
      BY DEF Peer, Ends
    <3> QED BY <1>0, <2>1, <2>2, <2>4, <2>6, <3>1, StreamOfKept
  <2> QED BY <2>5, <2>6
<1>13. ASSUME NEW e \in Ends, NEW p \in {"broken", "short", "over"}, End(e, p)
       PROVE  \A d \in Ends : StreamOf(d)'
  <2>1. /\ link' = link /\ wrote' = wrote /\ got' = got /\ lost' = lost
        /\ place[e] = "up" /\ place' = [place EXCEPT ![e] = p]
        /\ \A d \in Ends : open'[d] => open[d]
    BY <1>0a, <1>13 DEF End
  <2>2. \A d \in Ends : NextItem(d)' = NextItem(d) /\ (Through(d)' => Through(d))
    BY <1>0a, <2>1 DEF NextItem, Through, Established
  <2> QED BY <1>0, <2>1, <2>2, StreamsKept
<1>14. CASE UNCHANGED vars
  <2>1. /\ link' = link /\ wrote' = wrote /\ open' = open
        /\ \A d \in Ends : NextItem(d)' = NextItem(d) /\ Through(d)' = Through(d)
    BY <1>14 DEF vars, NextItem, Through
  <2> QED BY <1>0, <2>1, StreamsKept
<1>15. CASE Refuse
  BY <1>7, <1>15 DEF Refuse, MayTakeOver
<1>16. ASSUME NEW r \in Replies, Reply(r)
       PROVE  \A d \in Ends : StreamOf(d)'
  BY <1>7, <1>16 DEF Reply
<1>17. CASE DialTLS
  <2>1. /\ link' = link /\ wrote' = wrote /\ got' = got /\ lost' = lost
        /\ place["client"] = "dialing"
        /\ \E p \in {"dialed", "failed"} : place' = [place EXCEPT !["client"] = p]
        /\ \A e \in Ends : open'[e] => open[e]
    BY <1>0a, <1>17 DEF DialTLS
  <2>2. \A e \in Ends : NextItem(e)' = NextItem(e) /\ (Through(e)' => Through(e))
    BY <1>0a, <2>1 DEF NextItem, Through, Established
  <2> QED BY <1>0, <2>1, <2>2, StreamsKept
<1>18. ASSUME NEW e \in Ends, NEW n \in 1 .. Len(link[e]), ReadGarbled(e, n)
       PROVE  \A d \in Ends : StreamOf(d)'
  <2>1. /\ place[e] = "up" /\ place' = place /\ open' = open /\ wrote' = wrote /\ got' = got
        /\ lost'[e] = lost[e] + n /\ link'[e] = SubSeq(link[e], n + 1, Len(link[e]))
        /\ \A d \in Ends : d # e => link'[d] = link[d] /\ lost'[d] = lost[d]
    BY <1>0a, <1>18 DEF ReadGarbled, Behind
  <2>2. \A d \in Ends : Through(d)' = Through(d)
    BY <2>1 DEF Through
  <2>3. NextItem(e)' = NextItem(e) + n
    <3>1. NextItem(e) = lost[e] + Len(got[e]) + 1 /\ NextItem(e)' = lost[e] + n + Len(got[e]) + 1
      BY <2>1 DEF NextItem, Established
    <3> QED BY <3>1, EndTypes
  <2>4. \A d \in Ends : d # e => NextItem(d)' = NextItem(d)
    BY <2>1 DEF NextItem
  <2>5. StreamOf(e)'
    <3>0. Peer(e) \in Ends
      BY DEF Peer, Ends
    <3>1. link[e] \in Seq(Nat) /\ NextItem(e) \in Nat /\ wrote[Peer(e)] \in Nat
          /\ open[e] \in BOOLEAN /\ Through(Peer(e)) \in BOOLEAN
      BY <3>0, EndTypes
    <3>2. Stream(link[e], NextItem(e), wrote[Peer(e)], open[e], Through(Peer(e)))
      BY <1>0 DEF StreamOf
    <3>3. Stream(link'[e], NextItem(e) + n, wrote[Peer(e)], open[e], TRUE)
      BY <2>1, <3>1, <3>2, StreamCut
    <3>4. Stream(link'[e], NextItem(e) + n, wrote[Peer(e)], open[e], Through(Peer(e)))
      <4>1. link'[e] \in Seq(Nat)
        BY DEF Typed
      <4>2. n \in Nat /\ NextItem(e) + n \in Nat
        BY <3>1
      <4> QED BY <3>1, <3>3, <4>1, <4>2, StreamKept
    <3> QED BY <2>1, <2>2, <2>3, <3>0, <3>4 DEF StreamOf
  <2>6. ASSUME NEW d \in Ends, d # e PROVE StreamOf(d)'
    <3>1. Peer(d) \in Ends
      BY DEF Peer, Ends
    <3> QED BY <1>0, <2>1, <2>2, <2>4, <2>6, <3>1, StreamOfKept
  <2> QED BY <2>5, <2>6
<1> QED
  BY <1>0a, <1>1, <1>2, <1>3, <1>4, <1>5, <1>6, <1>8, <1>10, <1>11, <1>12,
     <1>13, <1>14, <1>15, <1>16, <1>17, <1>18
  DEF Next, Negotiating, TakingOver, ReadError, ReadShort, GarbledError, Close

\* Every step keeps what either end has read, dropped and written.
LEMMA HistoryStep ==
  ASSUME Typed, Typed', NegoInv, StreamInv, [Next]_vars
  PROVE  \A e \in Ends : HistoryOf(e)'
<1> USE DEF HistoryOf, Goto, talk
<1> DEFINE c == "client"
           s == "server"
<1>0. \A e \in Ends : HistoryOf(e)
  BY DEF StreamInv
<1>0a. /\ c \in Ends /\ s \in Ends /\ Ends = {c, s}
       /\ DOMAIN place = Ends /\ DOMAIN got = Ends
       /\ DOMAIN lost = Ends /\ DOMAIN wrote = Ends /\ DOMAIN cut = Ends
  BY StreamTypes DEF Typed
<1>1. ASSUME UNCHANGED talk,
             \A e \in Ends : place[e] \in Established => place'[e] \in Established
      PROVE  \A e \in Ends : HistoryOf(e)'
  BY <1>0, <1>1
<1>2. CASE DialSetup
  BY <1>0a, <1>1, <1>2 DEF DialSetup, Established
<1>3. CASE SendRequest
  BY <1>0a, <1>1, <1>3 DEF SendRequest, Established
<1>4. ASSUME NEW k \in 1 .. Len(link["client"]), NEW b \in BOOLEAN, ReadResponse(k, b)
      PROVE  \A e \in Ends : HistoryOf(e)'
  <2>1. /\ place["client"] = "waiting" /\ place' = [place EXCEPT !["client"] = "prepare"]
        /\ lost' = [lost EXCEPT !["client"] = k - 1] /\ got' = got /\ wrote' = wrote
        /\ cut' = [cut EXCEPT !["client"] = b]
    BY <1>4 DEF ReadResponse, TakenIn
  <2>2. Len(got["client"]) = 0
    BY <1>0a, <2>1, BeforeAnswer DEF Established
  <2>3. HistoryOf("client")'
    BY <1>0, <1>0a, <2>1, <2>2 DEF Established
  <2>4. HistoryOf("server")'
    BY <1>0, <1>0a, <2>1
  <2> QED BY <1>0a, <2>3, <2>4
<1>5. CASE NegotiateFails
  BY <1>0a, <1>1, <1>5 DEF NegotiateFails, DialFails, Established
<1>6. ASSUME NEW k \in 1 .. Len(link["server"]), NEW b \in BOOLEAN, Hijack(k, b),
             place' = [place EXCEPT !["server"] = "prepare"]
               \/ place' = [place EXCEPT !["server"] = "failed"]
      PROVE  \A e \in Ends : HistoryOf(e)'
  <2>1. /\ place["server"] = "idle" /\ got' = got /\ wrote' = wrote
        /\ lost' = [lost EXCEPT !["server"] = k - 1] /\ cut' = [cut EXCEPT !["server"] = b]
    BY <1>6 DEF Hijack, TakenIn, MayTakeOver
  <2>2. Len(got["server"]) = 0 /\ lost["server"] = 0 /\ wrote["server"] = 0 /\ Len(link["server"]) <= 1
    BY <1>0a, <2>1, BeforeAnswer DEF Established
  <2>3. k = 1
    BY <1>0a, <2>2, EndTypes
  <2>4. lost'["server"] = 0 /\ lost'["client"] = lost["client"] /\ place'["client"] = place["client"]
    BY <1>0a, <1>6, <2>1, <2>3
  <2>5. HistoryOf("server")'
    BY <1>0, <1>0a, <2>1, <2>2, <2>4
  <2>6. HistoryOf("client")'
    BY <1>0, <1>0a, <2>1, <2>4
  <2> QED BY <1>0a, <2>5, <2>6
<1>7. ASSUME NEW k \in 1 .. Len(link["server"]), NEW b \in BOOLEAN, Accept(k, b)
      PROVE  \A e \in Ends : HistoryOf(e)'
  BY <1>6, <1>7 DEF Accept
<1>8. ASSUME NEW k \in 1 .. Len(link["server"]), NEW b \in BOOLEAN, AcceptFails(k, b)
      PROVE  \A e \in Ends : HistoryOf(e)'
  BY <1>6, <1>8 DEF AcceptFails
<1>9. CASE Refuse
  BY <1>0a, <1>1, <1>9 DEF Refuse, MayTakeOver, Established
<1>10. ASSUME NEW r \in Replies, Reply(r)
       PROVE  \A e \in Ends : HistoryOf(e)'
  BY <1>0a, <1>1, <1>10 DEF Reply, Established
<1>11. ASSUME NEW e \in Ends, Prepare(e)
       PROVE  \A d \in Ends : HistoryOf(d)'
  BY <1>0a, <1>1, <1>11 DEF Prepare, Established
<1>12. CASE HangUp
  BY <1>0a, <1>1, <1>12 DEF HangUp, Established
<1>13. ASSUME NEW e \in Ends, WriteFrame(e)
       PROVE  \A d \in Ends : HistoryOf(d)'
  <2>1. /\ place[e] = "up" /\ place' = place /\ got' = got /\ lost' = lost /\ cut' = cut
        /\ wrote' = [wrote EXCEPT ![e] = @ + 1] /\ wrote[e] < MaxFrames
    BY <1>13 DEF WriteFrame
  <2>2. wrote'[e] <= MaxFrames
    BY <1>0a, <2>1, EndTypes, HandshakeAssumption
  <2>3. HistoryOf(e)'
    BY <1>0, <2>1, <2>2 DEF Established
  <2>4. \A d \in Ends : d # e => HistoryOf(d)'
    BY <1>0, <1>0a, <2>1
  <2> QED BY <2>3, <2>4
<1>14. ASSUME NEW e \in Ends, ReadFrame(e)
       PROVE  \A d \in Ends : HistoryOf(d)'
  <2>1. /\ place[e] = "up" /\ place' = place /\ lost' = lost /\ wrote' = wrote
        /\ cut' = cut /\ ~cut[e]
        /\ got' = [got EXCEPT ![e] = Append(@, Head(link[e]))] /\ link[e] # << >>
    BY <1>14 DEF ReadFrame
  <2>2. NextItem(e) = lost[e] + Len(got[e]) + 1
    BY <2>1 DEF NextItem, Established
  <2>3. Head(link[e]) = lost[e] + Len(got[e]) + 1
    <3>0. Peer(e) \in Ends
      BY DEF Peer, Ends
    <3>1. link[e] \in Seq(Nat) /\ NextItem(e) \in Nat /\ wrote[Peer(e)] \in Nat
          /\ open[e] \in BOOLEAN /\ Through(Peer(e)) \in BOOLEAN
      BY <3>0, EndTypes
    <3>2. Stream(link[e], NextItem(e), wrote[Peer(e)], open[e], Through(Peer(e)))
      BY DEF StreamInv, StreamOf
    <3>3. Head(link[e]) = NextItem(e)
      BY <2>1, <3>1, <3>2, StreamTail
    <3> QED BY <2>2, <3>3
  <2>4. got[e] \in Seq(Nat) /\ Len(got[e]) \in Nat /\ lost[e] \in Nat
    BY EndTypes
  <2>5. got'[e] = Append(got[e], lost[e] + Len(got[e]) + 1)
    BY <1>0a, <2>1, <2>3
  <2>6. \A i \in 1 .. Len(got'[e]) : got'[e][i] = lost[e] + i
    <3>1. \A i \in 1 .. Len(got[e]) : got[e][i] = lost[e] + i
      BY <1>0
    <3> QED BY <2>4, <2>5, <3>1, AppendNat
  <2>7. HistoryOf(e)'
    BY <1>0, <2>1, <2>6 DEF Established
  <2>8. \A d \in Ends : d # e => HistoryOf(d)'
    BY <1>0, <1>0a, <2>1
  <2> QED BY <2>7, <2>8
<1>15. ASSUME NEW e \in Ends, NEW p \in {"broken", "short", "over"}, End(e, p)
       PROVE  \A d \in Ends : HistoryOf(d)'
  BY <1>0a, <1>1, <1>15 DEF End, Established
<1>16. CASE UNCHANGED vars
  BY <1>1, <1>16 DEF vars
<1>17. CASE DialTLS
  BY <1>0a, <1>1, <1>17 DEF DialTLS, Established
<1>18. ASSUME NEW e \in Ends, NEW n \in 1 .. Len(link[e]), ReadGarbled(e, n)
       PROVE  \A d \in Ends : HistoryOf(d)'
  <2>1. /\ place[e] = "up" /\ place' = place /\ got' = got /\ wrote' = wrote /\ cut' = cut
        /\ cut[e] /\ lost' = [lost EXCEPT ![e] = @ + n]
    BY <1>18 DEF ReadGarbled
  <2>2. HistoryOf(e)'
    BY <1>0, <2>1 DEF Established
  <2>3. \A d \in Ends : d # e => HistoryOf(d)'
    BY <1>0, <1>0a, <2>1
  <2> QED BY <2>2, <2>3
<1> HIDE DEF HistoryOf
<1> QED
  BY <1>0a, <1>2, <1>3, <1>4, <1>5, <1>7, <1>8, <1>9, <1>10, <1>11, <1>12,
     <1>13, <1>14, <1>15, <1>16, <1>17, <1>18
  DEF Next, Negotiating, TakingOver, ReadError, ReadShort, GarbledError, Close

\* Every step keeps the order of the handshake.
LEMMA OrderStep ==
  ASSUME Typed, Typed', NegoInv, StreamInv, [Next]_vars
  PROVE  OrderInv'
<1> USE DEF OrderInv, BeforeRequest, Goto, talk
<1>0. OrderInv
  BY DEF StreamInv
<1>0a. /\ Ends = {"client", "server"} /\ DOMAIN place = Ends /\ DOMAIN link = Ends
  BY StreamTypes
<1>1. CASE DialSetup
  BY <1>0, <1>0a, <1>1 DEF DialSetup
<1>2. CASE SendRequest
  <2>1. ~response.switching /\ place["server"] \notin Established
    BY <1>0, <1>2 DEF SendRequest, NegoInv, QuietInv
  <2>2. link'["client"] = link["client"]
    BY <1>0a, <1>2, PutType DEF SendRequest
  <2> QED BY <1>0, <1>0a, <1>2, <2>1, <2>2 DEF SendRequest
<1>3. ASSUME NEW k \in 1 .. Len(link["client"]), NEW b \in BOOLEAN, ReadResponse(k, b)
      PROVE  OrderInv'
  <2>1. place["server"] # "idle"
    BY <1>0, <1>3 DEF ReadResponse, ResponseOK, NegoInv, AnswerInv
  <2> QED BY <1>0, <1>0a, <1>3, <2>1 DEF ReadResponse
<1>4. CASE NegotiateFails
  BY <1>0, <1>0a, <1>4 DEF NegotiateFails, DialFails
<1>5. ASSUME NEW k \in 1 .. Len(link["server"]), NEW b \in BOOLEAN, Accept(k, b)
      PROVE  OrderInv'
  <2>1. place["client"] \notin BeforeRequest
    BY <1>0, <1>5, EndTypes, <1>0a DEF Accept, Hijack, MayTakeOver
  <2>2. response'.switching
    BY <1>5 DEF Accept, ResponseFor
  <2>3. place'["server"] = "prepare" /\ place'["client"] = place["client"] /\ ~given'.foreign
    BY <1>0a, <1>5 DEF Accept, Hijack, MayTakeOver
  <2> QED BY <2>1, <2>2, <2>3 DEF Established
<1>6. ASSUME NEW k \in 1 .. Len(link["server"]), NEW b \in BOOLEAN, AcceptFails(k, b)
      PROVE  OrderInv'
  BY <1>0, <1>0a, <1>6 DEF AcceptFails, Hijack, MayTakeOver, Established
<1>7. ASSUME place["server"] = "idle", place' = [place EXCEPT !["server"] = "failed"],
             Put("client", 0), link["server"] # << >>
      PROVE  OrderInv'
  <2>1. link'["server"] = link["server"] /\ Len(link["server"]) > 0
    BY <1>0a, <1>7, PutType, EndTypes
  <2>2. place["client"] \notin BeforeRequest
    BY <1>0, <2>1, <1>0a, EndTypes
  <2> QED BY <1>0, <1>0a, <1>7, <2>1, <2>2 DEF Established
<1>8. CASE Refuse
  BY <1>7, <1>8 DEF Refuse, MayTakeOver
<1>9. ASSUME NEW r \in Replies, Reply(r)
      PROVE  OrderInv'
  BY <1>7, <1>9 DEF Reply
<1>10. ASSUME NEW e \in Ends, Prepare(e)
       PROVE  OrderInv'
  BY <1>0, <1>0a, <1>10 DEF Prepare, Established
<1>11. CASE HangUp
  BY <1>0, <1>0a, <1>11 DEF HangUp, Established
<1>12. ASSUME NEW e \in Ends, WriteFrame(e)
       PROVE  OrderInv'
  <2>1. /\ place' = place /\ place[e] = "up" /\ response' = response /\ given' = given
        /\ Put(Peer(e), wrote[e] + 1)
    BY <1>12 DEF WriteFrame
  <2>2. place["client"] \notin BeforeRequest
    BY <1>0a, <2>1, BeforeAnswer DEF Established
  <2>3. place["server"] # "idle"
    BY <1>0a, <2>1, BeforeAnswer DEF Established
  <2>4. Len(link["server"]) > 0 => Len(link'["server"]) > 0
    <3>1. wrote[e] + 1 \in Nat /\ Peer(e) \in Ends /\ link["server"] \in Seq(Nat)
      BY <1>0a, EndTypes DEF Peer
    <3>2. \/ link'["server"] = link["server"]
          \/ link'["server"] = Append(link["server"], wrote[e] + 1)
      BY <1>0a, <2>1, <3>1, PutType
    <3> QED BY <3>1, <3>2, AppendNat
  <2> QED BY <1>0, <2>1, <2>2, <2>3, <2>4
<1>13. ASSUME NEW e \in Ends, ReadFrame(e)
       PROVE  OrderInv'
  <2>1. /\ place' = place /\ place[e] = "up" /\ response' = response /\ given' = given
        /\ \A d \in Ends : d # e => link'[d] = link[d]
    BY <1>13 DEF ReadFrame
  <2>2. place["client"] \notin BeforeRequest
    BY <1>0a, <2>1, BeforeAnswer DEF Established
  <2>3. place["server"] # "idle"
    BY <1>0a, <2>1, BeforeAnswer DEF Established
  <2> QED BY <1>0, <1>0a, <2>1, <2>2, <2>3 DEF Established
<1>14. ASSUME NEW e \in Ends, NEW p \in {"broken", "short", "over"}, End(e, p)
       PROVE  OrderInv'
  BY <1>0, <1>0a, <1>14 DEF End, Established
<1>15. CASE UNCHANGED vars
  BY <1>0, <1>15 DEF vars
<1>16. CASE DialTLS
  BY <1>0, <1>0a, <1>16 DEF DialTLS
<1>17. ASSUME NEW e \in Ends, NEW n \in 1 .. Len(link[e]), ReadGarbled(e, n)
       PROVE  OrderInv'
  <2>1. /\ place' = place /\ place[e] = "up" /\ response' = response /\ given' = given
        /\ \A d \in Ends : d # e => link'[d] = link[d]
    BY <1>17 DEF ReadGarbled
  <2>2. place["client"] \notin BeforeRequest
    BY <1>0a, <2>1, BeforeAnswer DEF Established
  <2>3. place["server"] # "idle"
    BY <1>0a, <2>1, BeforeAnswer DEF Established
  <2> QED BY <1>0, <1>0a, <2>1, <2>2, <2>3 DEF Established
<1> HIDE DEF OrderInv
<1> QED
  BY <1>0a, <1>1, <1>2, <1>3, <1>4, <1>5, <1>6, <1>8, <1>9, <1>10, <1>11, <1>12,
     <1>13, <1>14, <1>15, <1>16, <1>17
  DEF Next, Negotiating, TakingOver, ReadError, ReadShort, GarbledError, Close

\* Every step keeps what is lost within what the server wrote early.
LEMMA EarlyStep ==
  ASSUME Typed, Typed', NegoInv, StreamInv, [Next]_vars
  PROVE  EarlyInv'
<1> USE DEF EarlyInv, Goto, talk
<1>0. EarlyInv
  BY DEF StreamInv
<1>0a. /\ Ends = {"client", "server"} /\ DOMAIN lost = Ends /\ DOMAIN wrote = Ends
       /\ DOMAIN got = Ends /\ DOMAIN cut = Ends
  BY StreamTypes DEF Typed
<1>1. ASSUME UNCHANGED talk
      PROVE  EarlyInv'
  BY <1>0, <1>1
<1>2. ASSUME NEW k \in 1 .. Len(link["client"]), NEW b \in BOOLEAN, ReadResponse(k, b)
      PROVE  EarlyInv'
  <2>1. /\ place["client"] = "waiting" /\ lost' = [lost EXCEPT !["client"] = k - 1]
        /\ cut' = [cut EXCEPT !["client"] = b] /\ (b => k < Len(link["client"]))
        /\ UNCHANGED <<got, wrote, early>>
    BY <1>2 DEF ReadResponse, TakenIn
  <2>2. NextItem("client") = 0 /\ wrote["client"] = 0
    BY <1>0a, <2>1, BeforeAnswer DEF Established
  <2>3. /\ NextItem("client") + Len(link["client"]) <= wrote["server"] + 1
        /\ NextItem("server") + Len(link["server"]) <= wrote["client"] + 1
    BY <1>0a, StreamTypes DEF StreamInv, StreamOf, Stream
  <2>4. Len(got["server"]) = 0
    <3>1. CASE Through("server")
      BY <1>0a, <2>2, <2>3, <3>1, EndTypes
    <3>2. CASE ~Through("server")
      BY <1>0a, <3>2, BeforeAnswer DEF Through
    <3> QED BY <3>1, <3>2
  <2>5. k - 1 <= early /\ (b => early > 0)
    BY <1>0, <1>0a, <2>1, <2>2, <2>3, <2>4, EndTypes
  <2> QED BY <1>0, <1>0a, <2>1, <2>5
<1>3. ASSUME NEW k \in 1 .. Len(link["server"]), NEW b \in BOOLEAN, Hijack(k, b)
      PROVE  EarlyInv'
  <2>1. /\ place["server"] = "idle" /\ lost' = [lost EXCEPT !["server"] = k - 1]
        /\ cut' = [cut EXCEPT !["server"] = b] /\ (b => k < Len(link["server"]))
        /\ UNCHANGED <<got, wrote, early>>
    BY <1>3 DEF Hijack, TakenIn, MayTakeOver
  <2>2. k = 1 /\ b = FALSE
    BY <1>0a, <2>1, BeforeAnswer, EndTypes
  <2> QED BY <1>0, <1>0a, <2>1, <2>2
<1>4. ASSUME NEW e \in Ends, WriteFrame(e)
      PROVE  EarlyInv'
  <2>1. /\ wrote' = [wrote EXCEPT ![e] = @ + 1] /\ got' = got /\ lost' = lost /\ cut' = cut
        /\ early' = IF e = "server" /\ got["server"] = << >> THEN early + 1 ELSE early
    BY <1>4 DEF WriteFrame
  <2>2. /\ got["server"] = << >> <=> Len(got["server"]) = 0
        /\ wrote["server"] \in Nat /\ early \in Nat /\ lost["client"] \in Nat
    BY <1>0a, EndTypes DEF Typed
  <2>3. CASE e = "server"
    BY <1>0, <1>0a, <2>1, <2>2, <2>3
  <2>4. CASE e = "client"
    BY <1>0, <1>0a, <2>1, <2>4
  <2> QED BY <1>0a, <2>3, <2>4
<1>5. ASSUME NEW e \in Ends, ReadFrame(e)
      PROVE  EarlyInv'
  <2>1. /\ got' = [got EXCEPT ![e] = Append(@, Head(link[e]))] /\ link[e] # << >>
        /\ lost' = lost /\ cut' = cut /\ wrote' = wrote /\ early' = early
    BY <1>5 DEF ReadFrame
  <2>2. CASE e = "server"
    <3>1. Head(link[e]) \in Nat /\ got[e] \in Seq(Nat)
      BY <2>1, EndTypes
    <3>2. Len(got'["server"]) = Len(got["server"]) + 1 /\ Len(got["server"]) \in Nat
      BY <1>0a, <2>1, <2>2, <3>1, AppendNat, EndTypes
    <3> QED BY <1>0, <2>1, <3>2
  <2>3. CASE e = "client"
    BY <1>0, <1>0a, <2>1, <2>3
  <2> QED BY <1>0a, <2>2, <2>3
<1>6. ASSUME NEW e \in Ends, NEW n \in 1 .. Len(link[e]), ReadGarbled(e, n)
      PROVE  EarlyInv'
  <2>1. /\ got' = got /\ wrote' = wrote /\ early' = early /\ cut' = cut /\ cut[e]
        /\ lost' = [lost EXCEPT ![e] = @ + n]
    BY <1>6 DEF ReadGarbled
  <2>2. e = "client"
    BY <1>0, <1>0a, <2>1
  <2> QED BY <1>0, <1>0a, <2>1, <2>2
<1> HIDE DEF EarlyInv
<1> QED
  BY <1>1, <1>2, <1>3, <1>4, <1>5, <1>6
  DEF Next, Negotiating, TakingOver, ReadError, ReadShort, GarbledError, Close, DialSetup,
      DialTLS, SendRequest,
      NegotiateFails, DialFails, Prepare, Accept, AcceptFails, Refuse, Reply, HangUp,
      End, vars

\* Every step keeps the one limit of a configuration.
LEMMA LimitStep ==
  ASSUME Typed, Typed', NegoInv, StreamInv, [Next]_vars
  PROVE  LimitInv'
<1> USE DEF LimitInv, Goto, talk
<1>0. LimitInv
  BY DEF StreamInv
<1>0a. /\ Ends = {"client", "server"} /\ DOMAIN place = Ends /\ DOMAIN conf = Ends
       /\ conf["client"] \in Config /\ conf["server"] \in Config
  BY StreamTypes DEF Typed
<1>1. ASSUME conf' = conf,
             \A e \in Ends : place'[e] \in {"prepare", "up"} => place[e] \in {"prepare", "up"}
      PROVE  LimitInv'
  BY <1>0, <1>1
<1>2. CASE DialSetup
  BY <1>0, <1>0a, <1>2 DEF DialSetup
<1>3. CASE SendRequest
  BY <1>0a, <1>1, <1>3 DEF SendRequest
<1>4. ASSUME NEW k \in 1 .. Len(link["client"]), NEW b \in BOOLEAN, ReadResponse(k, b)
      PROVE  LimitInv'
  <2>1. Settled(conf["client"])
    BY <1>4 DEF ReadResponse, NegoInv, RequestInv
  <2> QED BY <1>0, <1>0a, <1>4, <2>1 DEF ReadResponse
<1>5. CASE NegotiateFails
  BY <1>0a, <1>1, <1>5 DEF NegotiateFails, DialFails
<1>6. ASSUME NEW k \in 1 .. Len(link["server"]), NEW b \in BOOLEAN, Accept(k, b)
      PROVE  LimitInv'
  <2>1. Settled(Setup(conf["server"]))
    BY <1>0a, <1>6, SetupType DEF Accept, Hijack, Acceptable
  <2> QED BY <1>0, <1>0a, <1>6, <2>1 DEF Accept, Hijack
<1>7. ASSUME NEW k \in 1 .. Len(link["server"]), NEW b \in BOOLEAN, AcceptFails(k, b)
      PROVE  LimitInv'
  BY <1>0, <1>0a, <1>7 DEF AcceptFails, Hijack
<1>8. CASE Refuse
  BY <1>0, <1>0a, <1>8 DEF Refuse
<1>9. ASSUME NEW r \in Replies, Reply(r)
      PROVE  LimitInv'
  BY <1>0a, <1>1, <1>9 DEF Reply
<1>10. ASSUME NEW e \in Ends, Prepare(e)
       PROVE  LimitInv'
  BY <1>0a, <1>1, <1>10 DEF Prepare
<1>11. CASE HangUp
  BY <1>0a, <1>1, <1>11 DEF HangUp
<1>12. ASSUME NEW e \in Ends, WriteFrame(e) \/ ReadFrame(e)
       PROVE  LimitInv'
  BY <1>1, <1>12 DEF WriteFrame, ReadFrame
<1>13. ASSUME NEW e \in Ends, NEW p \in {"broken", "short", "over"}, End(e, p)
       PROVE  LimitInv'
  BY <1>0a, <1>1, <1>13 DEF End
<1>14. CASE UNCHANGED vars
  BY <1>1, <1>14 DEF vars
<1>15. CASE DialTLS
  BY <1>0a, <1>1, <1>15 DEF DialTLS
<1>16. ASSUME NEW e \in Ends, NEW n \in 1 .. Len(link[e]), ReadGarbled(e, n)
       PROVE  LimitInv'
  BY <1>1, <1>16 DEF ReadGarbled
<1> HIDE DEF LimitInv
<1> QED
  BY <1>0a, <1>2, <1>3, <1>4, <1>5, <1>6, <1>7, <1>8, <1>9, <1>10, <1>11, <1>12,
     <1>13, <1>14, <1>15, <1>16
  DEF Next, Negotiating, TakingOver, ReadError, ReadShort, GarbledError, Close

-----------------------------------------------------------------------------
(* The theorems. *)

HandshakeInv == Typed /\ NegoInv /\ StreamInv

\* The invariant holds before anything has been sent.
LEMMA HandshakeInit == Init => HandshakeInv
<1> SUFFICES ASSUME Init PROVE HandshakeInv
  OBVIOUS
<1> USE DEF Init
<1>1. Typed
  <2>1. conf \in [Ends -> Config]
    BY HandshakeAssumption
  <2>2. nego \in [Ends -> Negotiated] /\ request \in Request /\ response \in Response
    BY DEF NoNego, NoRequest, NoResponse, Negotiated, Request, Response
  <2>3. /\ place \in [Ends -> Places] /\ link \in [Ends -> Seq(Nat)]
        /\ open \in [Ends -> BOOLEAN] /\ got \in [Ends -> Seq(Nat)]
        /\ lost \in [Ends -> Nat] /\ wrote \in [Ends -> Nat] /\ cut \in [Ends -> BOOLEAN]
    <3>1. "idle" \in Places /\ << >> \in Seq(Nat)
      BY DEF Places
    <3> QED BY <3>1
  <2> QED BY <2>1, <2>2, <2>3 DEF Typed
<1>2. NegoInv
  BY DEF NegoInv, QuietInv, RequestInv, ResponseInv, AnswerInv, OutcomeInv, Ends,
         Established, BeforeRequest, NoResponse
<1>3. \A e \in Ends :
        /\ place[e] = "idle" /\ link[e] = << >> /\ got[e] = << >>
        /\ lost[e] = 0 /\ wrote[e] = 0 /\ open[e] = FALSE /\ cut[e] = FALSE
  OBVIOUS
<1>4. \A e \in Ends : Peer(e) \in Ends
  BY DEF Peer, Ends
<1>5. \A e \in Ends : StreamOf(e)
  BY <1>3, <1>4 DEF StreamOf, Stream, NextItem, Through, Established
<1>6. \A e \in Ends : HistoryOf(e)
  BY <1>3, HandshakeAssumption DEF HistoryOf
<1>7. OrderInv /\ EarlyInv /\ LimitInv
  BY <1>3 DEF OrderInv, EarlyInv, LimitInv, Ends, Established, NoResponse
<1> QED BY <1>1, <1>2, <1>5, <1>6, <1>7 DEF HandshakeInv, StreamInv

\* The invariant of the handshake and of the byte stream behind it.
THEOREM HandshakeInvariant == Spec => []HandshakeInv
<1>1. HandshakeInv /\ [Next]_vars => HandshakeInv'
  <2> SUFFICES ASSUME HandshakeInv, [Next]_vars PROVE HandshakeInv'
    OBVIOUS
  <2>1. Typed /\ NegoInv /\ StreamInv
    BY DEF HandshakeInv
  <2>2. Typed' /\ NegoInv'
    BY <2>1, TypedStep, NegoStep
  <2>3. StreamInv'
    BY <2>1, <2>2, StreamOfStep, HistoryStep, OrderStep, EarlyStep, LimitStep DEF StreamInv
  <2> QED BY <2>2, <2>3 DEF HandshakeInv
<1> QED BY <1>1, HandshakeInit, PTL DEF Spec

\* The types, with the bounds that follow from the numbering of the frames.
THEOREM HandshakeTypeOKTheorem == Spec => []TypeOK
<1>1. HandshakeInv => TypeOK
  <2> SUFFICES ASSUME HandshakeInv PROVE TypeOK
    OBVIOUS
  <2>1. Typed /\ StreamInv
    BY DEF HandshakeInv
  <2>2. MaxFrames \in Nat
    BY HandshakeAssumption
  <2>3. \A e \in Ends : wrote[e] \in 0 .. MaxFrames
    BY <2>1, <2>2, EndTypes DEF StreamInv, HistoryOf
  <2>4. ASSUME NEW e \in Ends
        PROVE  link[e] \in Seq(0 .. MaxFrames) /\ got[e] \in Seq(1 .. MaxFrames)
    <3>1. Peer(e) \in Ends
      BY DEF Peer, Ends
    <3>2. /\ link[e] \in Seq(Nat) /\ got[e] \in Seq(Nat)
          /\ Len(link[e]) \in Nat /\ Len(got[e]) \in Nat /\ NextItem(e) \in Nat /\ lost[e] \in Nat
          /\ wrote[Peer(e)] \in 0 .. MaxFrames
      BY <2>1, <2>3, <3>1, EndTypes
    <3>3. /\ \A i \in 1 .. Len(link[e]) : link[e][i] = NextItem(e) + i - 1
          /\ NextItem(e) + Len(link[e]) <= wrote[Peer(e)] + 1
      BY <2>1 DEF StreamInv, StreamOf, Stream
    <3>4. ASSUME NEW i \in 1 .. Len(link[e]) PROVE link[e][i] \in 0 .. MaxFrames
      <4> DEFINE n == Len(link[e])
                 x == NextItem(e)
                 w == wrote[Peer(e)]
      <4>1. /\ link[e][i] = x + i - 1 /\ x + n <= w + 1
            /\ x \in Nat /\ n \in Nat /\ w \in 0 .. MaxFrames /\ i \in 1 .. n
        BY <3>2, <3>3
      <4> HIDE DEF n, x, w
      <4> QED BY <2>2, <4>1
    <3>5. Len(got[e]) = 0 \/ NextItem(e) = lost[e] + Len(got[e]) + 1
      BY <2>1 DEF StreamInv, HistoryOf, NextItem
    <3>6. ASSUME NEW i \in 1 .. Len(got[e]) PROVE got[e][i] \in 1 .. MaxFrames
      <4>1. got[e][i] = lost[e] + i
        BY <2>1 DEF StreamInv, HistoryOf
      <4>2. NextItem(e) <= wrote[Peer(e)] + 1
        BY <3>2, <3>3
      <4>3. NextItem(e) = lost[e] + Len(got[e]) + 1
        BY <3>2, <3>5
      <4> DEFINE n == Len(got[e])
                 l == lost[e]
                 w == wrote[Peer(e)]
                 x == NextItem(e)
      <4>4. /\ n \in Nat /\ l \in Nat /\ w \in Nat /\ i \in Nat
            /\ w <= MaxFrames /\ 1 <= i /\ i <= n /\ x <= w + 1 /\ x = l + n + 1
        BY <2>2, <3>2, <4>2, <4>3
      <4>5. l + i \in Nat \ {0} /\ l + i <= MaxFrames
        <5> HIDE DEF n, l, w, x
        <5> QED BY <2>2, <4>4
      <4> QED BY <2>2, <4>1, <4>5
    <3> QED BY <3>2, <3>4, <3>6, SeqOfItems
  <2>5. wrote \in [Ends -> 0 .. MaxFrames] /\ early \in 0 .. MaxFrames
    <3>1. early \in Nat /\ early <= wrote["server"] /\ "server" \in Ends
      BY <2>1 DEF StreamInv, EarlyInv, Ends, Typed
    <3> QED BY <2>1, <2>2, <2>3, <3>1 DEF Typed
  <2>6. link \in [Ends -> Seq(0 .. MaxFrames)] /\ got \in [Ends -> Seq(1 .. MaxFrames)]
    BY <2>1, <2>4 DEF Typed
  <2> QED BY <2>1, <2>5, <2>6 DEF Typed, TypeOK, StreamInv, LimitInv, Settled
<1> QED BY <1>1, HandshakeInvariant, PTL

\* config.go:70: both ends of a connection that is made hold the same outcome,
\* for all configurations.
THEOREM AgreementTheorem == Spec => []Agreement
<1>1. HandshakeInv => Agreement
  <2> SUFFICES ASSUME HandshakeInv, Plain, place["client"] \in Established
               PROVE  /\ place["server"] \in Established
                      /\ nego["client"].streamable = nego["server"].streamable
                      /\ nego["client"].compressable = nego["server"].compressable
                      /\ nego["client"].streamable =>
                           /\ nego["client"].maxStreams = nego["server"].maxStreams
                           /\ nego["client"].maxStreams \in 1 .. MAX_STREAMS_IN_THEORY
                           /\ \A e \in Ends : nego[e].maxStreams <= conf[e].maxStreams
    BY DEF Agreement
  <2>1. Typed /\ QuietInv /\ RequestInv /\ ResponseInv /\ OutcomeInv
    BY DEF HandshakeInv, NegoInv
  <2>2. response.switching /\ nego["client"] = ClientNego
    BY <2>1 DEF OutcomeInv
  <2>3. ~given.foreign /\ given.extra \notin {"streams", "extensions"}
    BY DEF Plain
  <2>4. /\ place["server"] \in Established /\ Settled(conf["server"])
        /\ conf["server"].maxStreams > 0 => \A n \in request.streams : n > 0
        /\ nego["server"] = ServerNego(conf["server"])
        /\ response.streams =
             IF nego["server"].streamable THEN {nego["server"].maxStreams} ELSE {}
        /\ response.deflate = nego["server"].compressable
    BY <2>1, <2>2, <2>3 DEF ResponseInv
  <2>5. /\ Settled(conf["client"])
        /\ request.streams =
             IF conf["client"].enableStreams THEN {conf["client"].maxStreams} ELSE {}
        /\ request.deflate = conf["client"].enableCompress
    BY <2>1, <2>3 DEF RequestInv, Established, BeforeRequest
  <2>6. Ends = {"client", "server"}
    BY DEF Ends
  <2> QED BY <2>1, <2>2, <2>4, <2>5, <2>6, SameOutcome
<1> QED BY <1>1, HandshakeInvariant, PTL

\* README.md:897: frames are read in order and without a gap; they are lost or read out
\* of step at the client only, and only when the server wrote before it had read one.
THEOREM SafeUnlessEarlyTheorem == Spec => []SafeUnlessEarly
<1>1. HandshakeInv => SafeUnlessEarly
  <2> SUFFICES ASSUME HandshakeInv PROVE SafeUnlessEarly
    OBVIOUS
  <2>1. \A e \in Ends : HistoryOf(e) /\ DOMAIN got[e] = 1 .. Len(got[e])
    BY StreamTypes DEF HandshakeInv, StreamInv
  <2> QED BY <2>1 DEF HandshakeInv, StreamInv, EarlyInv, HistoryOf, SafeUnlessEarly
<1> QED BY <1>1, HandshakeInvariant, PTL

\* README.md:441: ends whose MagicKey differs exchange no frame.
THEOREM StrangersDontTalkTheorem == Spec => []StrangersDontTalk
<1>1. HandshakeInv => StrangersDontTalk
  <2> SUFFICES ASSUME HandshakeInv, ~given.sameKey, ~given.foreign
               PROVE  \A e \in Ends : got[e] = << >>
    BY DEF StrangersDontTalk
  <2>1. Typed /\ NegoInv /\ StreamInv
    BY DEF HandshakeInv
  <2>2. place["client"] \notin Established
    BY <2>1 DEF NegoInv, OutcomeInv, ResponseInv
  <2>3. Ends = {"client", "server"} /\ Peer("server") = "client"
    BY <2>1, StreamTypes
  <2>4. Len(got["client"]) = 0 /\ wrote["client"] = 0
    BY <2>1, <2>2, <2>3, BeforeAnswer
  <2>5. Len(got["server"]) = 0
    <3>1. NextItem("server") + Len(link["server"]) <= 1
      BY <2>1, <2>3, <2>4 DEF StreamInv, StreamOf, Stream
    <3>2. CASE Through("server")
      BY <2>1, <2>3, <3>1, <3>2, EndTypes
    <3>3. CASE ~Through("server")
      BY <2>1, <2>3, <3>3, BeforeAnswer DEF Through
    <3> QED BY <3>2, <3>3
  <2> QED BY <2>1, <2>3, <2>4, <2>5, EndTypes
<1> QED BY <1>1, HandshakeInvariant, PTL
=============================================================================

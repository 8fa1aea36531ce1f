--------------------------- MODULE ReceiverProofs ---------------------------
(***************************************************************************)
(* What holds of Receiver for every number of streams and frames and every *)
(* size of the channel of ReadIter.  ReceiverInv is the inductive          *)
(* invariant: what the place of a handler says about its message, whose    *)
(* updateLock is, how the frame in the reader's hand continues the message *)
(* it is merged into, and what is in a message that counts as ended.       *)
(*                                                                         *)
(* A message keeps its frames in three places, and FlattenSeq joins what   *)
(* waits in the channel; so the module begins with what FlattenSeq does to *)
(* sequences that grow at the end and shrink at the front.                 *)
(***************************************************************************)
EXTENDS Receiver, TLAPS, FiniteSetTheorems, SequenceTheorems

\* A set of natural numbers has a least element: the finite sets 0 .. n are well
\* founded.  Induction over sequences below is by the least counterexample.
LEMMA LeastOf ==
  ASSUME NEW T, T \subseteq Nat, T # {}
  PROVE  \E n \in T : \A k \in T : n <= k
<1> DEFINE U == {0 .. n : n \in T}
<1>1. U \subseteq FiniteSubsetsOf(Nat)
  <2>1. \A n \in T : IsFiniteSet(0 .. n) /\ 0 .. n \subseteq Nat
    BY FS_Interval
  <2> QED BY <2>1 DEF FiniteSubsetsOf
<1>2. U # {}
  OBVIOUS
<1>3. PICK X \in U : \A Y \in U : ~(<<Y, X>> \in StrictSubsetOrdering(Nat))
  <2> HIDE DEF U
  <2> QED BY <1>1, <1>2, WFMin, FS_StrictSubsetOrderingWellFounded
<1>4. PICK n \in T : X = 0 .. n
  OBVIOUS
<1>5. ASSUME NEW k \in T, k < n PROVE FALSE
  <2>1. 0 .. k \in U /\ 0 .. k \subseteq 0 .. n /\ n \in 0 .. n /\ n \notin 0 .. k
    BY <1>5
  <2>2. 0 .. k \in SUBSET Nat /\ 0 .. n \in SUBSET Nat
    OBVIOUS
  <2> QED BY <1>3, <1>4, <2>1, <2>2 DEF StrictSubsetOrdering
<1> QED BY <1>5

\* f is what FlattenSeq computes of the first n parts of ss.
Joins(f, ss, n) ==
  f = [i \in 1 .. n |-> IF i = 1 THEN ss[i] ELSE f[i - 1] \o ss[i]]

\* The same as steps from one argument to the next.
JoinStep(f, ss, n) ==
  \A i \in 1 .. n :
    IF i = 1 THEN f[i] = ss[i] ELSE i - 1 \in 1 .. n /\ f[i] = f[i - 1] \o ss[i]

\* Such a function takes these steps.
LEMMA JoinsFacts ==
  ASSUME NEW ss, NEW n \in Nat, NEW f, Joins(f, ss, n)
  PROVE  JoinStep(f, ss, n)
<1>1. \A i \in 1 .. n : f[i] = IF i = 1 THEN ss[i] ELSE f[i - 1] \o ss[i]
  BY DEF Joins
<1>2. \A i \in 1 .. n : i # 1 => i - 1 \in 1 .. n
  OBVIOUS
<1> QED BY <1>1, <1>2 DEF JoinStep

\* There is only one.
LEMMA JoinsUnique ==
  ASSUME NEW ss, NEW n \in Nat, NEW f, NEW g, Joins(f, ss, n), Joins(g, ss, n)
  PROVE  f = g
<1> DEFINE T == {i \in 1 .. n : f[i] # g[i]}
<1>1. T = {}
  <2> SUFFICES ASSUME T # {} PROVE FALSE
    OBVIOUS
  <2>1. PICK i \in T : \A k \in T : i <= k
    <3>1. T \subseteq Nat
      OBVIOUS
    <3> HIDE DEF T
    <3> QED BY <3>1, LeastOf
  <2>2. i \in 1 .. n /\ i \in Nat /\ f[i] # g[i]
    OBVIOUS
  <2>0. JoinStep(f, ss, n) /\ JoinStep(g, ss, n)
    BY JoinsFacts
  <2>3. i # 1
    BY <2>0, <2>2 DEF JoinStep
  <2>4. i - 1 \in 1 .. n /\ f[i] = f[i - 1] \o ss[i] /\ g[i] = g[i - 1] \o ss[i]
    BY <2>0, <2>2, <2>3 DEF JoinStep
  <2>5. f[i - 1] # g[i - 1]
    BY <2>2, <2>4
  <2>6. i - 1 \in T
    BY <2>4, <2>5
  <2> HIDE DEF T
  <2> QED BY <2>1, <2>2, <2>6
<1>2. \A i \in 1 .. n : f[i] = g[i]
  BY <1>1
<1>3. f = [i \in 1 .. n |-> f[i]] /\ g = [i \in 1 .. n |-> g[i]]
  BY DEF Joins
<1> QED BY <1>2, <1>3

\* The next part can be joined to them.
LEMMA JoinsNext ==
  ASSUME NEW ss, NEW n \in Nat, NEW f, Joins(f, ss, n)
  PROVE  \E g : Joins(g, ss, n + 1)
<1> DEFINE e == IF n + 1 = 1 THEN ss[n + 1] ELSE f[n] \o ss[n + 1]
           g == [i \in 1 .. n + 1 |-> IF i = n + 1 THEN e ELSE f[i]]
<1>1. g[n + 1] = e /\ \A i \in 1 .. n : g[i] = f[i]
  <2> HIDE DEF e
  <2> QED OBVIOUS
<1>2. g = [i \in 1 .. n + 1 |-> g[i]]
  OBVIOUS
<1> HIDE DEF g
<1>3. \A i \in 1 .. n + 1 : g[i] = IF i = 1 THEN ss[i] ELSE g[i - 1] \o ss[i]
  <2> SUFFICES ASSUME NEW i \in 1 .. n + 1
               PROVE  g[i] = IF i = 1 THEN ss[i] ELSE g[i - 1] \o ss[i]
    OBVIOUS
  <2>1. CASE i = n + 1
    <3>1. CASE n = 0
      BY <1>1, <2>1, <3>1
    <3>2. CASE n # 0
      <4>1. n \in 1 .. n /\ n + 1 # 1 /\ i - 1 = n
        BY <2>1, <3>2
      <4>2. g[i - 1] = f[n]
        BY <1>1, <4>1
      <4> QED BY <1>1, <2>1, <4>1, <4>2
    <3> QED BY <3>1, <3>2
  <2>2. CASE i \in 1 .. n
    <3>0. JoinStep(f, ss, n)
      BY JoinsFacts
    <3>1. CASE i = 1
      BY <1>1, <2>2, <3>0, <3>1 DEF JoinStep
    <3>2. CASE i # 1
      <4>1. i - 1 \in 1 .. n /\ f[i] = f[i - 1] \o ss[i]
        BY <2>2, <3>0, <3>2 DEF JoinStep
      <4> QED BY <1>1, <2>2, <3>2, <4>1
    <3> QED BY <3>1, <3>2
  <2> QED BY <2>1, <2>2
<1>4. Joins(g, ss, n + 1)
  BY <1>2, <1>3 DEF Joins
<1> QED BY <1>4

\* So all of them can.
LEMMA JoinsExists ==
  ASSUME NEW ss, NEW n \in Nat
  PROVE  \E f : Joins(f, ss, n)
<1> DEFINE T == {k \in Nat : ~\E f : Joins(f, ss, k)}
<1> SUFFICES ASSUME T # {} PROVE FALSE
  OBVIOUS
<1>1. PICK k \in T : \A l \in T : k <= l
  <2>1. T \subseteq Nat
    OBVIOUS
  <2> HIDE DEF T
  <2> QED BY <2>1, LeastOf
<1>2. CASE k = 0
  <2>1. Joins([i \in 1 .. 0 |-> 0], ss, 0)
    BY DEF Joins
  <2> QED BY <1>2, <2>1
<1>3. CASE k # 0
  <2>1. k - 1 \in Nat /\ k - 1 \notin T /\ (k - 1) + 1 = k
    BY <1>1, <1>3
  <2>2. PICK f : Joins(f, ss, k - 1)
    BY <2>1
  <2>3. \E g : Joins(g, ss, (k - 1) + 1)
    BY <2>1, <2>2, JoinsNext
  <2> QED BY <2>1, <2>3
<1> QED BY <1>2, <1>3

\* FlattenSeq is the last of these functions at its last argument.
LEMMA FlattenJoins ==
  ASSUME NEW ss, NEW n \in Nat \ {0}, Len(ss) = n, NEW f, Joins(f, ss, n)
  PROVE  FlattenSeq(ss) = f[n]
<1>1. \A g : Joins(g, ss, n) <=> g = f
  BY JoinsUnique
<1>2. \A g : g = [i \in 1 .. n |-> IF i = 1 THEN ss[i] ELSE g[i - 1] \o ss[i]] <=> g = f
  BY <1>1 DEF Joins
<1> QED BY <1>2 DEF FlattenSeq

\* It joins sequences over a set to sequences over that set.
LEMMA JoinsType ==
  ASSUME NEW S, NEW ss, NEW n \in Nat, \A i \in 1 .. n : ss[i] \in Seq(S),
         NEW f, Joins(f, ss, n)
  PROVE  \A i \in 1 .. n : f[i] \in Seq(S)
<1> DEFINE T == {i \in 1 .. n : f[i] \notin Seq(S)}
<1>1. T = {}
  <2> SUFFICES ASSUME T # {} PROVE FALSE
    OBVIOUS
  <2>1. PICK i \in T : \A k \in T : i <= k
    <3>1. T \subseteq Nat
      OBVIOUS
    <3> HIDE DEF T
    <3> QED BY <3>1, LeastOf
  <2>2. i \in 1 .. n /\ i \in Nat /\ f[i] \notin Seq(S) /\ ss[i] \in Seq(S)
    OBVIOUS
  <2>0. JoinStep(f, ss, n)
    BY JoinsFacts
  <2>3. i # 1
    BY <2>0, <2>2 DEF JoinStep
  <2>4. i - 1 \in 1 .. n /\ f[i] = f[i - 1] \o ss[i]
    BY <2>0, <2>2, <2>3 DEF JoinStep
  <2>5. f[i - 1] \notin Seq(S)
    BY <2>2, <2>4, ConcatProperties
  <2>6. i - 1 \in T
    BY <2>4, <2>5
  <2> HIDE DEF T
  <2> QED BY <2>1, <2>2, <2>6
<1> QED BY <1>1

\* What is known of the parts, with their number named.
LEMMA PartsFacts ==
  ASSUME NEW S, NEW ss \in Seq(Seq(S))
  PROVE  /\ Len(ss) \in Nat
         /\ \A i \in 1 .. Len(ss) : ss[i] \in Seq(S)
         /\ Len(ss) = 0 => ss = << >>
<1>1. Len(ss) \in Nat /\ \A i \in 1 .. Len(ss) : ss[i] \in Seq(S)
  OBVIOUS
<1>2. Len(ss) = 0 => ss = << >>
  BY EmptySeq
<1> QED BY <1>1, <1>2

\* FlattenSeq of no parts, and of parts over a set.
LEMMA FlattenType ==
  ASSUME NEW S, NEW ss \in Seq(Seq(S))
  PROVE  FlattenSeq(ss) \in Seq(S) /\ FlattenSeq(<< >>) = << >>
<1>1. FlattenSeq(<< >>) = << >>
  BY DEF FlattenSeq
<1>2. CASE Len(ss) = 0
  <2>1. ss = << >> /\ << >> \in Seq(S)
    BY <1>2, PartsFacts
  <2> QED BY <1>1, <2>1
<1>3. CASE Len(ss) # 0
  <2>1. PICK n \in Nat \ {0} : n = Len(ss)
    BY <1>3, PartsFacts
  <2>2. PICK f : Joins(f, ss, n)
    BY JoinsExists
  <2>3. FlattenSeq(ss) = f[n]
    BY <2>1, <2>2, FlattenJoins
  <2>4. n \in 1 .. n /\ \A i \in 1 .. n : f[i] \in Seq(S)
    BY <2>1, <2>2, PartsFacts, JoinsType
  <2> QED BY <1>1, <2>3, <2>4
<1> QED BY <1>2, <1>3

\* One part more.
LEMMA FlattenAppend ==
  ASSUME NEW S, NEW ss \in Seq(Seq(S)), NEW e \in Seq(S)
  PROVE  FlattenSeq(Append(ss, e)) = FlattenSeq(ss) \o e
<1>1. PICK n \in Nat : n = Len(ss)
  BY PartsFacts
<1>2. PICK tt \in Seq(Seq(S)) : tt = Append(ss, e)
  BY AppendProperties
<1>3. Len(tt) = n + 1 /\ (\A i \in 1 .. n : tt[i] = ss[i]) /\ tt[n + 1] = e
  BY <1>1, <1>2, AppendProperties
<1>4. n + 1 \in Nat \ {0}
  OBVIOUS
<1>5. PICK g : Joins(g, tt, n + 1)
  BY <1>4, JoinsExists
<1>9. JoinStep(g, tt, n + 1)
  BY <1>4, <1>5, JoinsFacts
<1>6. FlattenSeq(tt) = g[n + 1]
  BY <1>3, <1>4, <1>5, FlattenJoins
<1>7. CASE n = 0
  <2>1. ss = << >>
    BY <1>1, <1>7, PartsFacts
  <2>2. g[1] = tt[1]
    <3>1. 1 \in 1 .. n + 1
      OBVIOUS
    <3> QED BY <1>9, <3>1 DEF JoinStep
  <2>3. FlattenSeq(ss) = << >>
    BY <2>1, FlattenType
  <2>4. << >> \o e = e
    BY ConcatEmptySeq
  <2> QED BY <1>2, <1>3, <1>6, <1>7, <2>2, <2>3, <2>4
<1>8. CASE n # 0
  <2>1. PICK f : Joins(f, ss, n)
    BY JoinsExists
  <2>2. FlattenSeq(ss) = f[n]
    BY <1>1, <1>8, <2>1, FlattenJoins
  <2> DEFINE h == [i \in 1 .. n |-> g[i]]
  <2>3. \A i \in 1 .. n : h[i] = g[i]
    OBVIOUS
  <2>4. h = [i \in 1 .. n |-> h[i]]
    OBVIOUS
  <2> HIDE DEF h
  <2>5. ASSUME NEW i \in 1 .. n
        PROVE  h[i] = IF i = 1 THEN ss[i] ELSE h[i - 1] \o ss[i]
    <3>1. i \in 1 .. n + 1 /\ tt[i] = ss[i] /\ h[i] = g[i]
      BY <1>3, <2>3
    <3>2. CASE i = 1
      BY <1>9, <3>1, <3>2 DEF JoinStep
    <3>3. CASE i # 1
      <4>1. i - 1 \in 1 .. n
        BY <3>3
      <4>2. g[i] = g[i - 1] \o tt[i]
        BY <1>9, <3>1, <3>3 DEF JoinStep
      <4> QED BY <2>3, <3>1, <3>3, <4>1, <4>2
    <3> QED BY <3>2, <3>3
  <2>6. Joins(h, ss, n)
    BY <2>4, <2>5 DEF Joins
  <2>7. h = f
    BY <2>1, <2>6, JoinsUnique
  <2>8. g[n + 1] = g[n] \o tt[n + 1]
    <3>1. n + 1 \in 1 .. n + 1 /\ n + 1 # 1 /\ (n + 1) - 1 = n
      BY <1>8
    <3> QED BY <1>9, <3>1 DEF JoinStep
  <2>10. n \in 1 .. n
    BY <1>8
  <2>9. g[n] = f[n]
    BY <2>3, <2>7, <2>10
  <2> QED BY <1>2, <1>3, <1>6, <2>2, <2>8, <2>9
<1> QED BY <1>7, <1>8

\* The first part and the others.
LEMMA FlattenHead ==
  ASSUME NEW S, NEW ss \in Seq(Seq(S)), ss # << >>
  PROVE  FlattenSeq(ss) = Head(ss) \o FlattenSeq(Tail(ss))
<1>1. PICK m \in Nat : Len(ss) = m + 1
  <2>1. Len(ss) \in Nat /\ Len(ss) # 0
    BY PartsFacts
  <2>2. Len(ss) - 1 \in Nat /\ Len(ss) = (Len(ss) - 1) + 1
    BY <2>1
  <2> QED BY <2>2
<1>2. PICK tt \in Seq(Seq(S)) : tt = Tail(ss)
  BY HeadTailProperties
<1>3. Len(tt) = m /\ \A i \in 1 .. m : tt[i] = ss[i + 1]
  <2>1. Len(tt) = m
    BY <1>1, <1>2, HeadTailProperties
  <2> QED BY <1>2, <2>1, HeadTailProperties
<1>4. \A i \in 1 .. m + 1 : ss[i] \in Seq(S)
  BY <1>1, PartsFacts
<1>5. PICK a \in Seq(S) : a = ss[1] /\ a = Head(ss)
  BY <1>1, <1>4
<1>6. PICK g : Joins(g, tt, m)
  BY JoinsExists
<1>15. JoinStep(g, tt, m)
  BY <1>6, JoinsFacts
<1>7. \A i \in 1 .. m : g[i] \in Seq(S)
  BY <1>3, <1>6, PartsFacts, JoinsType
<1> DEFINE f == [i \in 1 .. m + 1 |-> IF i = 1 THEN a ELSE a \o g[i - 1]]
<1>8. f[1] = a /\ \A i \in 1 .. m : f[i + 1] = a \o g[i]
  OBVIOUS
<1>9. f = [i \in 1 .. m + 1 |-> f[i]]
  OBVIOUS
<1> HIDE DEF f
<1>10. ASSUME NEW i \in 1 .. m
       PROVE  f[i + 1] = f[i] \o ss[i + 1]
  <2>1. CASE i = 1
    <3>1. g[1] = tt[1]
      BY <1>15, <2>1 DEF JoinStep
    <3> QED BY <1>3, <1>8, <2>1, <3>1
  <2>2. CASE i # 1
    <3>1. i - 1 \in 1 .. m /\ g[i] = g[i - 1] \o tt[i]
      BY <1>15, <2>2 DEF JoinStep
    <3>2. f[(i - 1) + 1] = a \o g[i - 1] /\ (i - 1) + 1 = i
      BY <1>8, <3>1
    <3>3. g[i - 1] \in Seq(S) /\ tt[i] \in Seq(S) /\ tt[i] = ss[i + 1]
      BY <1>3, <1>4, <1>7, <3>1
    <3>4. a \o (g[i - 1] \o tt[i]) = (a \o g[i - 1]) \o tt[i]
      <4>1. PICK u \in Seq(S), v \in Seq(S) : u = g[i - 1] /\ v = tt[i]
        BY <3>3
      <4>2. a \o (u \o v) = (a \o u) \o v
        OBVIOUS
      <4> QED BY <4>1, <4>2
    <3> QED BY <1>8, <3>1, <3>2, <3>3, <3>4
  <2> QED BY <2>1, <2>2
<1>11. Joins(f, ss, m + 1)
  <2>1. ASSUME NEW i \in 1 .. m + 1
        PROVE  f[i] = IF i = 1 THEN ss[i] ELSE f[i - 1] \o ss[i]
    <3>1. CASE i = 1
      BY <1>5, <1>8, <3>1
    <3>2. CASE i # 1
      <4>1. i - 1 \in 1 .. m /\ (i - 1) + 1 = i
        BY <3>2
      <4> QED BY <1>10, <3>2, <4>1
    <3> QED BY <3>1, <3>2
  <2> QED BY <1>9, <2>1 DEF Joins
<1>12. FlattenSeq(ss) = f[m + 1]
  <2>1. m + 1 \in Nat \ {0}
    OBVIOUS
  <2> QED BY <1>1, <1>11, <2>1, FlattenJoins
<1>13. CASE m = 0
  <2>1. tt = << >> /\ a \o << >> = a
    BY <1>3, <1>13, PartsFacts, ConcatEmptySeq
  <2>2. FlattenSeq(tt) = << >>
    BY <2>1, FlattenType
  <2> QED BY <1>2, <1>5, <1>8, <1>12, <1>13, <2>1, <2>2
<1>14. CASE m # 0
  <2>1. FlattenSeq(tt) = g[m]
    BY <1>3, <1>6, <1>14, FlattenJoins
  <2>2. m \in 1 .. m
    BY <1>14
  <2> QED BY <1>2, <1>5, <1>8, <1>12, <2>1, <2>2
<1> QED BY <1>13, <1>14
-----------------------------------------------------------------------------
(* The invariant. *)

\* Content of a message, as a function of its record.
ContentOf(r) == r.out \o FlattenSeq(r.chan) \o r.entity

\* The last of these frames ends a message.
Closes(c) == c # << >> /\ Last(c).tag = "fin"

\* One message, its frames in order.
Whole(c) ==
  c # << >> /\ c[1].tag # "cancel" =>
    \A i \in 1 .. Len(c) :
      /\ c[i].part = i
      /\ c[i].stream = c[1].stream /\ c[i].msg = c[1].msg
      /\ c[i].tag = "fin" => i = Len(c)

Merging == {"merge", "send"}
Ending  == {"close", "settle"}

\* The reader is at work on a frame of stream s.
Busy(s) == frame.stream = s /\ rpc \in {"demux"} \cup Merging \cup Ending

\* What the place of its handler says about a message.
HandlerOK(r) ==
  /\ r.hpc \in {"none", "spawned"} => ~r.poolReading /\ r.msgPool = "nil"
  /\ r.hpc \in {"none", "spawned", "make", "drain"} => r.out = << >> /\ r.chan = << >>
  /\ r.hpc \in {"make", "drain", "close"} => r.updateLock = "handler"
  /\ r.hpc \in {"make", "drain", "close", "range"} => r.poolReading
  /\ r.hpc = "make" => r.msgPool = "nil"
  /\ r.hpc = "drain" => r.msgPool # "nil"
  /\ r.hpc = "close" => r.isComplete /\ r.msgPool = "open"
  /\ r.hpc \in {"close", "range", "done"} => r.entity = << >>
  /\ r.hpc = "done" => r.chan = << >> /\ (r.poolReading => r.msgPool = "closed")

HandlerInv == \A m \in Messages : HandlerOK(msg[m])

\* What must not be unless the last frame of message m is in.
LooksEnded(m) ==
  \/ msg[m].isComplete
  \/ msg[m].msgPool = "closed" /\ ~closed
  \/ msg[m].hpc # "none" /\ ~triggerOnStart
  \/ msg[m].hpc = "done" /\ ~(msg[m].poolReading /\ closed)

EndInv == \A m \in Messages : LooksEnded(m) => Closes(ContentOf(msg[m]))

\* A handler sends on an open channel, unless cleanClose has closed it.
DrainInv == \A m \in Messages : msg[m].hpc = "drain" /\ ~closed => msg[m].msgPool = "open"

\* The reader has updateLock while it sends and closes; the channel is open.
LockInv ==
  /\ rpc \in {"send", "close"} => msg[Current].updateLock = "reader" /\ msg[Current].poolReading
  /\ rpc = "close" /\ ~closed => msg[Current].msgPool = "open"

\* The frame in hand starts a message, or continues the pending one of its stream.
HandInv ==
  /\ peer[frame.stream] = frame
  /\ rpc = "demux" =>
       nframes # 0 /\ (frame.tag # "cancel" => pending[frame.stream] = 0 /\ frame.part = 1)
  /\ rpc \in Merging \cup Ending => Current # 0
  /\ rpc \in Merging =>
       LET l == Last(ContentOf(msg[Current]))
       IN  frame.tag # "cancel" /\ l.tag = "more" /\ frame.msg = l.msg /\ frame.part = l.part + 1
  /\ rpc \in Ending => frame.tag = "fin" /\ Last(ContentOf(msg[Current])) = frame

\* The entry of stream s in pendingStreams and the frames of the peer.
StreamOK(s) ==
  LET c == ContentOf(msg[pending[s]])
  IN  /\ pending[s] # 0 => c # << >> /\ c[1].stream = s
      /\ pending[s] # 0 /\ ~Busy(s) => Last(c) = peer[s] /\ peer[s].tag # "fin"
      /\ pending[s] = 0 /\ ~Busy(s) => peer[s].tag = "fin" \/ peer[s].part = 0
      /\ pending[s] # 0 /\ ~triggerOnStart => msg[pending[s]].hpc = "none"

StreamInv == \A s \in StreamIds \cup {0} : StreamOK(s)

\* A message that no frame has created yet.
Fresh(m) == m > nframes \/ (m = nframes /\ rpc = "demux")
FreshInv == \A m \in Messages : Fresh(m) => msg[m] = NoMessage

WholeInv == \A m \in Messages : Whole(ContentOf(msg[m]))

CleanInv == (rpc \in {"clean", "returned"} \/ timer = "clean") => closed

ReceiverInv ==
  /\ TypeOK
  /\ HandlerInv /\ EndInv /\ LockInv /\ DrainInv
  /\ HandInv /\ StreamInv /\ FreshInv /\ WholeInv
  /\ CleanInv

-----------------------------------------------------------------------------
(* What a message holds when one of its three places changes. *)

\* The three places hold frames.
LEMMA PlacesType ==
  ASSUME NEW r \in MessageType
  PROVE  /\ r.out \in Seq(Frames) /\ r.entity \in Seq(Frames) /\ r.chan \in Seq(Seq(Frames))
         /\ FlattenSeq(r.chan) \in Seq(Frames)
         /\ ContentOf(r) \in Seq(Frames)
<1>1. r.out \in Seq(Frames) /\ r.entity \in Seq(Frames) /\ r.chan \in Seq(Seq(Frames))
  BY DEF MessageType
<1>2. FlattenSeq(r.chan) \in Seq(Frames)
  BY <1>1, FlattenType
<1> QED BY <1>1, <1>2 DEF ContentOf

\* Append at the end of a concatenation.
LEMMA ConcatAppend ==
  ASSUME NEW S, NEW s \in Seq(S), NEW t \in Seq(S), NEW e \in S
  PROVE  s \o Append(t, e) = Append(s \o t, e) /\ s \o (t \o <<e>>) = Append(s \o t, e)
OBVIOUS

\* The empty sequence at either end.
LEMMA ConcatNothing ==
  ASSUME NEW S, NEW s \in Seq(S)
  PROVE  << >> \o s = s /\ s \o << >> = s
OBVIOUS

\* merge into the buffer.
LEMMA EntityGrows ==
  ASSUME NEW r \in MessageType, NEW q \in MessageType, NEW f \in Frames,
         q.out = r.out, q.chan = r.chan, q.entity = Append(r.entity, f)
  PROVE  ContentOf(q) = Append(ContentOf(r), f)
<1>0. r.entity \in Seq(Frames) /\ r.out \o FlattenSeq(r.chan) \in Seq(Frames)
  BY PlacesType, ConcatProperties
<1>1. PICK s \in Seq(Frames), t \in Seq(Frames) :
        s = r.out \o FlattenSeq(r.chan) /\ t = r.entity
  BY <1>0
<1>2. s \o Append(t, f) = Append(s \o t, f)
  BY ConcatAppend
<1> QED BY <1>1, <1>2 DEF ContentOf

\* merge into the channel of a message whose buffer is empty.
LEMMA ChannelGrows ==
  ASSUME NEW r \in MessageType, NEW q \in MessageType, NEW f \in Frames,
         q.out = r.out, q.chan = Append(r.chan, <<f>>), q.entity = << >>, r.entity = << >>
  PROVE  ContentOf(q) = Append(ContentOf(r), f)
<1>1. PICK s \in Seq(Frames), t \in Seq(Frames) : s = r.out /\ t = FlattenSeq(r.chan)
  BY PlacesType
<1>2. FlattenSeq(q.chan) = t \o <<f>>
  <2>1. <<f>> \in Seq(Frames)
    OBVIOUS
  <2> QED BY <1>1, <2>1, PlacesType, FlattenAppend
<1>3. s \o (t \o <<f>>) = Append(s \o t, f)
  BY ConcatAppend
<1>4. ContentOf(r) = s \o t
  <2>1. s \o t \in Seq(Frames)
    BY ConcatProperties
  <2>2. (s \o t) \o << >> = s \o t
    BY <2>1, ConcatNothing
  <2> QED BY <1>1, <2>2 DEF ContentOf
<1>5. ContentOf(q) = s \o (t \o <<f>>)
  <2>1. s \o (t \o <<f>>) \in Seq(Frames)
    BY ConcatProperties
  <2>2. (s \o (t \o <<f>>)) \o << >> = s \o (t \o <<f>>)
    BY <2>1, ConcatNothing
  <2> QED BY <1>1, <1>2, <2>2 DEF ContentOf
<1> QED BY <1>3, <1>4, <1>5

\* ReadIter drains the buffer into the channel.
LEMMA DrainKeeps ==
  ASSUME NEW r \in MessageType, NEW q \in MessageType,
         q.out = r.out, q.chan = Append(r.chan, r.entity), q.entity = << >>
  PROVE  ContentOf(q) = ContentOf(r)
<1>1. PICK s \in Seq(Frames), t \in Seq(Frames), u \in Seq(Frames) :
        s = r.out /\ t = FlattenSeq(r.chan) /\ u = r.entity
  BY PlacesType
<1>2. FlattenSeq(q.chan) = t \o u
  BY <1>1, PlacesType, FlattenAppend
<1>3. s \o (t \o u) = (s \o t) \o u
  OBVIOUS
<1>4. ContentOf(r) = (s \o t) \o u
  BY <1>1 DEF ContentOf
<1>5. ContentOf(q) = s \o (t \o u)
  <2>1. s \o (t \o u) \in Seq(Frames)
    BY ConcatProperties
  <2>2. (s \o (t \o u)) \o << >> = s \o (t \o u)
    BY <2>1, ConcatNothing
  <2> QED BY <1>1, <1>2, <2>2 DEF ContentOf
<1> QED BY <1>3, <1>4, <1>5

\* Read takes all of the buffer.
LEMMA ReadKeeps ==
  ASSUME NEW r \in MessageType, NEW q \in MessageType,
         r.out = << >>, r.chan = << >>, q.out = r.entity, q.chan = << >>, q.entity = << >>
  PROVE  ContentOf(q) = ContentOf(r)
<1>1. FlattenSeq(<< >>) = << >>
  BY PlacesType, FlattenType
<1>2. PICK s \in Seq(Frames) : s = r.entity
  BY PlacesType
<1>3. << >> \o s = s /\ s \o << >> = s /\ << >> \o << >> = << >>
  BY ConcatNothing
<1>4. ContentOf(r) = s
  BY <1>1, <1>2, <1>3 DEF ContentOf
<1>5. ContentOf(q) = s
  BY <1>1, <1>2, <1>3 DEF ContentOf
<1> QED BY <1>4, <1>5

\* The handler takes the first part out of the channel.
LEMMA ReceiveKeeps ==
  ASSUME NEW r \in MessageType, NEW q \in MessageType, r.chan # << >>,
         q.out = r.out \o Head(r.chan), q.chan = Tail(r.chan), q.entity = r.entity
  PROVE  ContentOf(q) = ContentOf(r)
<1>1. Head(r.chan) \in Seq(Frames) /\ Tail(r.chan) \in Seq(Seq(Frames))
  BY PlacesType, HeadTailProperties
<1>2. PICK s \in Seq(Frames), t \in Seq(Frames), u \in Seq(Frames), v \in Seq(Frames) :
        s = r.out /\ t = Head(r.chan) /\ u = FlattenSeq(Tail(r.chan)) /\ v = r.entity
  BY <1>1, PlacesType, FlattenType
<1>3. FlattenSeq(r.chan) = t \o u
  BY <1>2, PlacesType, FlattenHead
<1>4. (s \o t) \o u = s \o (t \o u)
  OBVIOUS
<1>5. ContentOf(r) = (s \o (t \o u)) \o v
  BY <1>2, <1>3 DEF ContentOf
<1>6. ContentOf(q) = ((s \o t) \o u) \o v
  BY <1>2 DEF ContentOf
<1> QED BY <1>4, <1>5, <1>6

-----------------------------------------------------------------------------
(* Sequences of frames. *)

\* A sequence and one element more.
LEMMA OneMore ==
  ASSUME NEW S, NEW s \in Seq(S), NEW e \in S
  PROVE  /\ Append(s, e) \in Seq(S) /\ Append(s, e) # << >>
         /\ Len(s) \in Nat /\ Len(Append(s, e)) = Len(s) + 1
         /\ Append(s, e)[Len(s) + 1] = e
         /\ \A i \in 1 .. Len(s) : Append(s, e)[i] = s[i]
         /\ s # << >> => Len(s) # 0 /\ Append(s, e)[1] = s[1]
<1>1. /\ Append(s, e) \in Seq(S) /\ Append(s, e) # << >>
      /\ Len(s) \in Nat /\ Len(Append(s, e)) = Len(s) + 1
      /\ Append(s, e)[Len(s) + 1] = e
      /\ \A i \in 1 .. Len(s) : Append(s, e)[i] = s[i]
  OBVIOUS
<1>2. s # << >> => Len(s) # 0
  BY EmptySeq
<1>3. Len(s) # 0 => 1 \in 1 .. Len(s)
  BY <1>1
<1> QED BY <1>1, <1>2, <1>3

\* The last element of such a sequence.
LEMMA LastOfAppend ==
  ASSUME NEW S, NEW s \in Seq(S), NEW e \in S
  PROVE  Last(Append(s, e)) = e
BY OneMore DEF Last

\* Its next frame keeps it so.
LEMMA WholeGrows ==
  ASSUME NEW c \in Seq(Frames), NEW f \in Frames, c # << >>, Whole(c),
         f.stream = c[1].stream, f.msg = Last(c).msg, f.part = Last(c).part + 1,
         Last(c).tag = "more"
  PROVE  Whole(Append(c, f))
<1> DEFINE d == Append(c, f)
<1> SUFFICES ASSUME d[1].tag # "cancel", NEW i \in 1 .. Len(d)
             PROVE  /\ d[i].part = i
                    /\ d[i].stream = d[1].stream /\ d[i].msg = d[1].msg
                    /\ d[i].tag = "fin" => i = Len(d)
  BY DEF Whole
<1>1. PICK n \in Nat \ {0} : n = Len(c)
  BY OneMore
<1>2. Len(d) = n + 1 /\ d[n + 1] = f /\ d[1] = c[1] /\ \A j \in 1 .. n : d[j] = c[j]
  BY <1>1, OneMore
<1> HIDE DEF d
<1>3. \A j \in 1 .. n : /\ c[j].part = j
                        /\ c[j].stream = c[1].stream /\ c[j].msg = c[1].msg
                        /\ c[j].tag = "fin" => j = n
  BY <1>1, <1>2 DEF Whole
<1>4. Last(c) = c[n] /\ n \in 1 .. n
  BY <1>1 DEF Last
<1>5. CASE i = n + 1
  BY <1>2, <1>3, <1>4, <1>5
<1>6. CASE i \in 1 .. n
  <2>1. d[i] = c[i] /\ i # n + 1
    BY <1>2, <1>6
  <2>2. c[i].tag = "fin" => i = n
    BY <1>3, <1>6
  <2>3. c[i].tag # "fin"
    BY <1>4, <2>2
  <2> QED BY <1>2, <1>3, <1>6, <2>1, <2>3
<1> QED BY <1>2, <1>5, <1>6

\* A frame that starts a message is one.
LEMMA WholeStarts ==
  ASSUME NEW f \in Frames, f.tag # "cancel" => f.part = 1
  PROVE  Whole(<<f>>) /\ Last(<<f>>) = f
<1>1. <<f>> \in Seq(Frames) /\ Len(<<f>>) = 1 /\ <<f>>[1] = f
  OBVIOUS
<1>2. Last(<<f>>) = f
  BY <1>1 DEF Last
<1>3. \A i \in 1 .. 1 : i = 1
  OBVIOUS
<1> QED BY <1>1, <1>2, <1>3 DEF Whole

-----------------------------------------------------------------------------
(* The messages and what they hold. *)


\* Content is a function of the record.
LEMMA ContentFacts ==
  ASSUME TypeOK, NEW m \in Messages
  PROVE  /\ msg[m] \in MessageType
         /\ Content(m) = ContentOf(msg[m])
         /\ ContentOf(msg[m]) \in Seq(Frames)
<1>1. msg[m] \in MessageType
  BY DEF TypeOK
<1>2. Content(m) = ContentOf(msg[m])
  BY DEF Content, ContentOf
<1> QED BY <1>1, <1>2, PlacesType

\* A message that no frame has created holds none.
LEMMA NothingYet ==
  /\ NoMessage \in MessageType
  /\ ContentOf(NoMessage) = << >>
  /\ \A f \in Frames : \A q \in MessageType :
       q.out = << >> /\ q.chan = << >> /\ q.entity = <<f>> => ContentOf(q) = <<f>>
<1>1. NoMessage \in MessageType
  BY DEF NoMessage, MessageType
<1>2. FlattenSeq(<< >>) = << >>
  <2>1. << >> \in Seq(Seq(Frames))
    OBVIOUS
  <2> QED BY <2>1, FlattenType
<1>3. << >> \o << >> = << >>
  OBVIOUS
<1>4. ContentOf(NoMessage) = << >>
  BY <1>2, <1>3 DEF NoMessage, ContentOf
<1>5. ASSUME NEW f \in Frames PROVE (<< >> \o << >>) \o <<f>> = <<f>>
  OBVIOUS
<1> QED BY <1>1, <1>2, <1>4, <1>5 DEF ContentOf

\* The pending messages of two streams are two messages; none is fresh.
LEMMA PendingFacts ==
  ASSUME ReceiverInv, NEW s \in StreamIds \cup {0}, pending[s] # 0
  PROVE  /\ pending[s] \in Messages
         /\ ContentOf(msg[pending[s]]) \in Seq(Frames)
         /\ ContentOf(msg[pending[s]]) # << >>
         /\ ContentOf(msg[pending[s]])[1].stream = s
         /\ ~Fresh(pending[s])
         /\ \A t \in StreamIds \cup {0} : t # s => pending[t] # pending[s]
<1>1. StreamOK(s) /\ TypeOK /\ FreshInv /\ \A t \in StreamIds \cup {0} : StreamOK(t)
  BY DEF ReceiverInv, StreamInv
<1>2. pending[s] \in Messages
  BY <1>1, ReceiverAssumption DEF TypeOK, Messages
<1>3. ContentOf(msg[pending[s]]) \in Seq(Frames) /\ ContentOf(msg[pending[s]]) # << >>
  BY <1>1, <1>2, ContentFacts DEF StreamOK
<1>4. ContentOf(msg[pending[s]])[1].stream = s
  BY <1>1 DEF StreamOK
<1>5. ~Fresh(pending[s])
  BY <1>1, <1>2, <1>3, NothingYet DEF FreshInv
<1>6. \A t \in StreamIds \cup {0} : t # s => pending[t] # pending[s]
  BY <1>1, <1>4 DEF StreamOK
<1> QED BY <1>2, <1>3, <1>4, <1>5, <1>6

\* The same of the message that the frame in hand continues.
LEMMA CurrentFacts ==
  ASSUME ReceiverInv
  PROVE  /\ frame \in Frames /\ frame.stream \in StreamIds \cup {0}
         /\ Current # 0 => /\ Current \in Messages /\ ~Fresh(Current)
                           /\ ContentOf(msg[Current]) \in Seq(Frames)
                           /\ ContentOf(msg[Current]) # << >>
                           /\ ContentOf(msg[Current])[1].stream = frame.stream
                           /\ \A s \in StreamIds \cup {0} :
                                s # frame.stream => pending[s] # Current
<1>1. frame \in Frames
  BY DEF ReceiverInv, TypeOK
<1>2. frame.stream \in StreamIds \cup {0}
  BY <1>1 DEF Frames
<1> QED BY <1>1, <1>2, PendingFacts DEF Current

\* A message that is not fresh: its handler or the frame table has it.
LEMMA NotFresh ==
  ASSUME ReceiverInv, NEW m \in Messages, msg[m].hpc # "none"
  PROVE  ~Fresh(m)
BY DEF ReceiverInv, FreshInv, NoMessage

(***************************************************************************)
(* A step that leaves the reader where it is and changes one message       *)
(* without changing what it holds: all steps of a handler, and cleanClose. *)
(***************************************************************************)
LEMMA QuietStep ==
  ASSUME ReceiverInv, NEW m \in Messages, ~Fresh(m),
         UNCHANGED <<config, input, rpc, pending, closed, timer>>,
         visited' \in [Cleaners -> SUBSET Messages],
         msg' \in [Messages -> MessageType],
         \A k \in Messages : k # m => msg'[k] = msg[k],
         Len(msg'[m].chan) <= ChanSize,
         HandlerOK(msg'[m]),
         ContentOf(msg'[m]) = ContentOf(msg[m]),
         msg'[m].isComplete = msg[m].isComplete,
         msg[m].hpc = "none" <=> msg'[m].hpc = "none",
         msg[m].poolReading => msg'[m].poolReading,
         msg'[m].msgPool = "closed" =>
           closed \/ msg[m].isComplete \/ msg[m].msgPool = "closed",
         msg'[m].hpc = "done" =>
           \/ msg[m].hpc = "done" /\ msg'[m].poolReading = msg[m].poolReading
           \/ msg[m].isComplete \/ ~triggerOnStart
           \/ msg[m].msgPool = "closed" /\ msg'[m].poolReading,
         msg'[m].hpc = "drain" => closed \/ msg'[m].msgPool = "open",
         msg[m].updateLock = "reader" =>
           msg'[m].updateLock = "reader" /\ (closed \/ msg'[m].msgPool = msg[m].msgPool)
  PROVE  ReceiverInv'
<1>1. TypeOK'
  BY DEF ReceiverInv, TypeOK, config, input
<1>2. \A k \in Messages : ContentOf(msg'[k]) = ContentOf(msg[k])
  OBVIOUS
<1>3. HandlerInv'
  BY DEF ReceiverInv, HandlerInv
<1>4. EndInv'
  <2> SUFFICES ASSUME NEW k \in Messages, LooksEnded(k)'
               PROVE  Closes(ContentOf(msg'[k]))
    BY DEF EndInv
  <2>1. LooksEnded(k)
    <3>1. CASE k = m
      BY <3>1 DEF LooksEnded, config
    <3>2. CASE k # m
      BY <3>2 DEF LooksEnded, config
    <3> QED BY <3>1, <3>2
  <2> QED BY <1>2, <2>1 DEF ReceiverInv, EndInv
<1>5. Current' = Current /\ (Current # 0 => Current \in Messages)
  BY CurrentFacts DEF Current, input
<1>6. LockInv'
  <2>1. LockInv /\ (rpc \in {"send", "close"} => Current \in Messages)
    BY <1>5 DEF ReceiverInv, HandInv, Merging, Ending
  <2> QED BY <1>5, <2>1 DEF LockInv
<1>7. HandInv'
  BY <1>2, <1>5 DEF ReceiverInv, HandInv, Merging, Ending, input, Current
<1>8. StreamInv'
  <2> SUFFICES ASSUME NEW s \in StreamIds \cup {0} PROVE StreamOK(s)'
    BY DEF StreamInv
  <2>1. StreamOK(s) /\ (pending[s] # 0 => pending[s] \in Messages)
    BY PendingFacts DEF ReceiverInv, StreamInv
  <2>2. (Busy(s)' <=> Busy(s)) /\ pending' = pending /\ peer' = peer
    BY DEF Busy, input, Merging, Ending
  <2>3. pending[s] # 0 =>
          /\ ContentOf(msg'[pending[s]]) = ContentOf(msg[pending[s]])
          /\ msg[pending[s]].hpc = "none" => msg'[pending[s]].hpc = "none"
    BY <1>2, <2>1
  <2> QED BY <2>1, <2>2, <2>3 DEF StreamOK, config
<1>9. FreshInv'
  BY DEF ReceiverInv, FreshInv, Fresh, input
<1>10. WholeInv'
  BY <1>2 DEF ReceiverInv, WholeInv
<1>11. CleanInv' /\ DrainInv'
  BY DEF ReceiverInv, CleanInv, DrainInv
<1> QED BY <1>1, <1>3, <1>4, <1>6, <1>7, <1>8, <1>9, <1>10, <1>11 DEF ReceiverInv

-----------------------------------------------------------------------------
(* The steps of a handler. *)

\* Read.
LEMMA HandlerReadKeeps ==
  ASSUME ReceiverInv, NEW m \in Messages, HandlerRead(m)
  PROVE  ReceiverInv'
<1>1. TypeOK /\ HandlerOK(msg[m]) /\ msg[m] \in MessageType /\ visited' = visited
  BY DEF ReceiverInv, TypeOK, HandlerInv, HandlerRead, closing
<1>2. msg[m].hpc = "spawned" /\ (triggerOnStart => msg[m].isComplete)
  BY DEF HandlerRead, MayLock
<1>3. UNCHANGED <<config, input, rpc, pending, closed, timer>>
  BY DEF HandlerRead, closing
<1>4. msg'[m] = [msg[m] EXCEPT !.out = msg[m].entity, !.entity = << >>, !.hpc = "done"]
  BY <1>1 DEF HandlerRead, TypeOK
<1>5. msg'[m] \in MessageType
  BY <1>1, <1>4, PlacesType, NothingYet DEF MessageType, NoMessage
<1>6. /\ msg'[m].out = msg[m].entity /\ msg'[m].entity = << >>
      /\ msg'[m].hpc = "done" /\ msg'[m].isComplete = msg[m].isComplete
      /\ msg'[m].poolReading = msg[m].poolReading /\ msg'[m].msgPool = msg[m].msgPool
      /\ msg'[m].chan = msg[m].chan /\ msg'[m].updateLock = msg[m].updateLock
  BY <1>1, <1>4 DEF MessageType
<1>7. /\ msg' \in [Messages -> MessageType]
      /\ \A k \in Messages : k # m => msg'[k] = msg[k]
  BY <1>1, <1>5 DEF HandlerRead, TypeOK
<1>8. ~msg[m].poolReading /\ msg[m].msgPool = "nil" /\ msg[m].out = << >> /\ msg[m].chan = << >>
  BY <1>1, <1>2 DEF HandlerOK
<1>9. HandlerOK(msg'[m])
  BY <1>1, <1>2, <1>6, <1>8 DEF HandlerOK
<1>10. ContentOf(msg'[m]) = ContentOf(msg[m])
  BY <1>1, <1>5, <1>6, <1>8, ReadKeeps
<1>11. Len(msg'[m].chan) <= ChanSize
  BY <1>1, <1>6 DEF TypeOK
<1>12. ~Fresh(m) /\ visited' \in [Cleaners -> SUBSET Messages]
  BY <1>1, <1>2, NotFresh DEF TypeOK
<1> QED BY <1>2, <1>3, <1>5, <1>6, <1>7, <1>8, <1>9, <1>10, <1>11, <1>12, QuietStep

\* ReadIter takes updateLock.
LEMMA IterLockKeeps ==
  ASSUME ReceiverInv, NEW m \in Messages, IterLock(m)
  PROVE  ReceiverInv'
<1>1. TypeOK /\ HandlerOK(msg[m]) /\ msg[m] \in MessageType /\ visited' = visited
  BY DEF ReceiverInv, TypeOK, HandlerInv, IterLock, closing
<1>2. msg[m].hpc = "spawned" /\ msg[m].updateLock = "none"
  BY DEF IterLock, MayLock
<1>3. UNCHANGED <<config, input, rpc, pending, closed, timer>>
  BY DEF IterLock, closing
<1>4. msg'[m] = [msg[m] EXCEPT !.updateLock = "handler", !.poolReading = TRUE, !.hpc = "make"]
  BY <1>1 DEF IterLock, TypeOK
<1>5. msg'[m] \in MessageType
  BY <1>1, <1>4, PlacesType DEF MessageType
<1>6. /\ msg'[m].updateLock = "handler" /\ msg'[m].poolReading = TRUE
      /\ msg'[m].hpc = "make" /\ msg'[m].entity = msg[m].entity
      /\ msg'[m].isComplete = msg[m].isComplete /\ msg'[m].msgPool = msg[m].msgPool
      /\ msg'[m].chan = msg[m].chan /\ msg'[m].out = msg[m].out
  BY <1>1, <1>4 DEF MessageType
<1>7. /\ msg' \in [Messages -> MessageType]
      /\ \A k \in Messages : k # m => msg'[k] = msg[k]
  BY <1>1, <1>5 DEF IterLock, TypeOK
<1>8. ~msg[m].poolReading /\ msg[m].msgPool = "nil" /\ msg[m].out = << >> /\ msg[m].chan = << >>
  BY <1>1, <1>2 DEF HandlerOK
<1>9. HandlerOK(msg'[m])
  BY <1>1, <1>2, <1>6, <1>8 DEF HandlerOK
<1>10. ContentOf(msg'[m]) = ContentOf(msg[m])
  BY <1>6 DEF ContentOf
<1>11. Len(msg'[m].chan) <= ChanSize
  BY <1>1, <1>6 DEF TypeOK
<1>12. ~Fresh(m) /\ visited' \in [Cleaners -> SUBSET Messages]
  BY <1>1, <1>2, NotFresh DEF TypeOK
<1> QED BY <1>2, <1>3, <1>5, <1>6, <1>7, <1>8, <1>9, <1>10, <1>11, <1>12, QuietStep

\* It makes the channel.
LEMMA IterMakeKeeps ==
  ASSUME ReceiverInv, NEW m \in Messages, IterMake(m)
  PROVE  ReceiverInv'
<1>1. TypeOK /\ HandlerOK(msg[m]) /\ msg[m] \in MessageType /\ visited' = visited
  BY DEF ReceiverInv, TypeOK, HandlerInv, IterMake, closing
<1>2. msg[m].hpc = "make"
  BY DEF IterMake
<1>3. UNCHANGED <<config, input, rpc, pending, closed, timer>>
  BY DEF IterMake, closing
<1>4. msg'[m] = [msg[m] EXCEPT !.msgPool = "open", !.hpc = "drain"]
  BY <1>1 DEF IterMake, TypeOK
<1>5. msg'[m] \in MessageType
  BY <1>1, <1>4, PlacesType DEF MessageType
<1>6. /\ msg'[m].msgPool = "open" /\ msg'[m].hpc = "drain"
      /\ msg'[m].entity = msg[m].entity /\ msg'[m].isComplete = msg[m].isComplete
      /\ msg'[m].poolReading = msg[m].poolReading /\ msg'[m].chan = msg[m].chan
      /\ msg'[m].updateLock = msg[m].updateLock /\ msg'[m].out = msg[m].out
  BY <1>1, <1>4 DEF MessageType
<1>7. /\ msg' \in [Messages -> MessageType]
      /\ \A k \in Messages : k # m => msg'[k] = msg[k]
  BY <1>1, <1>5 DEF IterMake, TypeOK
<1>8. msg[m].updateLock = "handler" /\ msg[m].poolReading /\ msg[m].out = << >> /\ msg[m].chan = << >>
  BY <1>1, <1>2 DEF HandlerOK
<1>9. HandlerOK(msg'[m])
  BY <1>1, <1>2, <1>6, <1>8 DEF HandlerOK
<1>10. ContentOf(msg'[m]) = ContentOf(msg[m])
  BY <1>6 DEF ContentOf
<1>11. Len(msg'[m].chan) <= ChanSize
  BY <1>1, <1>6 DEF TypeOK
<1>12. ~Fresh(m) /\ visited' \in [Cleaners -> SUBSET Messages]
  BY <1>1, <1>2, NotFresh DEF TypeOK
<1> QED BY <1>2, <1>3, <1>5, <1>6, <1>7, <1>8, <1>9, <1>10, <1>11, <1>12, QuietStep

\* It drains the buffer.
LEMMA IterDrainKeeps ==
  ASSUME ReceiverInv, NEW m \in Messages, IterDrain(m)
  PROVE  ReceiverInv'
<1>1. TypeOK /\ HandlerOK(msg[m]) /\ msg[m] \in MessageType /\ visited' = visited
  BY DEF ReceiverInv, TypeOK, HandlerInv, IterDrain, closing
<1>2. msg[m].hpc = "drain" /\ msg[m].msgPool = "open"
  BY DEF IterDrain
<1>3. UNCHANGED <<config, input, rpc, pending, closed, timer>>
  BY DEF IterDrain, closing
<1>4. PICK c, l, h :
        /\ c = Append(msg[m].chan, msg[m].entity)
        /\ l = IF msg[m].isComplete THEN msg[m].updateLock ELSE "none"
        /\ h = IF msg[m].isComplete THEN "close" ELSE "range"
  OBVIOUS
<1>5. msg' = [msg EXCEPT ![m].chan = c, ![m].entity = << >>, ![m].updateLock = l, ![m].hpc = h]
  BY <1>1, <1>4 DEF IterDrain, TypeOK
<1>6. msg'[m] = [msg[m] EXCEPT !.chan = c, !.entity = << >>, !.updateLock = l, !.hpc = h]
  BY <1>1, <1>5 DEF TypeOK
<1>7. c \in Seq(Seq(Frames)) /\ << >> \in Seq(Frames)
  <2>1. msg[m].chan \in Seq(Seq(Frames)) /\ msg[m].entity \in Seq(Frames)
    BY <1>1, PlacesType
  <2> QED BY <1>4, <2>1, AppendProperties
<1>8. msg[m].updateLock = "handler" /\ msg[m].poolReading /\ msg[m].chan = << >>
      /\ msg[m].out = << >>
  BY <1>1, <1>2 DEF HandlerOK
<1>9. l \in {"none", "handler"} /\ h \in {"close", "range"}
      /\ (h = "close" => msg[m].isComplete /\ l = "handler")
  BY <1>4, <1>8
<1>10. msg'[m] \in MessageType
  BY <1>1, <1>6, <1>7, <1>9 DEF MessageType
<1>11. /\ msg'[m].chan = c /\ msg'[m].entity = << >>
       /\ msg'[m].updateLock = l /\ msg'[m].hpc = h
       /\ msg'[m].isComplete = msg[m].isComplete
       /\ msg'[m].poolReading = msg[m].poolReading
       /\ msg'[m].msgPool = msg[m].msgPool /\ msg'[m].out = msg[m].out
  BY <1>1, <1>6 DEF MessageType
<1>12. msg' \in [Messages -> MessageType] /\ \A k \in Messages : k # m => msg'[k] = msg[k]
  BY <1>1, <1>5, <1>10 DEF TypeOK
<1>13. HandlerOK(msg'[m])
  BY <1>2, <1>8, <1>9, <1>11 DEF HandlerOK
<1>14. ContentOf(msg'[m]) = ContentOf(msg[m])
  BY <1>1, <1>4, <1>10, <1>11, DrainKeeps
<1>15. Len(msg'[m].chan) <= ChanSize
  <2>1. msg[m].chan \in Seq(Seq(Frames)) /\ Len(msg[m].chan) = 0
    BY <1>1, <1>8, PlacesType
  <2>2. Len(c) = 1
    BY <1>1, <1>4, <2>1, PlacesType, AppendProperties
  <2> QED BY <1>11, <2>2, ReceiverAssumption
<1>16. ~Fresh(m) /\ visited' \in [Cleaners -> SUBSET Messages]
  BY <1>1, <1>2, NotFresh DEF TypeOK
<1>17. /\ msg'[m].hpc # "none" /\ msg'[m].hpc # "done" /\ msg[m].hpc # "none"
       /\ msg[m].updateLock # "reader" /\ msg'[m].msgPool # "closed" /\ msg'[m].hpc # "drain"
  BY <1>2, <1>8, <1>9, <1>11
<1> QED BY <1>3, <1>11, <1>12, <1>13, <1>14, <1>15, <1>16, <1>17, QuietStep

\* It closes the channel of a complete message.
LEMMA IterCloseKeeps ==
  ASSUME ReceiverInv, NEW m \in Messages, IterClose(m)
  PROVE  ReceiverInv'
<1>1. TypeOK /\ HandlerOK(msg[m]) /\ msg[m] \in MessageType /\ visited' = visited
  BY DEF ReceiverInv, TypeOK, HandlerInv, IterClose, closing
<1>2. msg[m].hpc = "close" /\ msg[m].msgPool = "open"
  BY DEF IterClose
<1>3. UNCHANGED <<config, input, rpc, pending, closed, timer>>
  BY DEF IterClose, closing
<1>4. msg'[m] = [msg[m] EXCEPT !.msgPool = "closed", !.updateLock = "none", !.hpc = "range"]
  BY <1>1 DEF IterClose, TypeOK
<1>5. msg'[m] \in MessageType
  BY <1>1, <1>4, PlacesType DEF MessageType
<1>6. /\ msg'[m].msgPool = "closed" /\ msg'[m].updateLock = "none"
      /\ msg'[m].hpc = "range" /\ msg'[m].entity = msg[m].entity
      /\ msg'[m].isComplete = msg[m].isComplete /\ msg'[m].poolReading = msg[m].poolReading
      /\ msg'[m].chan = msg[m].chan /\ msg'[m].out = msg[m].out
  BY <1>1, <1>4 DEF MessageType
<1>7. /\ msg' \in [Messages -> MessageType]
      /\ \A k \in Messages : k # m => msg'[k] = msg[k]
  BY <1>1, <1>5 DEF IterClose, TypeOK
<1>8. msg[m].updateLock = "handler" /\ msg[m].poolReading /\ msg[m].isComplete /\ msg[m].entity = << >>
  BY <1>1, <1>2 DEF HandlerOK
<1>9. HandlerOK(msg'[m])
  BY <1>1, <1>2, <1>6, <1>8 DEF HandlerOK
<1>10. ContentOf(msg'[m]) = ContentOf(msg[m])
  BY <1>6 DEF ContentOf
<1>11. Len(msg'[m].chan) <= ChanSize
  BY <1>1, <1>6 DEF TypeOK
<1>12. ~Fresh(m) /\ visited' \in [Cleaners -> SUBSET Messages]
  BY <1>1, <1>2, NotFresh DEF TypeOK
<1> QED BY <1>2, <1>3, <1>5, <1>6, <1>7, <1>8, <1>9, <1>10, <1>11, <1>12, QuietStep

\* The handler takes a part out of the channel.
LEMMA IterReceiveKeeps ==
  ASSUME ReceiverInv, NEW m \in Messages, IterReceive(m)
  PROVE  ReceiverInv'
<1>1. TypeOK /\ HandlerOK(msg[m]) /\ msg[m] \in MessageType /\ visited' = visited
  BY DEF ReceiverInv, TypeOK, HandlerInv, IterReceive, closing
<1>2. msg[m].hpc = "range" /\ msg[m].chan # << >>
  BY DEF IterReceive
<1>3. UNCHANGED <<config, input, rpc, pending, closed, timer>>
  BY DEF IterReceive, closing
<1>4. msg'[m] = [msg[m] EXCEPT !.out = msg[m].out \o Head(msg[m].chan), !.chan = Tail(msg[m].chan)]
  BY <1>1 DEF IterReceive, TypeOK
<1>5. msg'[m] \in MessageType
  <2>1. /\ Head(msg[m].chan) \in Seq(Frames) /\ Tail(msg[m].chan) \in Seq(Seq(Frames))
        /\ msg[m].out \in Seq(Frames)
    BY <1>1, <1>2, PlacesType, HeadTailProperties
  <2>2. msg[m].out \o Head(msg[m].chan) \in Seq(Frames)
    BY <2>1, ConcatProperties
  <2> QED BY <1>1, <1>4, <2>1, <2>2 DEF MessageType
<1>6. /\ msg'[m].out = msg[m].out \o Head(msg[m].chan) /\ msg'[m].chan = Tail(msg[m].chan)
      /\ msg'[m].entity = msg[m].entity /\ msg'[m].isComplete = msg[m].isComplete
      /\ msg'[m].poolReading = msg[m].poolReading /\ msg'[m].msgPool = msg[m].msgPool
      /\ msg'[m].updateLock = msg[m].updateLock /\ msg'[m].hpc = msg[m].hpc
  BY <1>1, <1>4 DEF MessageType
<1>7. /\ msg' \in [Messages -> MessageType]
      /\ \A k \in Messages : k # m => msg'[k] = msg[k]
  BY <1>1, <1>5 DEF IterReceive, TypeOK
<1>8. msg[m].poolReading /\ msg[m].entity = << >>
  BY <1>1, <1>2 DEF HandlerOK
<1>9. HandlerOK(msg'[m])
  BY <1>1, <1>2, <1>6, <1>8 DEF HandlerOK
<1>10. ContentOf(msg'[m]) = ContentOf(msg[m])
  BY <1>1, <1>2, <1>5, <1>6, ReceiveKeeps
<1>11. Len(msg'[m].chan) <= ChanSize
  <2>1. Len(msg'[m].chan) = Len(msg[m].chan) - 1 /\ Len(msg[m].chan) \in Nat
    BY <1>1, <1>2, <1>6, PlacesType, HeadTailProperties, PartsFacts
  <2>2. Len(msg[m].chan) <= ChanSize
    BY <1>1 DEF TypeOK
  <2> QED BY <2>1, <2>2, ReceiverAssumption
<1>12. ~Fresh(m) /\ visited' \in [Cleaners -> SUBSET Messages]
  BY <1>1, <1>2, NotFresh DEF TypeOK
<1> QED BY <1>2, <1>3, <1>5, <1>6, <1>7, <1>8, <1>9, <1>10, <1>11, <1>12, QuietStep

\* The channel is empty and closed.
LEMMA IterEndKeeps ==
  ASSUME ReceiverInv, NEW m \in Messages, IterEnd(m)
  PROVE  ReceiverInv'
<1>1. TypeOK /\ HandlerOK(msg[m]) /\ msg[m] \in MessageType /\ visited' = visited
  BY DEF ReceiverInv, TypeOK, HandlerInv, IterEnd, closing
<1>2. msg[m].hpc = "range" /\ msg[m].chan = << >> /\ msg[m].msgPool = "closed"
  BY DEF IterEnd
<1>3. UNCHANGED <<config, input, rpc, pending, closed, timer>>
  BY DEF IterEnd, closing
<1>4. msg'[m] = [msg[m] EXCEPT !.hpc = "done"]
  BY <1>1 DEF IterEnd, TypeOK
<1>5. msg'[m] \in MessageType
  BY <1>1, <1>4, PlacesType DEF MessageType
<1>6. /\ msg'[m].hpc = "done" /\ msg'[m].entity = msg[m].entity
      /\ msg'[m].isComplete = msg[m].isComplete /\ msg'[m].poolReading = msg[m].poolReading
      /\ msg'[m].msgPool = msg[m].msgPool /\ msg'[m].chan = msg[m].chan
      /\ msg'[m].updateLock = msg[m].updateLock /\ msg'[m].out = msg[m].out
  BY <1>1, <1>4 DEF MessageType
<1>7. /\ msg' \in [Messages -> MessageType]
      /\ \A k \in Messages : k # m => msg'[k] = msg[k]
  BY <1>1, <1>5 DEF IterEnd, TypeOK
<1>8. msg[m].poolReading /\ msg[m].entity = << >>
  BY <1>1, <1>2 DEF HandlerOK
<1>9. HandlerOK(msg'[m])
  BY <1>1, <1>2, <1>6, <1>8 DEF HandlerOK
<1>10. ContentOf(msg'[m]) = ContentOf(msg[m])
  BY <1>6 DEF ContentOf
<1>11. Len(msg'[m].chan) <= ChanSize
  BY <1>1, <1>6 DEF TypeOK
<1>12. ~Fresh(m) /\ visited' \in [Cleaners -> SUBSET Messages]
  BY <1>1, <1>2, NotFresh DEF TypeOK
<1> QED BY <1>2, <1>3, <1>5, <1>6, <1>7, <1>8, <1>9, <1>10, <1>11, <1>12, QuietStep

-----------------------------------------------------------------------------
(* cleanClose and the timer. *)

\* One round of cleanClose.
LEMMA CleanMessageKeeps ==
  ASSUME ReceiverInv, NEW k \in Cleaners, NEW m \in Messages, CleanMessage(k, m)
  PROVE  ReceiverInv'
<1>1. TypeOK /\ HandlerOK(msg[m]) /\ msg[m] \in MessageType /\ closed
  BY DEF ReceiverInv, TypeOK, HandlerInv, CleanInv, CleanMessage, Cleaning
<1>2. UNCHANGED <<config, input, rpc, pending, closed, timer>>
  BY DEF CleanMessage
<1>3. visited' \in [Cleaners -> SUBSET Messages]
  BY <1>1 DEF CleanMessage, TypeOK
<1>4. PICK s \in StreamIds \cup {0} : pending[s] = m
  BY DEF CleanMessage, ToVisit, Streams
<1>5. pending[s] # 0 /\ ~Fresh(m)
  <2>1. pending[s] # 0
    BY <1>4 DEF CleanMessage, ToVisit
  <2> QED BY <1>4, <2>1, PendingFacts
<1>6. CASE ~MustClose(m)
  <2>1. msg' = msg
    BY <1>6 DEF CleanMessage
  <2> QED BY <1>1, <1>2, <1>3, <1>5, <2>1, QuietStep DEF TypeOK
<1>7. CASE MustClose(m)
  <2>1. msg' = [msg EXCEPT ![m].msgPool = "closed"]
    BY <1>7 DEF CleanMessage
  <2>2. msg[m].poolReading /\ ~msg[m].isComplete /\ msg[m].msgPool = "open"
    BY <1>7 DEF CleanMessage, MustClose
  <2>3. msg'[m] = [msg[m] EXCEPT !.msgPool = "closed"]
    BY <1>1, <2>1 DEF TypeOK
  <2>4. msg'[m] \in MessageType
    BY <1>1, <2>3 DEF MessageType
  <2>5. /\ msg'[m].entity = msg[m].entity /\ msg'[m].chan = msg[m].chan
        /\ msg'[m].out = msg[m].out /\ msg'[m].hpc = msg[m].hpc
        /\ msg'[m].isComplete = msg[m].isComplete
        /\ msg'[m].poolReading = msg[m].poolReading
        /\ msg'[m].updateLock = msg[m].updateLock /\ msg'[m].msgPool = "closed"
    BY <1>1, <2>3 DEF MessageType
  <2>6. msg' \in [Messages -> MessageType] /\ \A j \in Messages : j # m => msg'[j] = msg[j]
    BY <1>1, <2>1, <2>4 DEF TypeOK
  <2>7. HandlerOK(msg'[m])
    BY <1>1, <2>2, <2>5 DEF HandlerOK
  <2>8. ContentOf(msg'[m]) = ContentOf(msg[m])
    BY <2>5 DEF ContentOf
  <2>9. Len(msg'[m].chan) <= ChanSize
    BY <1>1, <2>5 DEF TypeOK
  <2> QED BY <1>1, <1>2, <1>3, <1>5, <2>5, <2>6, <2>7, <2>8, <2>9, QuietStep
<1> QED BY <1>6, <1>7

\* A step that touches neither the messages nor the table nor the frames, and
\* leaves the read loop at most: Close, the timer, the ends of the two loops.
LEMMA OutsideStep ==
  ASSUME ReceiverInv, UNCHANGED <<config, input, pending, msg, visited>>,
         rpc' = rpc \/ (rpc \in {"read", "clean"} /\ rpc' \in {"clean", "returned"}),
         timer' \in {"off", "sleeping", "closing", "clean", "over"},
         closed' \in BOOLEAN, closed => closed',
         (rpc' \in {"clean", "returned"} \/ timer' = "clean") => closed'
  PROVE  ReceiverInv'
<1>1. TypeOK'
  BY DEF ReceiverInv, TypeOK, config, input
<1>2. HandlerInv'
  BY DEF ReceiverInv, HandlerInv
<1>3. EndInv'
  <2> SUFFICES ASSUME NEW k \in Messages, LooksEnded(k)'
               PROVE  Closes(ContentOf(msg'[k]))
    BY DEF EndInv
  <2>1. LooksEnded(k)
    BY DEF LooksEnded, config
  <2> QED BY <2>1 DEF ReceiverInv, EndInv
<1>4. LockInv'
  BY DEF ReceiverInv, LockInv, Current, input
<1>5. HandInv'
  BY DEF ReceiverInv, HandInv, Merging, Ending, input, Current
<1>6. StreamInv'
  <2> SUFFICES ASSUME NEW s \in StreamIds \cup {0} PROVE StreamOK(s)'
    BY DEF StreamInv
  <2>1. StreamOK(s)
    BY DEF ReceiverInv, StreamInv
  <2>2. Busy(s)' <=> Busy(s)
    BY DEF Busy, input, Merging, Ending
  <2> QED BY <2>1, <2>2 DEF StreamOK, config, input
<1>7. FreshInv'
  BY DEF ReceiverInv, FreshInv, Fresh, input
<1>8. WholeInv'
  BY DEF ReceiverInv, WholeInv
<1>9. CleanInv' /\ DrainInv'
  BY DEF ReceiverInv, CleanInv, DrainInv
<1> QED BY <1>1, <1>2, <1>3, <1>4, <1>5, <1>6, <1>7, <1>8, <1>9 DEF ReceiverInv

\* These steps.
LEMMA OutsideKeeps ==
  ASSUME ReceiverInv,
         LeaveLoop \/ Close \/ TimerCheck \/ TimerClose \/ \E k \in Cleaners : CleanDone(k)
  PROVE  ReceiverInv'
<1>1. TypeOK /\ CleanInv
  BY DEF ReceiverInv
<1>2. CASE LeaveLoop
  BY <1>1, <1>2, OutsideStep DEF LeaveLoop, TypeOK
<1>3. CASE Close
  BY <1>1, <1>3, OutsideStep DEF Close, TypeOK, CleanInv
<1>4. CASE TimerCheck
  BY <1>1, <1>4, OutsideStep DEF TimerCheck, TypeOK, CleanInv
<1>5. CASE TimerClose
  BY <1>1, <1>5, OutsideStep DEF TimerClose, TypeOK
<1>6. ASSUME NEW k \in Cleaners, CleanDone(k)
      PROVE  ReceiverInv'
  BY <1>1, <1>6, OutsideStep DEF CleanDone, Cleaning, Cleaners, TypeOK, CleanInv
<1> QED BY <1>2, <1>3, <1>4, <1>5, <1>6

-----------------------------------------------------------------------------
(* The reader. *)

\* The next frame of a stream.
LEMMA ReadFrameKeeps ==
  ASSUME ReceiverInv, NEW s \in StreamIds \cup {0}, NEW t \in Tags, ReadFrame(s, t)
  PROVE  ReceiverInv'
<1>1. TypeOK /\ HandInv /\ StreamOK(s) /\ FreshInv
  BY DEF ReceiverInv, StreamInv
<1>2. /\ rpc = "read" /\ nframes < MaxFrames /\ peer[s].tag # "cancel"
      /\ frame' = NextFrame(s, t) /\ peer' = [peer EXCEPT ![s] = frame']
      /\ nframes' = nframes + 1
      /\ rpc' = IF pending[s] # 0 /\ t # "cancel" THEN "merge" ELSE "demux"
      /\ UNCHANGED <<config, pending, msg, closing>>
  BY DEF ReadFrame
<1>3. PICK p \in Frames : p = peer[s]
  BY <1>1 DEF TypeOK
<1>4. PICK f \in Frames : /\ f = frame' /\ f.stream = s /\ f.tag = t
                          /\ p.tag = "fin" => f.msg = p.msg + 1 /\ f.part = 1
                          /\ p.tag # "fin" => f.msg = p.msg /\ f.part = p.part + 1
  <2>1. p.msg \in Nat /\ p.part \in Nat
    BY DEF Frames
  <2>2. CASE p.tag = "fin"
    <3>1. frame' = [stream |-> s, msg |-> p.msg + 1, part |-> 1, tag |-> t]
      BY <1>2, <1>3, <2>2 DEF NextFrame
    <3>2. frame' \in Frames
      BY <2>1, <3>1 DEF Frames
    <3> QED BY <2>2, <3>1, <3>2
  <2>3. CASE p.tag # "fin"
    <3>1. frame' = [stream |-> s, msg |-> p.msg, part |-> p.part + 1, tag |-> t]
      BY <1>2, <1>3, <2>3 DEF NextFrame
    <3>2. frame' \in Frames
      BY <2>1, <3>1 DEF Frames
    <3> QED BY <2>3, <3>1, <3>2
  <2> QED BY <2>2, <2>3
<1>5. /\ peer' \in [StreamIds \cup {0} -> Frames] /\ peer'[s] = f
      /\ \A r \in StreamIds \cup {0} : r # s => peer'[r] = peer[r]
  BY <1>1, <1>2, <1>4 DEF TypeOK
<1>6. ~Busy(s) /\ \A r \in StreamIds \cup {0} : ~Busy(r)
  BY <1>2 DEF Busy, Merging, Ending
<1>7. TypeOK'
  <2>1. nframes' \in 0 .. MaxFrames
    BY <1>1, <1>2, ReceiverAssumption DEF TypeOK
  <2> QED BY <1>1, <1>2, <1>4, <1>5, <2>1 DEF TypeOK, config, closing
<1>8. HandlerInv' /\ WholeInv'
  BY <1>2 DEF ReceiverInv, HandlerInv, WholeInv
<1>9. EndInv'
  <2> SUFFICES ASSUME NEW k \in Messages, LooksEnded(k)'
               PROVE  Closes(ContentOf(msg'[k]))
    BY DEF EndInv
  <2>1. LooksEnded(k)
    BY <1>2 DEF LooksEnded, config, closing
  <2> QED BY <1>2, <2>1 DEF ReceiverInv, EndInv
<1>10. LockInv'
  BY <1>2 DEF LockInv
<1>11. HandInv'
  <2>1. Current' = pending[s]
    BY <1>2, <1>4 DEF Current
  <2>2. CASE pending[s] # 0 /\ t # "cancel"
    <3>1. rpc' = "merge"
      BY <1>2, <2>2
    <3>2. Last(ContentOf(msg[pending[s]])) = p /\ p.tag # "fin"
      BY <1>1, <1>3, <1>6, <2>2 DEF StreamOK
    <3>3. p.tag = "more"
      BY <1>2, <1>3, <3>2 DEF Frames, Tags
    <3> QED BY <1>2, <1>4, <1>5, <2>1, <2>2, <3>1, <3>2, <3>3 DEF HandInv, Merging, Ending
  <2>3. CASE ~(pending[s] # 0 /\ t # "cancel")
    <3>1. rpc' = "demux" /\ nframes' # 0
      BY <1>1, <1>2, <2>3 DEF TypeOK
    <3>2. t # "cancel" => pending[s] = 0 /\ f.part = 1
      <4>1. ASSUME pending[s] = 0 PROVE p.tag = "fin" \/ p.part = 0
        BY <1>1, <1>3, <1>6, <4>1 DEF StreamOK
      <4> QED BY <1>4, <2>3, <4>1
    <3> QED BY <1>2, <1>4, <1>5, <2>1, <3>1, <3>2 DEF HandInv, Merging, Ending
  <2> QED BY <2>2, <2>3
<1>12. StreamInv'
  <2> SUFFICES ASSUME NEW r \in StreamIds \cup {0} PROVE StreamOK(r)'
    BY DEF StreamInv
  <2>1. StreamOK(r)
    BY DEF ReceiverInv, StreamInv
  <2>2. CASE r = s
    <3>1. Busy(s)'
      BY <1>2, <1>4 DEF Busy, Merging
    <3> QED BY <1>2, <2>1, <2>2, <3>1 DEF StreamOK, config
  <2>3. CASE r # s
    BY <1>2, <1>5, <1>6, <2>1, <2>3 DEF StreamOK, config
  <2> QED BY <2>2, <2>3
<1>13. FreshInv'
  <2>1. \A m \in Messages : Fresh(m)' => Fresh(m)
    BY <1>1, <1>2 DEF Fresh, TypeOK, Messages
  <2> QED BY <1>1, <1>2, <2>1 DEF FreshInv
<1>14. CleanInv' /\ DrainInv'
  BY <1>2 DEF ReceiverInv, CleanInv, DrainInv, closing
<1> QED BY <1>7, <1>8, <1>9, <1>10, <1>11, <1>12, <1>13, <1>14 DEF ReceiverInv

\* A frame that starts a message of its own.
LEMMA NewMessageKeeps ==
  ASSUME ReceiverInv, NewMessage
  PROVE  ReceiverInv'
<1>1. TypeOK /\ HandInv /\ FreshInv /\ StreamInv
  BY DEF ReceiverInv
<1>2. PICK f \in Frames, n \in Nat : f = frame /\ n = nframes
  BY <1>1 DEF TypeOK
<1>3. n \in Messages /\ f.stream \in StreamIds \cup {0}
      /\ (f.tag # "cancel" => f.part = 1 /\ pending[f.stream] = 0) /\ peer[f.stream] = f
  BY <1>1, <1>2, ReceiverAssumption DEF NewMessage, HandInv, TypeOK, Messages, Frames
<1>4. Fresh(n) /\ msg[n] = NoMessage /\ ContentOf(msg[n]) = << >>
  <2>1. Fresh(n)
    BY <1>2 DEF NewMessage, Fresh
  <2> QED BY <1>1, <1>3, <2>1, NothingYet DEF FreshInv
<1>5. PICK b, h : b = (f.tag = "fin") /\ h = IF b \/ triggerOnStart THEN "spawned" ELSE "none"
  OBVIOUS
<1>6. b \in BOOLEAN /\ h \in {"none", "spawned"}
  BY <1>5
<1>7. /\ msg' = [msg EXCEPT ![n].entity = <<f>>, ![n].isComplete = b, ![n].hpc = h]
      /\ pending' = IF b THEN pending ELSE [pending EXCEPT ![f.stream] = n]
      /\ rpc' = "read" /\ rpc = "demux"
      /\ UNCHANGED <<config, input, closing>>
  BY <1>2, <1>5 DEF NewMessage
<1>8. msg'[n] = [NoMessage EXCEPT !.entity = <<f>>, !.isComplete = b, !.hpc = h]
  BY <1>1, <1>3, <1>4, <1>7 DEF TypeOK
<1>9. /\ msg'[n].out = << >> /\ msg'[n].chan = << >> /\ msg'[n].entity = <<f>>
      /\ msg'[n].isComplete = b /\ msg'[n].hpc = h /\ ~msg'[n].poolReading
      /\ msg'[n].msgPool = "nil" /\ msg'[n].updateLock = "none"
  BY <1>8 DEF NoMessage
<1>10. msg'[n] \in MessageType
  <2>1. <<f>> \in Seq(Frames)
    OBVIOUS
  <2> QED BY <1>6, <1>8, <2>1, NothingYet DEF NoMessage, MessageType
<1>11. msg' \in [Messages -> MessageType] /\ \A m \in Messages : m # n => msg'[m] = msg[m]
  BY <1>1, <1>3, <1>7, <1>10 DEF TypeOK
<1>12. ContentOf(msg'[n]) = <<f>> /\ Whole(<<f>>) /\ Last(<<f>>) = f
       /\ <<f>> # << >> /\ <<f>>[1] = f
  <2>1. ContentOf(msg'[n]) = <<f>>
    BY <1>9, <1>10, NothingYet
  <2>2. Whole(<<f>>) /\ Last(<<f>>) = f
    BY <1>3, WholeStarts
  <2>3. <<f>> # << >> /\ <<f>>[1] = f
    OBVIOUS
  <2> QED BY <2>1, <2>2, <2>3
<1>13. /\ pending' \in [StreamIds \cup {0} -> 0 .. MaxFrames]
       /\ \A s \in StreamIds \cup {0} : s # f.stream => pending'[s] = pending[s]
       /\ b => pending'[f.stream] = 0
       /\ ~b => pending'[f.stream] = n
  <2>1. n \in 0 .. MaxFrames
    BY <1>3, ReceiverAssumption DEF Messages
  <2> QED BY <1>1, <1>3, <1>5, <1>7, <2>1 DEF TypeOK
<1>14. \A s \in StreamIds \cup {0} : pending[s] # 0 => pending[s] \in Messages /\ pending[s] # n
  BY <1>4, PendingFacts
<1>15. TypeOK'
  <2>1. Len(msg'[n].chan) <= ChanSize
    BY <1>9, ReceiverAssumption
  <2>2. \A m \in Messages : Len(msg'[m].chan) <= ChanSize
    BY <1>1, <1>11, <2>1 DEF TypeOK
  <2> QED BY <1>1, <1>7, <1>11, <1>13, <2>2 DEF TypeOK, config, input, closing
<1>16. HandlerInv'
  <2>1. HandlerOK(msg'[n])
    BY <1>6, <1>9 DEF HandlerOK
  <2> QED BY <1>11, <2>1 DEF ReceiverInv, HandlerInv
<1>17. EndInv'
  <2> SUFFICES ASSUME NEW k \in Messages, LooksEnded(k)'
               PROVE  Closes(ContentOf(msg'[k]))
    BY DEF EndInv
  <2>1. CASE k = n
    <3>1. b
      BY <1>5, <1>6, <1>7, <1>9, <2>1 DEF LooksEnded, config
    <3> QED BY <1>5, <1>12, <2>1, <3>1 DEF Closes
  <2>2. CASE k # n
    <3>1. LooksEnded(k) /\ msg'[k] = msg[k]
      BY <1>7, <1>11, <2>2 DEF LooksEnded, config, closing
    <3> QED BY <3>1 DEF ReceiverInv, EndInv
  <2> QED BY <2>1, <2>2
<1>18. LockInv' /\ CleanInv'
  BY <1>7 DEF LockInv, ReceiverInv, CleanInv, closing
<1>19. HandInv'
  BY <1>1, <1>7 DEF HandInv, Merging, Ending, input
<1>20. StreamInv'
  <2> SUFFICES ASSUME NEW s \in StreamIds \cup {0} PROVE StreamOK(s)'
    BY DEF StreamInv
  <2>1. StreamOK(s) /\ peer' = peer /\ ~Busy(s)'
    BY <1>1, <1>7 DEF StreamInv, Busy, Merging, Ending, input
  <2>2. CASE s = f.stream
    <3>1. CASE b
      BY <1>3, <1>5, <1>13, <2>1, <2>2, <3>1 DEF StreamOK
    <3>2. CASE ~b
      <4>1. pending'[s] = n /\ n # 0
        BY <1>3, <1>13, <2>2, <3>2 DEF Messages
      <4>2. ~triggerOnStart' => msg'[n].hpc = "none"
        BY <1>5, <1>7, <1>9, <3>2 DEF config
      <4> QED BY <1>3, <1>5, <1>12, <2>1, <2>2, <3>2, <4>1, <4>2 DEF StreamOK
    <3> QED BY <3>1, <3>2
  <2>3. CASE s # f.stream
    <3>1. pending'[s] = pending[s] /\ ~Busy(s)
      BY <1>2, <1>13, <2>3 DEF Busy
    <3>2. pending[s] # 0 => msg'[pending[s]] = msg[pending[s]]
      BY <1>11, <1>14
    <3> QED BY <1>7, <2>1, <3>1, <3>2 DEF StreamOK, config
  <2> QED BY <2>2, <2>3
<1>21. FreshInv'
  <2> SUFFICES ASSUME NEW m \in Messages, Fresh(m)' PROVE msg'[m] = NoMessage
    BY DEF FreshInv
  <2>1. m > n
    BY <1>2, <1>7 DEF Fresh, input
  <2>2. Fresh(m) /\ m # n
    BY <1>2, <2>1 DEF Fresh, Messages
  <2> QED BY <1>1, <1>11, <2>2 DEF FreshInv
<1>22. WholeInv' /\ DrainInv'
  BY <1>6, <1>7, <1>9, <1>11, <1>12 DEF ReceiverInv, WholeInv, DrainInv, closing
<1> QED BY <1>15, <1>16, <1>17, <1>18, <1>19, <1>20, <1>21, <1>22 DEF ReceiverInv

(***************************************************************************)
(* merge gives the pending message its next frame, wherever it puts it.    *)
(***************************************************************************)
LEMMA MergeStep ==
  ASSUME ReceiverInv, rpc \in Merging, NEW m \in Messages, m = Current,
         UNCHANGED <<config, input, pending, closing>>,
         rpc' \in {"read", "close", "settle"}, rpc' = "read" <=> frame.tag # "fin",
         msg' \in [Messages -> MessageType],
         \A k \in Messages : k # m => msg'[k] = msg[k],
         Len(msg'[m].chan) <= ChanSize,
         HandlerOK(msg'[m]),
         ContentOf(msg'[m]) = Append(ContentOf(msg[m]), frame),
         msg'[m].isComplete => frame.tag = "fin" \/ msg[m].isComplete,
         msg'[m].hpc = msg[m].hpc, msg'[m].poolReading = msg[m].poolReading,
         msg'[m].msgPool = msg[m].msgPool,
         rpc' = "close" => /\ msg'[m].updateLock = "reader" /\ msg'[m].poolReading
                           /\ msg'[m].msgPool = "open"
  PROVE  ReceiverInv'
<1>1. TypeOK /\ HandInv /\ StreamInv /\ FreshInv
  BY DEF ReceiverInv
<1>2. PICK f \in Frames : f = frame /\ f = peer[f.stream] /\ f.stream \in StreamIds \cup {0}
  BY <1>1, CurrentFacts DEF HandInv
<1>3. m # 0 /\ ~Fresh(m) /\ m = pending[f.stream]
      /\ \A s \in StreamIds \cup {0} : s # f.stream => pending[s] # m
  <2>1. Current # 0
    BY <1>1 DEF HandInv
  <2> QED BY <1>2, <2>1, CurrentFacts DEF Current
<1>4. PICK c \in Seq(Frames) :
        c = ContentOf(msg[m]) /\ c # << >> /\ c[1].stream = f.stream /\ Whole(c)
  <2>1. ContentOf(msg[m]) \in Seq(Frames) /\ ContentOf(msg[m]) # << >>
        /\ ContentOf(msg[m])[1].stream = f.stream
    BY <1>2, <1>3, CurrentFacts
  <2> QED BY <2>1 DEF ReceiverInv, WholeInv
<1>5. /\ Last(c).tag = "more" /\ f.tag # "cancel"
      /\ f.msg = Last(c).msg /\ f.part = Last(c).part + 1
  BY <1>1, <1>2, <1>4 DEF HandInv
<1>6. PICK d \in Seq(Frames) : d = Append(c, f)
  BY AppendProperties
<1>7. ContentOf(msg'[m]) = d /\ d # << >> /\ d[1].stream = f.stream /\ Last(d) = f /\ Whole(d)
  <2>1. d # << >> /\ d[1] = c[1]
    BY <1>4, <1>6, OneMore
  <2>2. Last(d) = f
    BY <1>6, LastOfAppend
  <2>3. Whole(d)
    BY <1>4, <1>5, <1>6, WholeGrows
  <2> QED BY <1>2, <1>4, <1>6, <2>1, <2>2, <2>3
<1>8. TypeOK'
  <2>1. \A k \in Messages : Len(msg'[k].chan) <= ChanSize
    BY <1>1 DEF TypeOK
  <2> QED BY <1>1, <2>1 DEF TypeOK, config, input, closing
<1>9. HandlerInv'
  BY DEF ReceiverInv, HandlerInv
<1>10. EndInv'
  <2> SUFFICES ASSUME NEW k \in Messages, LooksEnded(k)'
               PROVE  Closes(ContentOf(msg'[k]))
    BY DEF EndInv
  <2>1. CASE k = m
    <3>1. ~LooksEnded(m)
      BY <1>4, <1>5 DEF ReceiverInv, EndInv, Closes
    <3>2. f.tag = "fin"
      BY <1>2, <2>1, <3>1 DEF LooksEnded, config, closing
    <3> QED BY <1>7, <2>1, <3>2 DEF Closes
  <2>2. CASE k # m
    <3>1. LooksEnded(k) /\ msg'[k] = msg[k]
      BY <2>2 DEF LooksEnded, config, closing
    <3> QED BY <3>1 DEF ReceiverInv, EndInv
  <2> QED BY <2>1, <2>2
<1>11. LockInv'
  BY <1>3 DEF LockInv, Current, input
<1>12. HandInv'
  <2>1. Current' = m /\ frame' = f /\ peer' = peer
    BY <1>2 DEF Current, input
  <2> QED BY <1>2, <1>3, <1>7, <2>1 DEF HandInv, Merging, Ending
<1>13. StreamInv'
  <2> SUFFICES ASSUME NEW s \in StreamIds \cup {0} PROVE StreamOK(s)'
    BY DEF StreamInv
  <2>1. StreamOK(s) /\ peer' = peer /\ pending' = pending
    BY <1>1 DEF StreamInv, input
  <2>2. CASE s = f.stream
    <3>1. ~Busy(s)' => f.tag # "fin"
      BY <1>2, <2>2 DEF Busy, Ending, input
    <3>2. ~triggerOnStart' => msg'[m].hpc = "none"
      BY <1>3, <2>1, <2>2 DEF StreamOK, config
    <3> QED BY <1>2, <1>3, <1>7, <2>1, <2>2, <3>1, <3>2 DEF StreamOK
  <2>3. CASE s # f.stream
    <3>1. ~Busy(s) /\ ~Busy(s)'
      BY <1>2, <2>3 DEF Busy, input
    <3>2. pending[s] # 0 => msg'[pending[s]] = msg[pending[s]]
      BY <1>3, <2>3, PendingFacts
    <3> QED BY <2>1, <3>1, <3>2 DEF StreamOK, config
  <2> QED BY <2>2, <2>3
<1>14. FreshInv'
  <2> SUFFICES ASSUME NEW k \in Messages, Fresh(k)' PROVE msg'[k] = NoMessage
    BY DEF FreshInv
  <2>1. Fresh(k)
    BY DEF Fresh, input
  <2> QED BY <1>1, <1>3, <2>1 DEF FreshInv
<1>15. WholeInv'
  BY <1>7 DEF ReceiverInv, WholeInv
<1>16. CleanInv' /\ DrainInv'
  BY DEF ReceiverInv, CleanInv, DrainInv, closing
<1> QED BY <1>8, <1>9, <1>10, <1>11, <1>12, <1>13, <1>14, <1>15, <1>16 DEF ReceiverInv

\* merge moves on with the frame it has in hand: it takes the lock or closes the
\* channel.
LEMMA BusyStep ==
  ASSUME ReceiverInv, NEW m \in Messages, m = Current,
         (rpc = "merge" /\ rpc' = "send") \/ (rpc = "close" /\ rpc' = "settle"),
         UNCHANGED <<config, input, pending, closing>>,
         msg' \in [Messages -> MessageType],
         \A k \in Messages : k # m => msg'[k] = msg[k],
         Len(msg'[m].chan) <= ChanSize,
         HandlerOK(msg'[m]),
         ContentOf(msg'[m]) = ContentOf(msg[m]),
         msg'[m].isComplete = msg[m].isComplete,
         msg'[m].hpc = msg[m].hpc, msg'[m].poolReading = msg[m].poolReading,
         msg[m].hpc # "drain",
         msg'[m].msgPool = "closed" => msg[m].msgPool = "closed" \/ rpc = "close",
         rpc' = "send" => msg'[m].updateLock = "reader" /\ msg'[m].poolReading
  PROVE  ReceiverInv'
<1>1. TypeOK /\ HandInv /\ StreamInv /\ FreshInv
  BY DEF ReceiverInv
<1>2. \A k \in Messages : ContentOf(msg'[k]) = ContentOf(msg[k])
  OBVIOUS
<1>3. m # 0 /\ ~Fresh(m) /\ Current' = m /\ ContentOf(msg[m]) # << >>
  <2>1. Current # 0
    BY <1>1 DEF HandInv, Merging, Ending
  <2> QED BY <2>1, CurrentFacts DEF Current, input
<1>4. TypeOK'
  <2>1. \A k \in Messages : Len(msg'[k].chan) <= ChanSize
    BY <1>1 DEF TypeOK
  <2> QED BY <1>1, <2>1 DEF TypeOK, config, input, closing
<1>5. HandlerInv'
  BY DEF ReceiverInv, HandlerInv
<1>6. EndInv'
  <2> SUFFICES ASSUME NEW k \in Messages, LooksEnded(k)'
               PROVE  Closes(ContentOf(msg'[k]))
    BY DEF EndInv
  <2>1. CASE k = m /\ rpc = "close"
    BY <1>1, <1>2, <1>3, <2>1 DEF HandInv, Ending, Closes
  <2>2. CASE ~(k = m /\ rpc = "close")
    <3>1. LooksEnded(k)
      BY <2>2 DEF LooksEnded, config, closing
    <3> QED BY <1>2, <3>1 DEF ReceiverInv, EndInv
  <2> QED BY <2>1, <2>2
<1>7. LockInv'
  BY <1>3 DEF LockInv
<1>8. HandInv'
  BY <1>1, <1>2, <1>3 DEF HandInv, Merging, Ending, input
<1>9. StreamInv'
  <2> SUFFICES ASSUME NEW s \in StreamIds \cup {0} PROVE StreamOK(s)'
    BY DEF StreamInv
  <2>1. StreamOK(s) /\ peer' = peer /\ pending' = pending
    BY <1>1 DEF StreamInv, input
  <2>2. Busy(s)' <=> Busy(s)
    BY DEF Busy, Merging, Ending, input
  <2>3. pending[s] # 0 => /\ ContentOf(msg'[pending[s]]) = ContentOf(msg[pending[s]])
                          /\ msg'[pending[s]].hpc = msg[pending[s]].hpc
    BY <1>2, PendingFacts
  <2> QED BY <2>1, <2>2, <2>3 DEF StreamOK, config
<1>10. FreshInv'
  <2> SUFFICES ASSUME NEW k \in Messages, Fresh(k)' PROVE msg'[k] = NoMessage
    BY DEF FreshInv
  <2>1. Fresh(k)
    BY DEF Fresh, input
  <2> QED BY <1>1, <1>3, <2>1 DEF FreshInv
<1>11. WholeInv'
  BY <1>2 DEF ReceiverInv, WholeInv
<1>12. CleanInv' /\ DrainInv'
  BY DEF ReceiverInv, CleanInv, DrainInv, closing
<1> QED BY <1>4, <1>5, <1>6, <1>7, <1>8, <1>9, <1>10, <1>11, <1>12 DEF ReceiverInv

\* What merge has in hand.
LEMMA MergeFacts ==
  ASSUME ReceiverInv, NEW m, m = Current, rpc \in Merging \cup Ending
  PROVE  /\ TypeOK /\ m \in Messages /\ msg[m] \in MessageType /\ HandlerOK(msg[m])
         /\ frame \in Frames
         /\ rpc \in Merging => ~LooksEnded(m)
         /\ ~triggerOnStart => msg[m].hpc = "none"
<1>1. Current # 0
  BY DEF ReceiverInv, HandInv
<1>2. m \in Messages /\ frame \in Frames /\ frame.stream \in StreamIds \cup {0}
  BY <1>1, CurrentFacts
<1>3. TypeOK /\ msg[m] \in MessageType /\ HandlerOK(msg[m])
  BY <1>2 DEF ReceiverInv, TypeOK, HandlerInv
<1>4. rpc \in Merging => ~LooksEnded(m)
  BY <1>2 DEF ReceiverInv, HandInv, EndInv, Closes
<1>5. ~triggerOnStart => msg[m].hpc = "none"
  <2>1. StreamOK(frame.stream)
    BY <1>2 DEF ReceiverInv, StreamInv
  <2> QED BY <1>1, <2>1 DEF StreamOK, Current
<1> QED BY <1>2, <1>3, <1>4, <1>5

\* merge into the buffer.
LEMMA MergeEntityKeeps ==
  ASSUME ReceiverInv, NEW m, m = Current, MergeEntity(m)
  PROVE  ReceiverInv'
<1>1. /\ rpc = "merge" /\ ~msg[m].poolReading
      /\ UNCHANGED <<config, input, pending, closing>>
      /\ rpc' = IF frame.tag = "fin" THEN "settle" ELSE "read"
  BY DEF MergeEntity, MayMerge
<1>2. /\ TypeOK /\ m \in Messages /\ msg[m] \in MessageType /\ HandlerOK(msg[m])
      /\ frame \in Frames /\ ~LooksEnded(m)
  BY <1>1, MergeFacts DEF Merging
<1>3. PICK b, e : b = (frame.tag = "fin") /\ e = Append(msg[m].entity, frame)
  OBVIOUS
<1>4. msg' = [msg EXCEPT ![m].entity = e, ![m].isComplete = b]
  BY <1>2, <1>3 DEF MergeEntity, TypeOK
<1>5. msg'[m] = [msg[m] EXCEPT !.entity = e, !.isComplete = b]
  BY <1>2, <1>4 DEF TypeOK
<1>6. b \in BOOLEAN /\ e \in Seq(Frames)
  BY <1>2, <1>3, PlacesType, AppendProperties
<1>7. msg'[m] \in MessageType
  BY <1>2, <1>5, <1>6 DEF MessageType
<1>8. /\ msg'[m].entity = e /\ msg'[m].isComplete = b
      /\ msg'[m].chan = msg[m].chan /\ msg'[m].out = msg[m].out
      /\ msg'[m].hpc = msg[m].hpc /\ msg'[m].poolReading = msg[m].poolReading
      /\ msg'[m].msgPool = msg[m].msgPool /\ msg'[m].updateLock = msg[m].updateLock
  BY <1>2, <1>5 DEF MessageType
<1>9. msg' \in [Messages -> MessageType] /\ \A k \in Messages : k # m => msg'[k] = msg[k]
  BY <1>2, <1>4, <1>7 DEF TypeOK
<1>10. msg[m].hpc \in {"none", "spawned"}
  BY <1>1, <1>2 DEF HandlerOK, LooksEnded, MessageType
<1>11. HandlerOK(msg'[m])
  BY <1>2, <1>8, <1>10 DEF HandlerOK
<1>12. ContentOf(msg'[m]) = Append(ContentOf(msg[m]), frame)
  BY <1>2, <1>3, <1>7, <1>8, EntityGrows
<1>13. Len(msg'[m].chan) <= ChanSize
  BY <1>2, <1>8 DEF TypeOK
<1>14. rpc \in Merging
  BY <1>1 DEF Merging
<1> QED BY <1>1, <1>2, <1>3, <1>8, <1>9, <1>11, <1>12, <1>13, <1>14, MergeStep

\* merge into the channel.
LEMMA MergeSendKeeps ==
  ASSUME ReceiverInv, NEW m, m = Current, MergeSend(m)
  PROVE  ReceiverInv'
<1>1. /\ rpc = "send" /\ msg[m].msgPool = "open" /\ Len(msg[m].chan) < ChanSize
      /\ UNCHANGED <<config, input, pending, closing>>
      /\ rpc' = IF frame.tag = "fin" THEN "close" ELSE "read"
  BY DEF MergeSend
<1>2. /\ TypeOK /\ m \in Messages /\ msg[m] \in MessageType /\ HandlerOK(msg[m])
      /\ frame \in Frames
  BY <1>1, MergeFacts DEF Merging
<1>3. msg[m].updateLock = "reader" /\ msg[m].poolReading
  BY <1>1 DEF ReceiverInv, LockInv
<1>4. PICK c, l : /\ c = Append(msg[m].chan, <<frame>>)
                  /\ l = IF frame.tag = "fin" THEN msg[m].updateLock ELSE "none"
  OBVIOUS
<1>5. msg' = [msg EXCEPT ![m].chan = c, ![m].updateLock = l]
  BY <1>2, <1>4 DEF MergeSend, TypeOK
<1>6. msg'[m] = [msg[m] EXCEPT !.chan = c, !.updateLock = l]
  BY <1>2, <1>5 DEF TypeOK
<1>7. /\ c \in Seq(Seq(Frames)) /\ Len(c) = Len(msg[m].chan) + 1 /\ Len(msg[m].chan) \in Nat
      /\ l \in {"none", "reader"} /\ (frame.tag = "fin" => l = "reader")
  <2>1. <<frame>> \in Seq(Frames)
    BY <1>2
  <2>2. msg[m].chan \in Seq(Seq(Frames)) /\ Len(msg[m].chan) \in Nat
    BY <1>2, PlacesType, PartsFacts
  <2>3. c \in Seq(Seq(Frames)) /\ Len(c) = Len(msg[m].chan) + 1
    BY <1>4, <2>1, <2>2, AppendProperties
  <2> QED BY <1>3, <1>4, <2>2, <2>3
<1>8. msg'[m] \in MessageType
  BY <1>2, <1>6, <1>7 DEF MessageType
<1>9. /\ msg'[m].chan = c /\ msg'[m].updateLock = l
      /\ msg'[m].entity = msg[m].entity /\ msg'[m].isComplete = msg[m].isComplete
      /\ msg'[m].out = msg[m].out /\ msg'[m].hpc = msg[m].hpc
      /\ msg'[m].poolReading = msg[m].poolReading /\ msg'[m].msgPool = msg[m].msgPool
  BY <1>2, <1>6 DEF MessageType
<1>10. msg' \in [Messages -> MessageType] /\ \A k \in Messages : k # m => msg'[k] = msg[k]
  BY <1>2, <1>5, <1>8 DEF TypeOK
<1>11. msg[m].hpc = "range" /\ msg[m].entity = << >>
  BY <1>1, <1>2, <1>3 DEF HandlerOK, MessageType
<1>12. HandlerOK(msg'[m])
  BY <1>3, <1>9, <1>11 DEF HandlerOK
<1>13. ContentOf(msg'[m]) = Append(ContentOf(msg[m]), frame)
  BY <1>2, <1>4, <1>8, <1>9, <1>11, ChannelGrows
<1>14. Len(msg'[m].chan) <= ChanSize
  BY <1>1, <1>7, <1>9, ReceiverAssumption
<1>15. rpc \in Merging
  BY <1>1 DEF Merging
<1>16. rpc' = "close" => msg'[m].updateLock = "reader" /\ msg'[m].poolReading
                         /\ msg'[m].msgPool = "open"
  BY <1>1, <1>3, <1>7, <1>9
<1> QED BY <1>1, <1>2, <1>9, <1>10, <1>12, <1>13, <1>14, <1>15, <1>16, MergeStep

\* merge takes updateLock for the send.
LEMMA MergeLockKeeps ==
  ASSUME ReceiverInv, NEW m, m = Current, MergeLock(m)
  PROVE  ReceiverInv'
<1>1. /\ rpc = "merge" /\ rpc' = "send" /\ msg[m].poolReading
      /\ triggerOnStart => msg[m].updateLock = "none"
      /\ UNCHANGED <<config, input, pending, closing>>
      /\ msg' = [msg EXCEPT ![m].updateLock = "reader"]
  BY DEF MergeLock, MayMerge
<1>2. /\ TypeOK /\ m \in Messages /\ msg[m] \in MessageType /\ HandlerOK(msg[m])
      /\ ~triggerOnStart => msg[m].hpc = "none"
  BY <1>1, MergeFacts DEF Merging
<1>3. msg'[m] = [msg[m] EXCEPT !.updateLock = "reader"]
  BY <1>1, <1>2 DEF TypeOK
<1>4. msg'[m] \in MessageType
  BY <1>2, <1>3 DEF MessageType
<1>5. /\ msg'[m].updateLock = "reader"
      /\ msg'[m].chan = msg[m].chan /\ msg'[m].entity = msg[m].entity
      /\ msg'[m].isComplete = msg[m].isComplete /\ msg'[m].out = msg[m].out
      /\ msg'[m].hpc = msg[m].hpc /\ msg'[m].poolReading = msg[m].poolReading
      /\ msg'[m].msgPool = msg[m].msgPool
  BY <1>2, <1>3 DEF MessageType
<1>6. msg' \in [Messages -> MessageType] /\ \A k \in Messages : k # m => msg'[k] = msg[k]
  BY <1>1, <1>2, <1>4 DEF TypeOK
<1>7. msg[m].hpc \in {"range", "done"}
  BY <1>1, <1>2 DEF HandlerOK, MessageType
<1>8. HandlerOK(msg'[m])
  BY <1>2, <1>5, <1>7 DEF HandlerOK
<1>9. ContentOf(msg'[m]) = ContentOf(msg[m])
  BY <1>5 DEF ContentOf
<1>10. Len(msg'[m].chan) <= ChanSize
  BY <1>2, <1>5 DEF TypeOK
<1> QED BY <1>1, <1>2, <1>5, <1>6, <1>7, <1>8, <1>9, <1>10, BusyStep

\* merge closes the channel after the final frame.
LEMMA MergeCloseKeeps ==
  ASSUME ReceiverInv, NEW m, m = Current, MergeClose(m)
  PROVE  ReceiverInv'
<1>1. /\ rpc = "close" /\ rpc' = "settle"
      /\ UNCHANGED <<config, input, pending, closing>>
      /\ msg' = [msg EXCEPT ![m].msgPool = "closed", ![m].updateLock = "none"]
  BY DEF MergeClose
<1>2. /\ TypeOK /\ m \in Messages /\ msg[m] \in MessageType /\ HandlerOK(msg[m])
  BY <1>1, MergeFacts DEF Ending
<1>3. msg'[m] = [msg[m] EXCEPT !.msgPool = "closed", !.updateLock = "none"]
  BY <1>1, <1>2 DEF TypeOK
<1>4. msg'[m] \in MessageType
  BY <1>2, <1>3 DEF MessageType
<1>5. /\ msg'[m].updateLock = "none" /\ msg'[m].msgPool = "closed"
      /\ msg'[m].chan = msg[m].chan /\ msg'[m].entity = msg[m].entity
      /\ msg'[m].isComplete = msg[m].isComplete /\ msg'[m].out = msg[m].out
      /\ msg'[m].hpc = msg[m].hpc /\ msg'[m].poolReading = msg[m].poolReading
  BY <1>2, <1>3 DEF MessageType
<1>6. msg' \in [Messages -> MessageType] /\ \A k \in Messages : k # m => msg'[k] = msg[k]
  BY <1>1, <1>2, <1>4 DEF TypeOK
<1>7. msg[m].hpc \in {"range", "done"}
  <2>1. msg[m].updateLock = "reader" /\ msg[m].poolReading
    BY <1>1 DEF ReceiverInv, LockInv
  <2> QED BY <1>2, <2>1 DEF HandlerOK, MessageType
<1>8. HandlerOK(msg'[m])
  BY <1>2, <1>5, <1>7 DEF HandlerOK
<1>9. ContentOf(msg'[m]) = ContentOf(msg[m])
  BY <1>5 DEF ContentOf
<1>10. Len(msg'[m].chan) <= ChanSize
  BY <1>2, <1>5 DEF TypeOK
<1> QED BY <1>1, <1>2, <1>5, <1>6, <1>7, <1>8, <1>9, <1>10, BusyStep

\* After the final frame the message is triggered and forgotten.
LEMMA SettleKeeps ==
  ASSUME ReceiverInv, NEW m, m = Current, Settle(m)
  PROVE  ReceiverInv'
<1>1. /\ rpc = "settle" /\ rpc' = "read"
      /\ UNCHANGED <<config, input, closing>>
      /\ msg' = IF triggerOnStart THEN msg ELSE [msg EXCEPT ![m].hpc = "spawned"]
      /\ pending' = [pending EXCEPT ![frame.stream] = 0]
  BY DEF Settle
<1>2. /\ TypeOK /\ m \in Messages /\ msg[m] \in MessageType /\ HandlerOK(msg[m])
      /\ ~triggerOnStart => msg[m].hpc = "none"
  BY <1>1, MergeFacts DEF Ending
<1>3. PICK f \in Frames : /\ f = frame /\ f = peer[f.stream] /\ f.tag = "fin"
                          /\ f.stream \in StreamIds \cup {0}
                          /\ Closes(ContentOf(msg[m])) /\ m = pending[f.stream]
  <2>1. /\ frame.tag = "fin" /\ Last(ContentOf(msg[m])) = frame /\ Current # 0
        /\ peer[frame.stream] = frame
    BY <1>1 DEF ReceiverInv, HandInv, Ending
  <2> QED BY <2>1, CurrentFacts DEF Closes, Current
<1>4. /\ ~Fresh(m)
      /\ \A s \in StreamIds \cup {0} : s # f.stream => pending[s] # m
  <2>1. Current # 0
    BY <1>1 DEF ReceiverInv, HandInv, Ending
  <2> QED BY <1>3, <2>1, CurrentFacts
<1>5. /\ msg' \in [Messages -> MessageType] /\ \A k \in Messages : k # m => msg'[k] = msg[k]
      /\ ContentOf(msg'[m]) = ContentOf(msg[m]) /\ HandlerOK(msg'[m])
      /\ msg'[m].chan = msg[m].chan /\ msg'[m].poolReading = msg[m].poolReading
      /\ msg'[m].msgPool = msg[m].msgPool
      /\ msg'[m].hpc = msg[m].hpc \/ msg'[m].hpc = "spawned"
  <2>1. CASE triggerOnStart
    BY <1>1, <1>2, <2>1 DEF TypeOK
  <2>2. CASE ~triggerOnStart
    <3>1. msg' = [msg EXCEPT ![m].hpc = "spawned"]
      BY <1>1, <2>2
    <3>2. msg'[m] = [msg[m] EXCEPT !.hpc = "spawned"]
      BY <1>2, <3>1 DEF TypeOK
    <3>3. msg'[m] \in MessageType
      BY <1>2, <3>2 DEF MessageType
    <3>4. /\ msg'[m].hpc = "spawned" /\ msg'[m].updateLock = msg[m].updateLock
          /\ msg'[m].chan = msg[m].chan /\ msg'[m].entity = msg[m].entity
          /\ msg'[m].isComplete = msg[m].isComplete /\ msg'[m].out = msg[m].out
          /\ msg'[m].msgPool = msg[m].msgPool /\ msg'[m].poolReading = msg[m].poolReading
      BY <1>2, <3>2 DEF MessageType
    <3>5. msg' \in [Messages -> MessageType] /\ \A k \in Messages : k # m => msg'[k] = msg[k]
      BY <1>2, <3>1, <3>3 DEF TypeOK
    <3>6. HandlerOK(msg'[m])
      BY <1>2, <2>2, <3>4 DEF HandlerOK
    <3>7. ContentOf(msg'[m]) = ContentOf(msg[m])
      BY <3>4 DEF ContentOf
    <3> QED BY <3>4, <3>5, <3>6, <3>7
  <2> QED BY <2>1, <2>2
<1>6. /\ pending' \in [StreamIds \cup {0} -> 0 .. MaxFrames] /\ pending'[f.stream] = 0
      /\ \A s \in StreamIds \cup {0} : s # f.stream => pending'[s] = pending[s]
  BY <1>1, <1>2, <1>3, ReceiverAssumption DEF TypeOK
<1>7. TypeOK'
  <2>1. \A k \in Messages : Len(msg'[k].chan) <= ChanSize
    BY <1>2, <1>5 DEF TypeOK
  <2> QED BY <1>1, <1>2, <1>5, <1>6, <2>1 DEF TypeOK, config, input, closing
<1>8. HandlerInv'
  BY <1>5 DEF ReceiverInv, HandlerInv
<1>9. EndInv'
  <2> SUFFICES ASSUME NEW k \in Messages, LooksEnded(k)'
               PROVE  Closes(ContentOf(msg'[k]))
    BY DEF EndInv
  <2>1. CASE k = m
    BY <1>3, <1>5, <2>1
  <2>2. CASE k # m
    <3>1. LooksEnded(k) /\ msg'[k] = msg[k]
      BY <1>1, <1>5, <2>2 DEF LooksEnded, config, closing
    <3> QED BY <3>1 DEF ReceiverInv, EndInv
  <2> QED BY <2>1, <2>2
<1>10. LockInv' /\ CleanInv' /\ DrainInv'
  BY <1>1, <1>5 DEF ReceiverInv, LockInv, CleanInv, DrainInv, closing
<1>11. HandInv'
  BY <1>1, <1>3 DEF HandInv, Merging, Ending, input
<1>12. StreamInv'
  <2> SUFFICES ASSUME NEW s \in StreamIds \cup {0} PROVE StreamOK(s)'
    BY DEF StreamInv
  <2>1. StreamOK(s) /\ peer' = peer /\ ~Busy(s)'
    BY <1>1 DEF ReceiverInv, StreamInv, Busy, Merging, Ending, input
  <2>2. CASE s = f.stream
    BY <1>3, <1>6, <2>1, <2>2 DEF StreamOK
  <2>3. CASE s # f.stream
    <3>1. pending'[s] = pending[s] /\ ~Busy(s)
      BY <1>3, <1>6, <2>3 DEF Busy
    <3>2. pending[s] # 0 => msg'[pending[s]] = msg[pending[s]]
      BY <1>4, <1>5, <2>3, PendingFacts
    <3> QED BY <1>1, <2>1, <3>1, <3>2 DEF StreamOK, config
  <2> QED BY <2>2, <2>3
<1>13. FreshInv'
  <2> SUFFICES ASSUME NEW k \in Messages, Fresh(k)' PROVE msg'[k] = NoMessage
    BY DEF FreshInv
  <2>1. Fresh(k)
    BY <1>1 DEF Fresh, input
  <2>2. k # m
    BY <1>4, <2>1
  <2> QED BY <1>5, <2>1, <2>2 DEF ReceiverInv, FreshInv
<1>14. WholeInv'
  BY <1>5 DEF ReceiverInv, WholeInv
<1> QED BY <1>7, <1>8, <1>9, <1>10, <1>11, <1>12, <1>13, <1>14 DEF ReceiverInv

-----------------------------------------------------------------------------
(* The theorems. *)

\* The invariant holds initially.
LEMMA InitEstablishes ==
  ASSUME Init
  PROVE  ReceiverInv
<1>1. \A m \in Messages : msg[m] = NoMessage
  BY DEF Init
<1>2. \A m \in Messages : msg[m].hpc = "none" /\ msg[m].msgPool = "nil" /\ ~msg[m].isComplete
                          /\ ~msg[m].poolReading /\ msg[m].chan = << >> /\ msg[m].out = << >>
                          /\ ContentOf(msg[m]) = << >>
  BY <1>1, NothingYet DEF NoMessage
<1>3. \A s \in StreamIds \cup {0} : NoFrame(s) \in Frames /\ NoFrame(s).stream = s
                                    /\ NoFrame(s).part = 0
  BY DEF NoFrame, Frames, Tags
<1>4. TypeOK
  <2>1. \A m \in Messages : Len(msg[m].chan) <= ChanSize
    BY <1>2, ReceiverAssumption
  <2>2. peer \in [StreamIds \cup {0} -> Frames] /\ frame \in Frames
    BY <1>3 DEF Init
  <2>3. msg \in [Messages -> MessageType]
    BY NothingYet DEF Init
  <2>4. nframes \in 0 .. MaxFrames /\ pending \in [StreamIds \cup {0} -> 0 .. MaxFrames]
    BY ReceiverAssumption DEF Init
  <2>5. visited \in [Cleaners -> SUBSET Messages]
    BY DEF Init
  <2>6. /\ streamable \in BOOLEAN /\ triggerOnStart \in BOOLEAN /\ rpc = "read"
        /\ closed = FALSE /\ timer = "off"
    BY DEF Init
  <2> QED BY <2>1, <2>2, <2>3, <2>4, <2>5, <2>6 DEF TypeOK
<1>5. HandlerInv /\ EndInv /\ DrainInv
  BY <1>2 DEF HandlerInv, HandlerOK, EndInv, LooksEnded, DrainInv
<1>6. LockInv /\ HandInv /\ CleanInv
  BY <1>3 DEF Init, LockInv, HandInv, CleanInv, Merging, Ending
<1>7. StreamInv
  BY <1>3 DEF Init, StreamInv, StreamOK
<1>8. FreshInv /\ WholeInv
  BY <1>1, <1>2 DEF FreshInv, WholeInv, Whole
<1> QED BY <1>4, <1>5, <1>6, <1>7, <1>8 DEF ReceiverInv

\* Every step keeps it.
LEMMA NextKeeps ==
  ASSUME ReceiverInv, [Next]_vars
  PROVE  ReceiverInv'
<1>1. CASE UNCHANGED vars
  <2>1. ReceiverInv /\ UNCHANGED <<config, input, pending, msg, visited>>
        /\ rpc' = rpc /\ timer' = timer /\ closed' = closed
    BY <1>1 DEF vars, closing
  <2> QED BY <2>1, OutsideStep DEF ReceiverInv, TypeOK, CleanInv
<1>2. ASSUME NEW s \in StreamIds \cup {0}, NEW t \in Tags, ReadFrame(s, t)
      PROVE  ReceiverInv'
  BY <1>2, ReadFrameKeeps
<1>3. CASE Merge
  <2>1. CASE NewMessage
    BY <2>1, NewMessageKeeps
  <2>2. CASE ~NewMessage
    <3>1. PICK m : m = Current
      OBVIOUS
    <3>2. MergeEntity(m) \/ MergeLock(m) \/ MergeSend(m) \/ MergeClose(m) \/ Settle(m)
      BY <1>3, <2>2, <3>1 DEF Merge
    <3> QED BY <3>1, <3>2, MergeEntityKeeps, MergeLockKeeps, MergeSendKeeps, MergeCloseKeeps,
               SettleKeeps
  <2> QED BY <2>1, <2>2
<1>4. CASE LeaveLoop \/ Close \/ TimerCheck \/ TimerClose \/ \E k \in Cleaners : CleanDone(k)
  BY <1>4, OutsideKeeps
<1>5. ASSUME NEW k \in Cleaners, NEW m \in Messages, CleanMessage(k, m)
      PROVE  ReceiverInv'
  BY <1>5, CleanMessageKeeps
<1>6. ASSUME NEW m \in Messages, Handler(m)
      PROVE  ReceiverInv'
  BY <1>6, HandlerReadKeeps, IterLockKeeps, IterMakeKeeps, IterDrainKeeps, IterCloseKeeps,
     IterReceiveKeeps, IterEndKeeps DEF Handler
<1> QED BY <1>1, <1>2, <1>3, <1>4, <1>5, <1>6 DEF Next, Clean

(***************************************************************************)
(* ReceiverInv holds throughout.                                           *)
(***************************************************************************)
THEOREM ReceiverInvariant == Spec => []ReceiverInv
<1>1. Init => ReceiverInv
  BY InitEstablishes
<1>2. ReceiverInv /\ [Next]_vars => ReceiverInv'
  BY NextKeeps
<1> QED BY <1>1, <1>2, PTL DEF Spec

(***************************************************************************)
(* Every variable keeps its type, and no channel of ReadIter ever holds    *)
(* more than its argument: merge and ReadIter wait for room.               *)
(***************************************************************************)
THEOREM TypeCorrect == Spec => []TypeOK
<1>1. ReceiverInv => TypeOK
  BY DEF ReceiverInv
<1> QED BY <1>1, ReceiverInvariant, PTL

(***************************************************************************)
(* A handler is given frames 1 .. n of one message of the peer, none lost, *)
(* doubled or out of order, whatever merge, Read, ReadIter and the two     *)
(* runs of cleanClose do at the same time.                                 *)
(***************************************************************************)
THEOREM FaithfulTheorem == Spec => []Faithful
<1>1. ReceiverInv => Faithful
  <2> SUFFICES ASSUME ReceiverInv, NEW m \in Messages PROVE Whole(Content(m))
    BY DEF Faithful, Whole
  <2>1. TypeOK /\ Whole(ContentOf(msg[m]))
    BY DEF ReceiverInv, WholeInv
  <2> QED BY <2>1, ContentFacts
<1> QED BY <1>1, ReceiverInvariant, PTL

(***************************************************************************)
(* A handler that is done got the last frame too, unless the connection    *)
(* was closed (README.md:303).                                             *)
(***************************************************************************)
THEOREM EndMeansWholeTheorem == Spec => []EndMeansWhole
<1>1. ReceiverInv => EndMeansWhole
  <2> SUFFICES ASSUME ReceiverInv, NEW m \in Messages, msg[m].hpc = "done", ~closed
               PROVE  msg[m].out # << >> /\ Last(msg[m].out).tag = "fin"
    BY DEF EndMeansWhole
  <2>1. Closes(ContentOf(msg[m]))
    BY DEF ReceiverInv, EndInv, LooksEnded
  <2>2. msg[m].chan = << >> /\ msg[m].entity = << >> /\ msg[m] \in MessageType
    BY DEF ReceiverInv, HandlerInv, HandlerOK, TypeOK
  <2>3. PICK s \in Seq(Frames) : s = msg[m].out
    BY <2>2, PlacesType
  <2>4. FlattenSeq(<< >>) = << >> /\ s \o << >> = s
    BY <2>2, PlacesType, FlattenType, ConcatNothing
  <2>5. ContentOf(msg[m]) = s
    BY <2>2, <2>3, <2>4 DEF ContentOf
  <2> QED BY <2>1, <2>3, <2>5 DEF Closes
<1> QED BY <1>1, ReceiverInvariant, PTL

(***************************************************************************)
(* While the connection lives nobody sends on a closed channel or closes   *)
(* one twice.                                                              *)
(***************************************************************************)
THEOREM PanicOnlyAfterCloseTheorem == Spec => []PanicOnlyAfterClose
<1>1. ReceiverInv => PanicOnlyAfterClose
  <2> SUFFICES ASSUME ReceiverInv, ~closed PROVE ~Panics
    BY DEF PanicOnlyAfterClose
  <2>1. \A m \in Messages : msg[m].hpc = "drain" => msg[m].msgPool # "closed"
    BY DEF ReceiverInv, DrainInv
  <2>2. \A m \in Messages : msg[m].hpc = "close" => msg[m].msgPool = "open"
    BY DEF ReceiverInv, HandlerInv, HandlerOK
  <2>3. rpc = "close" => msg[Current].msgPool = "open"
    BY DEF ReceiverInv, LockInv
  <2>4. rpc = "send" => msg[Current].msgPool # "closed"
    <3>1. PICK m : m = Current
      OBVIOUS
    <3> QED BY <3>1, MergeFacts DEF LooksEnded, Merging
  <2>5. \A k \in Cleaners : ~Cleaning(k)
    BY DEF ReceiverInv, CleanInv, Cleaning
  <2> QED BY <2>1, <2>2, <2>3, <2>4, <2>5 DEF Panics, SendsOnClosed, ClosesTwice
<1> QED BY <1>1, ReceiverInvariant, PTL

(***************************************************************************)
(* Between two frames pendingStreams holds the unfinished messages and no  *)
(* other.                                                                  *)
(***************************************************************************)
THEOREM PendingIsUnfinishedTheorem == Spec => []PendingIsUnfinished
<1>1. ReceiverInv => PendingIsUnfinished
  <2> SUFFICES ASSUME ReceiverInv, rpc = "read", NEW s \in StreamIds \cup {0}
               PROVE  IF peer[s].tag = "more" /\ peer[s].part > 0
                        THEN pending[s] # 0 /\ ~Ended(pending[s])
                        ELSE peer[s].tag = "fin" => pending[s] = 0
    BY DEF PendingIsUnfinished, Streams
  <2>1. StreamOK(s) /\ ~Busy(s) /\ TypeOK
    BY DEF ReceiverInv, StreamInv, Busy, Merging, Ending
  <2>2. peer[s].part \in Nat
    BY <2>1 DEF TypeOK, Frames
  <2>3. ASSUME pending[s] # 0 PROVE ~Ended(pending[s]) /\ peer[s].tag # "fin"
    <3>1. Content(pending[s]) = ContentOf(msg[pending[s]])
      BY <2>1, <2>3, PendingFacts, ContentFacts
    <3> QED BY <2>1, <2>3, <3>1 DEF StreamOK, Ended
  <2>4. ASSUME pending[s] = 0 PROVE peer[s].tag = "fin" \/ peer[s].part = 0
    BY <2>1, <2>4 DEF StreamOK
  <2> QED BY <2>2, <2>3, <2>4
<1> QED BY <1>1, ReceiverInvariant, PTL
=============================================================================

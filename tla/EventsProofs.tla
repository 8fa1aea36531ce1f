---------------------------- MODULE EventsProofs ----------------------------
(***************************************************************************)
(* What holds of Events for every number of handlers, goroutines, messages *)
(* and calls, and whatever length append gives a new array.  EventsInv is  *)
(* the inductive invariant: which cells of its array a range loop can      *)
(* still come to, that a loop of updateStatus runs only with statusLock    *)
(* held, and that a loop of triggerMessage runs only on the reader.        *)
(***************************************************************************)
EXTENDS Events, TLAPS, SequenceTheorems

Cell == Handlers \cup {None}

\* eventPool: its header points into its array, and no cell within is empty.
PoolOK ==
  /\ arrays \in Seq(Seq(Cell))
  /\ pool \in [array : 1 .. Len(arrays), len : Nat]
  /\ pool.len <= Len(arrays[pool.array])
  /\ \A j \in 1 .. pool.len : arrays[pool.array][j] \in Handlers
  /\ calls \in 0 .. MaxCalls
  /\ pool.len <= Len(Applied) + calls

(***************************************************************************)
(* The cells of its array that a loop can come to, or that a Revoke can    *)
(* move there, hold handlers that have been in eventPool since it began.   *)
(* Without a Revoke on its array they are as they were.                    *)
(***************************************************************************)
Reach(r, j) == j <= Len(r.over) \/ (r.array = pool.array /\ j <= pool.len)

LoopOK(r) ==
  /\ r \in LoopType
  /\ r.array \in 1 .. Len(arrays)
  /\ Len(r.over) <= Len(arrays[r.array])
  /\ r.next \in 1 .. Len(r.over) + 1
  /\ ToSet(r.did) \subseteq r.seen
  /\ \A j \in 1 .. Len(arrays[r.array]) : Reach(r, j) => arrays[r.array][j] \in r.seen
  /\ ~r.shifted =>
       /\ r.did = SubSeq(r.over, 1, r.next - 1)
       /\ \A j \in 1 .. Len(r.over) : arrays[r.array][j] = r.over[j]
       /\ r.array = pool.array => Len(r.over) <= pool.len

LoopInv ==
  /\ loop \in [Loops -> LoopType \cup {None}]
  /\ \A l \in Loops : loop[l] # None => LoopOK(loop[l])

\* The loop of updateStatus runs with statusLock held, that of triggerMessage while
\* the reader is there; OnReady has run only when the status has changed.
StatusInv ==
  /\ status \in Statuses
  /\ asks \in [Threads -> (Statuses \ {"YetReady"}) \cup {None}]
  /\ holder = None => loop["status"] = None
  /\ ready \in {0, 1}
  /\ status = "YetReady" => ready = 0

ReaderInv == reader = "range" <=> loop["message"] # None

EventsInv == PoolOK /\ LoopInv /\ StatusInv /\ ReaderInv

-----------------------------------------------------------------------------
(* Arrays. *)

\* A cell of one of the arrays is written.
LEMMA WriteCell ==
  ASSUME NEW S, NEW aa \in Seq(Seq(S)), NEW a \in 1 .. Len(aa), NEW j \in 1 .. Len(aa[a]),
         NEW e \in S, NEW bb, bb = [aa EXCEPT ![a][j] = e]
  PROVE  /\ bb \in Seq(Seq(S)) /\ Len(bb) = Len(aa) /\ Len(bb[a]) = Len(aa[a])
         /\ \A b \in 1 .. Len(aa) : b # a => bb[b] = aa[b]
         /\ bb[a][j] = e /\ \A i \in 1 .. Len(aa[a]) : i # j => bb[a][i] = aa[a][i]
<1>1. PICK s \in Seq(S) : s = aa[a]
  BY ElementOfSeq
<1>2. PICK t : t = [s EXCEPT ![j] = e]
  OBVIOUS
<1>3. /\ t \in Seq(S) /\ Len(t) = Len(s) /\ t[j] = e
      /\ \A i \in 1 .. Len(s) : i # j => t[i] = s[i]
  BY <1>1, <1>2, ExceptSeq
<1>4. bb = [aa EXCEPT ![a] = t]
  BY <1>1, <1>2
<1>5. /\ bb \in Seq(Seq(S)) /\ Len(bb) = Len(aa) /\ bb[a] = t
      /\ \A b \in 1 .. Len(aa) : b # a => bb[b] = aa[b]
  BY <1>3, <1>4, ExceptSeq
<1> QED BY <1>1, <1>3, <1>5

\* One of the arrays is replaced by another of the same length.
LEMMA WriteArray ==
  ASSUME NEW S, NEW aa \in Seq(Seq(S)), NEW a \in 1 .. Len(aa), NEW t \in Seq(S),
         NEW bb, bb = [aa EXCEPT ![a] = t]
  PROVE  /\ bb \in Seq(Seq(S)) /\ Len(bb) = Len(aa) /\ bb[a] = t
         /\ \A b \in 1 .. Len(aa) : b # a => bb[b] = aa[b]
BY ExceptSeq

\* A new array is added.
LEMMA NewArray ==
  ASSUME NEW S, NEW aa \in Seq(Seq(S)), NEW t \in Seq(S), NEW bb, bb = Append(aa, t)
  PROVE  /\ bb \in Seq(Seq(S)) /\ Len(bb) = Len(aa) + 1 /\ bb[Len(aa) + 1] = t
         /\ Len(aa) \in Nat /\ \A b \in 1 .. Len(aa) : bb[b] = aa[b]
BY AppendProperties, LenProperties

\* Revoke moves the cells behind the i-th down by one.
LEMMA ShiftFacts ==
  ASSUME NEW S, NEW a \in Seq(S), NEW n \in 1 .. Len(a), NEW i \in 1 .. n
  PROVE  /\ ShiftCells(a, i, n) \in Seq(S) /\ Len(ShiftCells(a, i, n)) = Len(a)
         /\ \A j \in 1 .. Len(a) :
              ShiftCells(a, i, n)[j] = IF j \in i .. n - 1 THEN a[j + 1] ELSE a[j]
<1>1. PICK m \in Nat : m = Len(a) /\ DOMAIN a = 1 .. m
  OBVIOUS
<1>2. \A j \in 1 .. m : (j \in i .. n - 1 => j + 1 \in 1 .. m) /\ a[j] \in S
  BY <1>1
<1> DEFINE b == [j \in 1 .. m |-> IF j \in i .. n - 1 THEN a[j + 1] ELSE a[j]]
<1>3. ShiftCells(a, i, n) = b
  BY <1>1 DEF ShiftCells
<1>4. \A j \in 1 .. m : b[j] \in S
  BY <1>2
<1>5. b = [j \in 1 .. m |-> b[j]]
  OBVIOUS
<1>6. \A j \in 1 .. m : b[j] = IF j \in i .. n - 1 THEN a[j + 1] ELSE a[j]
  OBVIOUS
<1> HIDE DEF b
<1>7. b \in Seq(S) /\ Len(b) = m
  BY <1>4, <1>5, IsASeq, LenProperties
<1> QED BY <1>1, <1>3, <1>6, <1>7

\* A new array is long enough.
LEMMA StoredFacts ==
  ASSUME NEW hs \in Seq(Handlers), Len(hs) <= Len(Applied) + MaxCalls
  PROVE  /\ Stored(hs) \in Seq(Cell) /\ Len(hs) \in Nat /\ Len(hs) <= Len(Stored(hs))
         /\ \A j \in 1 .. Len(hs) : Stored(hs)[j] = hs[j] /\ hs[j] \in Handlers
<1>1. PICK n \in Nat : n = Len(hs)
  OBVIOUS
<1>2. PICK c \in Nat : c = Capacity(n) /\ n <= c
  <2>1. n \in 0 .. Len(Applied) + MaxCalls
    BY <1>1, EventsAssumption
  <2> QED BY <2>1, EventsAssumption
<1>3. \A j \in 1 .. n : hs[j] \in Handlers
  BY <1>1
<1> DEFINE b == [j \in 1 .. c |-> IF j <= n THEN hs[j] ELSE None]
<1>4. Stored(hs) = b
  BY <1>1, <1>2 DEF Stored
<1>5. \A j \in 1 .. c : b[j] \in Cell
  BY <1>3 DEF Cell
<1>6. b = [j \in 1 .. c |-> b[j]] /\ \A j \in 1 .. n : b[j] = hs[j]
  BY <1>2
<1> HIDE DEF b
<1>7. b \in Seq(Cell) /\ Len(b) = c
  BY <1>5, <1>6, IsASeq, LenProperties
<1> QED BY <1>1, <1>2, <1>3, <1>4, <1>6, <1>7

\* The handlers that eventPool holds.
LEMMA CellsFacts ==
  ASSUME PoolOK
  PROVE  /\ Cells(pool) \in Seq(Handlers) /\ Len(Cells(pool)) = pool.len
         /\ \A j \in 1 .. pool.len : Cells(pool)[j] = arrays[pool.array][j]
         /\ InPool \subseteq Handlers
         /\ \A j \in 1 .. pool.len : arrays[pool.array][j] \in InPool
<1>1. PICK n \in Nat, a \in Seq(Cell) : n = pool.len /\ a = arrays[pool.array] /\ n <= Len(a)
  BY ElementOfSeq DEF PoolOK
<1>2. \A j \in 1 .. n : a[j] \in Handlers
  BY <1>1 DEF PoolOK
<1>3. PICK b : b = SubSeq(a, 1, n)
  OBVIOUS
<1>4. b \in Seq(Cell) /\ Len(b) = n /\ \A j \in 1 .. n : b[j] = a[j]
  BY <1>1, <1>3, SubSeqProperties
<1>5. b \in Seq(Handlers) /\ DOMAIN b = 1 .. n
  <2>1. b = [j \in 1 .. n |-> b[j]] /\ DOMAIN b = 1 .. n
    BY <1>4, LenProperties
  <2>2. \A j \in 1 .. n : b[j] \in Handlers
    BY <1>2, <1>4
  <2> QED BY <2>1, <2>2, IsASeq
<1>6. Cells(pool) = b
  BY <1>1, <1>3 DEF Cells
<1>7. InPool = {b[j] : j \in 1 .. n}
  BY <1>5, <1>6 DEF InPool, ToSet
<1> QED BY <1>1, <1>2, <1>4, <1>5, <1>6, <1>7

\* What a loop has done so far is the beginning of what it goes over.
LEMMA PrefixFacts ==
  ASSUME NEW S, NEW o \in Seq(S), NEW n \in 0 .. Len(o)
  PROVE  /\ IsPrefix(SubSeq(o, 1, n), o)
         /\ SubSeq(o, 1, n) \in Seq(S) /\ Len(SubSeq(o, 1, n)) = n
         /\ SubSeq(o, 1, Len(o)) = o
         /\ n < Len(o) => Append(SubSeq(o, 1, n), o[n + 1]) = SubSeq(o, 1, n + 1)
<1>1. PICK d \in Seq(S) : d = SubSeq(o, 1, n) /\ Len(d) = n /\ \A j \in 1 .. n : d[j] = o[j]
  <2>1. \A j \in 1 .. n : o[j] \in S
    OBVIOUS
  <2>2. SubSeq(o, 1, n) \in Seq(S) /\ Len(SubSeq(o, 1, n)) = n
        /\ \A j \in 1 .. n : SubSeq(o, 1, n)[j] = o[j]
    BY <2>1, SubSeqProperties
  <2> QED BY <2>2
<1>2. SubSeq(o, 1, Len(o)) = o
  BY SubSeqFull
<1>3. SubSeq(d, 1, n) = d
  BY <1>1, SubSeqFull
<1>4. IsPrefix(d, o)
  BY <1>1, <1>3 DEF IsPrefix
<1>5. n < Len(o) => Append(SubSeq(o, 1, n), o[n + 1]) = SubSeq(o, 1, n + 1)
  BY SubSeqRecursiveSecond
<1> QED BY <1>1, <1>2, <1>4, <1>5

-----------------------------------------------------------------------------
(* The loops. *)

\* A loop that begins now.
LEMMA LoopBegins ==
  ASSUME PoolOK
  PROVE  LoopOK(LoopFrom(1))
<1>1. PICK r : r = LoopFrom(1)
  OBVIOUS
<1>2. /\ r.array = pool.array /\ r.over = Cells(pool) /\ r.next = 1 /\ r.did = << >>
      /\ r.seen = InPool /\ r.shifted = FALSE
  BY <1>1 DEF LoopFrom
<1>3. r.array \in Nat /\ r.array \in 1 .. Len(arrays) /\ pool.len \in Nat
  BY <1>2 DEF PoolOK
<1>4. r \in LoopType
  <2>1. r = [array |-> pool.array, over |-> Cells(pool), next |-> 1, did |-> << >>,
             seen |-> InPool, shifted |-> FALSE]
    BY <1>1 DEF LoopFrom
  <2>2. Cells(pool) \in Seq(Handlers) /\ InPool \subseteq Handlers /\ << >> \in Seq(Handlers)
    BY CellsFacts
  <2> QED BY <1>2, <1>3, <2>1, <2>2 DEF LoopType
<1>5. Len(r.over) = pool.len /\ pool.len <= Len(arrays[r.array])
  BY <1>2, CellsFacts DEF PoolOK
<1>6. ToSet(r.did) \subseteq r.seen
  BY <1>2 DEF ToSet
<1>7. \A j \in 1 .. Len(arrays[r.array]) : Reach(r, j) => arrays[r.array][j] \in r.seen
  BY <1>2, <1>3, <1>5, CellsFacts DEF Reach
<1>8. r.did = SubSeq(r.over, 1, r.next - 1)
  BY <1>2, SubSeqEmpty
<1>9. \A j \in 1 .. Len(r.over) : arrays[r.array][j] = r.over[j]
  BY <1>2, <1>5, CellsFacts
<1>10. r.next \in 1 .. Len(r.over) + 1
  BY <1>2, <1>3, <1>5
<1> QED BY <1>1, <1>3, <1>4, <1>5, <1>6, <1>7, <1>8, <1>9, <1>10 DEF LoopOK

\* A loop invokes the handler in its next cell.
LEMMA LoopGoesOn ==
  ASSUME PoolOK, NEW r, LoopOK(r), r.next <= Len(r.over),
         NEW q, q = [r EXCEPT !.did = Append(@, arrays[r.array][r.next]), !.next = @ + 1]
  PROVE  LoopOK(q) /\ q.over = r.over /\ q.shifted = r.shifted
<1>1. /\ r \in LoopType /\ r.array \in 1 .. Len(arrays) /\ r.over \in Seq(Handlers)
      /\ r.did \in Seq(Handlers) /\ r.next \in Nat /\ r.seen \subseteq Handlers
      /\ r.next \in 1 .. Len(r.over)
  BY DEF LoopOK, LoopType
<1>2. PICK e : e = arrays[r.array][r.next]
  OBVIOUS
<1>3. e \in r.seen /\ e \in Handlers
  <2>1. r.next \in 1 .. Len(arrays[r.array]) /\ Reach(r, r.next)
    <3>1. PICK s \in Seq(Cell) : s = arrays[r.array]
      BY <1>1, ElementOfSeq DEF PoolOK
    <3>2. Len(r.over) <= Len(s) /\ Len(s) \in Nat /\ Len(r.over) \in Nat
      BY <1>1, <3>1 DEF LoopOK
    <3> QED BY <1>1, <3>1, <3>2 DEF Reach
  <2> QED BY <1>1, <1>2, <2>1 DEF LoopOK
<1>4. PICK d \in Seq(Handlers) : d = Append(r.did, e) /\ ToSet(d) \subseteq r.seen
  <2>1. PICK d \in Seq(Handlers) : d = Append(r.did, e)
    BY <1>1, <1>3, AppendProperties
  <2>2. /\ Len(r.did) \in Nat /\ DOMAIN r.did = 1 .. Len(r.did)
        /\ DOMAIN d = 1 .. Len(r.did) + 1 /\ d[Len(r.did) + 1] = e
        /\ \A i \in 1 .. Len(r.did) : d[i] = r.did[i]
    BY <1>1, <1>3, <2>1, AppendProperties, LenProperties
  <2>3. \A i \in 1 .. Len(r.did) : r.did[i] \in r.seen
    BY <2>2 DEF LoopOK, ToSet
  <2>4. \A i \in 1 .. Len(r.did) + 1 : i \in 1 .. Len(r.did) \/ i = Len(r.did) + 1
    BY <2>2
  <2>5. \A i \in DOMAIN d : d[i] \in r.seen
    BY <1>3, <2>2, <2>3, <2>4
  <2> QED BY <2>1, <2>5 DEF ToSet
<1>5. q = [r EXCEPT !.did = d, !.next = r.next + 1]
  BY <1>2, <1>4
<1>6. /\ q.array = r.array /\ q.over = r.over /\ q.next = r.next + 1 /\ q.did = d
      /\ q.seen = r.seen /\ q.shifted = r.shifted
  BY <1>1, <1>5 DEF LoopType
<1>7. q \in LoopType
  <2>1. d \in Seq(Handlers) /\ r.next + 1 \in Nat /\ r \in LoopType
    BY <1>1
  <2> QED BY <1>5, <2>1 DEF LoopType
<1>8. \A j : Reach(q, j) <=> Reach(r, j)
  BY <1>6 DEF Reach
<1>9. q.next \in 1 .. Len(q.over) + 1
  BY <1>1, <1>6
<1>10. ASSUME ~r.shifted
       PROVE  d = SubSeq(r.over, 1, r.next)
  <2>1. PICK n \in 0 .. Len(r.over) : n = r.next - 1 /\ n < Len(r.over)
    BY <1>1
  <2>2. r.did = SubSeq(r.over, 1, n) /\ e = r.over[n + 1]
    <3>1. /\ r.did = SubSeq(r.over, 1, r.next - 1)
          /\ \A j \in 1 .. Len(r.over) : arrays[r.array][j] = r.over[j]
      BY <1>10 DEF LoopOK
    <3>2. r.next - 1 = n /\ n + 1 = r.next
      BY <1>1, <2>1
    <3>3. arrays[r.array][r.next] = r.over[r.next]
      BY <1>1, <3>1
    <3> QED BY <1>2, <3>1, <3>2, <3>3
  <2>3. Append(SubSeq(r.over, 1, n), r.over[n + 1]) = SubSeq(r.over, 1, n + 1)
    <3>1. PICK o \in Seq(Handlers) : o = r.over
      BY <1>1
    <3>2. n \in 0 .. Len(o) /\ n < Len(o)
      BY <2>1, <3>1
    <3>3. Append(SubSeq(o, 1, n), o[n + 1]) = SubSeq(o, 1, n + 1)
      BY <3>2, PrefixFacts
    <3> QED BY <3>1, <3>3
  <2>4. n + 1 = r.next
    BY <1>1, <2>1
  <2> QED BY <1>4, <2>2, <2>3, <2>4
<1>11. q.next - 1 = r.next
  BY <1>1, <1>6
<1> QED BY <1>4, <1>6, <1>7, <1>8, <1>9, <1>10, <1>11 DEF LoopOK

\* The loops are left alone, or one of them begins, goes on or ends.
LEMMA LoopStep ==
  ASSUME PoolOK, LoopInv, UNCHANGED slice,
         \/ loop' = loop
         \/ \E l \in Loops : loop' = [loop EXCEPT ![l] = LoopFrom(1)]
         \/ \E l \in Loops : loop[l] # None /\ More(l) /\ Invoke(l)
         \/ \E l \in Loops : LoopEnds(l)
  PROVE  LoopInv'
<1>1. \A r : LoopOK(r)' <=> LoopOK(r)
  BY DEF LoopOK, Reach, slice
<1>2. \A r : LoopOK(r) => r \in LoopType
  BY DEF LoopOK
<1>3. SUFFICES ASSUME NEW l \in Loops, NEW v, v = None \/ LoopOK(v),
                      loop' = [loop EXCEPT ![l] = v]
               PROVE  LoopInv'
  <2>1. CASE loop' = loop
    BY <1>1, <2>1 DEF LoopInv
  <2>2. ASSUME NEW l \in Loops, loop' = [loop EXCEPT ![l] = LoopFrom(1)]
        PROVE  LoopInv'
    BY <1>3, <2>2, LoopBegins
  <2>3. ASSUME NEW l \in Loops, loop[l] # None, More(l), Invoke(l)
        PROVE  LoopInv'
    <3>1. PICK r : r = loop[l] /\ LoopOK(r) /\ r \in LoopType
      BY <1>2, <2>3 DEF LoopInv
    <3>2. PICK q : q = [r EXCEPT !.did = Append(@, arrays[r.array][r.next]), !.next = @ + 1]
      OBVIOUS
    <3>3. r.next <= Len(r.over)
      BY <2>3, <3>1 DEF More, Header
    <3>4. LoopOK(q)
      BY <3>1, <3>2, <3>3, LoopGoesOn
    <3>5. loop' = [loop EXCEPT ![l] = q]
      BY <2>3, <3>1, <3>2 DEF Invoke, Header, LoopInv
    <3> QED BY <1>3, <3>4, <3>5
  <2>4. ASSUME NEW l \in Loops, LoopEnds(l)
        PROVE  LoopInv'
    BY <1>3, <2>4 DEF LoopEnds
  <2> QED BY <2>1, <2>2, <2>3, <2>4
<1>4. loop' \in [Loops -> LoopType \cup {None}]
  BY <1>2, <1>3 DEF LoopInv
<1>5. \A k \in Loops : loop'[k] = IF k = l THEN v ELSE loop[k]
  BY <1>3 DEF LoopInv
<1> QED BY <1>1, <1>3, <1>4, <1>5 DEF LoopInv

-----------------------------------------------------------------------------
(* Apply and Revoke. *)

\* What Apply does to the arrays: it writes the cell behind the last one, or makes a
\* new array.
LEMMA AppendFacts ==
  ASSUME PoolOK, NEW h \in Handlers, AppendHandler(h), calls' = calls + 1, calls < MaxCalls
  PROVE  /\ PoolOK'
         /\ Len(arrays) \in Nat /\ Len(arrays) <= Len(arrays')
         /\ pool'.len = pool.len + 1
         /\ pool'.array = pool.array \/ pool'.array > Len(arrays)
         /\ \A b \in 1 .. Len(arrays) :
              /\ Len(arrays'[b]) = Len(arrays[b])
              /\ \A j \in 1 .. Len(arrays[b]) :
                   IF pool'.array = pool.array /\ b = pool.array /\ j = pool.len + 1
                     THEN arrays'[b][j] = h ELSE arrays'[b][j] = arrays[b][j]
<1>1. PICK n \in Nat, a \in 1 .. Len(arrays) : n = pool.len /\ a = pool.array
  BY DEF PoolOK
<1>2. /\ arrays \in Seq(Seq(Cell)) /\ Len(arrays) \in Nat /\ pool \in [array : 1 .. Len(arrays), len : Nat]
      /\ n <= Len(arrays[a]) /\ Len(arrays[a]) \in Nat
      /\ \A j \in 1 .. n : arrays[a][j] \in Handlers
      /\ n <= Len(Applied) + calls /\ calls \in Nat /\ calls < MaxCalls /\ Len(Applied) \in Nat
  <2>1. arrays[a] \in Seq(Cell)
    BY ElementOfSeq DEF PoolOK
  <2>2. arrays \in Seq(Seq(Cell))
    BY DEF PoolOK
  <2>3. Len(arrays) \in Nat /\ Len(arrays[a]) \in Nat /\ Len(Applied) \in Nat
    BY <2>1, <2>2, LenProperties, EventsAssumption
  <2> QED BY <1>1, <2>2, <2>3 DEF PoolOK
<1>3. h \in Cell /\ calls' \in 0 .. MaxCalls /\ n + 1 <= Len(Applied) + calls'
  BY <1>2, EventsAssumption DEF Cell
<1>4. CASE n < Len(arrays[a])
  <2>1. arrays' = [arrays EXCEPT ![a][n + 1] = h] /\ pool' = [pool EXCEPT !.len = n + 1]
    BY <1>1, <1>4 DEF AppendHandler
  <2>2. n + 1 \in 1 .. Len(arrays[a])
    BY <1>2, <1>4
  <2>3. /\ arrays' \in Seq(Seq(Cell)) /\ Len(arrays') = Len(arrays)
        /\ Len(arrays'[a]) = Len(arrays[a])
        /\ \A b \in 1 .. Len(arrays) : b # a => arrays'[b] = arrays[b]
        /\ arrays'[a][n + 1] = h
        /\ \A i \in 1 .. Len(arrays[a]) : i # n + 1 => arrays'[a][i] = arrays[a][i]
    BY <1>2, <1>3, <2>1, <2>2, WriteCell
  <2>4. pool'.array = a /\ pool'.len = n + 1 /\ pool' \in [array : 1 .. Len(arrays), len : Nat]
    <3>1. pool' = [array |-> a, len |-> n + 1]
      BY <1>1, <1>2, <2>1
    <3> QED BY <3>1
  <2>5. \A j \in 1 .. n + 1 : arrays'[a][j] \in Handlers
    <3>1. \A j \in 1 .. n + 1 : j = n + 1 \/ (j \in 1 .. n /\ j \in 1 .. Len(arrays[a]) /\ j # n + 1)
      BY <1>2
    <3> QED BY <1>2, <2>3, <3>1
  <2>6. PoolOK'
    BY <1>3, <2>2, <2>3, <2>4, <2>5 DEF PoolOK
  <2>7. ASSUME NEW b \in 1 .. Len(arrays)
        PROVE  /\ Len(arrays'[b]) = Len(arrays[b])
               /\ \A j \in 1 .. Len(arrays[b]) :
                    IF b = a /\ j = n + 1 THEN arrays'[b][j] = h ELSE arrays'[b][j] = arrays[b][j]
    <3>1. CASE b = a
      BY <2>3, <3>1
    <3>2. CASE b # a
      BY <2>3, <3>2
    <3> QED BY <3>1, <3>2
  <2> QED BY <1>1, <1>2, <2>3, <2>4, <2>6, <2>7
<1>5. CASE ~(n < Len(arrays[a]))
  <2>1. PICK hs : hs = Append(Cells(pool), h)
    OBVIOUS
  <2>2. arrays' = Append(arrays, Stored(hs)) /\ pool' = [array |-> Len(arrays) + 1, len |-> n + 1]
    BY <1>1, <1>5, <2>1 DEF AppendHandler
  <2>3. hs \in Seq(Handlers) /\ Len(hs) = n + 1
    BY <1>1, <2>1, CellsFacts, AppendProperties
  <2>4. Len(hs) <= Len(Applied) + MaxCalls
    BY <1>2, <2>3, EventsAssumption
  <2>5. /\ Stored(hs) \in Seq(Cell) /\ n + 1 <= Len(Stored(hs))
        /\ \A j \in 1 .. n + 1 : Stored(hs)[j] \in Handlers
    BY <2>3, <2>4, StoredFacts
  <2>6. /\ arrays' \in Seq(Seq(Cell)) /\ Len(arrays') = Len(arrays) + 1
        /\ arrays'[Len(arrays) + 1] = Stored(hs)
        /\ \A b \in 1 .. Len(arrays) : arrays'[b] = arrays[b]
    BY <1>2, <2>2, <2>5, NewArray
  <2>7. /\ pool'.array = Len(arrays) + 1 /\ pool'.len = n + 1
        /\ pool' \in [array : 1 .. Len(arrays'), len : Nat]
    BY <1>2, <2>2, <2>6
  <2>8. PoolOK'
    BY <1>3, <2>5, <2>6, <2>7 DEF PoolOK
  <2>9. pool'.array # pool.array /\ pool'.array > Len(arrays) /\ Len(arrays) <= Len(arrays')
    <3>1. Len(arrays) \in Nat /\ pool.array \in 1 .. Len(arrays)
      BY <1>1, <1>2
    <3>2. pool'.array = Len(arrays) + 1 /\ Len(arrays') = Len(arrays) + 1
      BY <2>6, <2>7
    <3> QED BY <3>1, <3>2
  <2>10. \A b \in 1 .. Len(arrays) :
           Len(arrays'[b]) = Len(arrays[b]) /\ \A j : arrays'[b][j] = arrays[b][j]
    BY <2>6
  <2> QED BY <1>1, <1>2, <2>7, <2>8, <2>9, <2>10
<1> QED BY <1>4, <1>5

\* Apply.
LEMMA ApplyKeeps ==
  ASSUME PoolOK, LoopInv, NEW h \in Handlers, Apply(h)
  PROVE  PoolOK' /\ LoopInv'
<1>1. AppendHandler(h) /\ calls' = calls + 1 /\ calls < MaxCalls
      /\ loop' = [l \in Loops |-> IF loop[l] = None THEN None
                                  ELSE [loop[l] EXCEPT !.seen = @ \union {h}]]
  BY DEF Apply, Call, EachLoop
<1>2. /\ PoolOK' /\ Len(arrays) \in Nat /\ Len(arrays) <= Len(arrays')
      /\ pool'.len = pool.len + 1
      /\ pool'.array = pool.array \/ pool'.array > Len(arrays)
      /\ \A b \in 1 .. Len(arrays) :
           /\ Len(arrays'[b]) = Len(arrays[b])
           /\ \A j \in 1 .. Len(arrays[b]) :
                IF pool'.array = pool.array /\ b = pool.array /\ j = pool.len + 1
                  THEN arrays'[b][j] = h ELSE arrays'[b][j] = arrays[b][j]
  BY <1>1, AppendFacts
<1>3. pool.len \in Nat /\ pool.array \in 1 .. Len(arrays)
  BY DEF PoolOK
<1>4. ASSUME NEW l \in Loops, loop[l] # None
      PROVE  LoopOK(loop[l])' /\ loop'[l] \in LoopType
  <2>1. PICK r : r = loop[l] /\ LoopOK(r)
    BY <1>4 DEF LoopInv
  <2>2. PICK q : q = loop'[l] /\ q = [r EXCEPT !.seen = r.seen \union {h}]
    BY <1>1, <1>4, <2>1
  <2>3. r \in LoopType /\ r.array \in 1 .. Len(arrays) /\ r.over \in Seq(Handlers)
        /\ Len(r.over) \in Nat
    BY <2>1, LenProperties DEF LoopOK, LoopType
  <2>4. /\ q.array = r.array /\ q.over = r.over /\ q.next = r.next /\ q.did = r.did
        /\ q.seen = r.seen \union {h} /\ q.shifted = r.shifted
    BY <2>2, <2>3 DEF LoopType
  <2>5. q \in LoopType
    BY <2>2, <2>3 DEF LoopType
  <2>6. q.array \in 1 .. Len(arrays') /\ Len(q.over) <= Len(arrays'[q.array])
    BY <1>2, <2>1, <2>3, <2>4 DEF LoopOK
  <2>7. ASSUME NEW j \in 1 .. Len(arrays'[q.array]), Reach(q, j)'
        PROVE  arrays'[q.array][j] \in q.seen
    <3>1. j \in 1 .. Len(arrays[r.array]) /\ j \in Nat
      BY <1>2, <2>3, <2>4, <2>7
    <3>2. CASE arrays'[r.array][j] = h
      BY <2>4, <3>2
    <3>3. CASE arrays'[r.array][j] # h
      <4>1. /\ arrays'[r.array][j] = arrays[r.array][j]
            /\ ~(pool'.array = pool.array /\ r.array = pool.array /\ j = pool.len + 1)
        BY <1>2, <2>3, <3>1, <3>3
      <4>2. j <= Len(r.over) \/ (r.array = pool'.array /\ j <= pool.len + 1)
        BY <1>2, <2>4, <2>7 DEF Reach
      <4>3. r.array = pool'.array => pool'.array = pool.array
        BY <1>2, <2>3
      <4>4. Reach(r, j)
        BY <1>3, <3>1, <4>1, <4>2, <4>3 DEF Reach
      <4>5. arrays[r.array][j] \in r.seen
        BY <2>1, <3>1, <4>4 DEF LoopOK
      <4> QED BY <2>4, <4>1, <4>5
    <3> QED BY <3>2, <3>3
  <2>8. ASSUME ~q.shifted
        PROVE  /\ q.did = SubSeq(q.over, 1, q.next - 1)
               /\ \A j \in 1 .. Len(q.over) : arrays'[q.array][j] = q.over[j]
               /\ q.array = pool'.array => Len(q.over) <= pool'.len
    <3>1. /\ r.did = SubSeq(r.over, 1, r.next - 1)
          /\ \A j \in 1 .. Len(r.over) : arrays[r.array][j] = r.over[j]
          /\ r.array = pool.array => Len(r.over) <= pool.len
          /\ Len(r.over) <= Len(arrays[r.array])
      BY <2>1, <2>4, <2>8 DEF LoopOK
    <3>2. Len(arrays[r.array]) \in Nat
      <4>1. arrays[r.array] \in Seq(Cell)
        BY <2>3, ElementOfSeq DEF PoolOK
      <4> QED BY <4>1, LenProperties
    <3>3. ASSUME NEW j \in 1 .. Len(r.over)
          PROVE  arrays'[r.array][j] = arrays[r.array][j]
      <4>1. j \in 1 .. Len(arrays[r.array]) /\ (r.array = pool.array => j # pool.len + 1)
        BY <1>3, <2>3, <3>1, <3>2
      <4> QED BY <1>2, <2>3, <4>1
    <3>4. r.array = pool'.array => Len(r.over) <= pool'.len
      BY <1>2, <1>3, <2>3, <3>1
    <3> QED BY <2>4, <3>1, <3>3, <3>4
  <2>9. q.next \in 1 .. Len(q.over) + 1 /\ ToSet(q.did) \subseteq q.seen
    BY <2>1, <2>4 DEF LoopOK
  <2>10. \A j : Reach(loop[l], j)' <=> Reach(q, j)'
    BY <2>2 DEF Reach
  <2> QED BY <2>2, <2>5, <2>6, <2>7, <2>8, <2>9, <2>10 DEF LoopOK
<1>5. \A l \in Loops : loop[l] = None => loop'[l] = None
  BY <1>1
<1>6. loop' \in [Loops -> LoopType \cup {None}]
  BY <1>1, <1>4, <1>5
<1> QED BY <1>2, <1>4, <1>5, <1>6 DEF LoopInv

\* Revoke.
LEMMA RevokeKeeps ==
  ASSUME PoolOK, LoopInv, NEW h \in Handlers, Revoke(h)
  PROVE  PoolOK' /\ LoopInv'
<1>1. PICK n \in Nat, a \in 1 .. Len(arrays) : n = pool.len /\ a = pool.array
  BY DEF PoolOK
<1>2. PICK s \in Seq(Cell) : s = arrays[a] /\ Len(s) \in Nat /\ n <= Len(s)
  <2>1. arrays[a] \in Seq(Cell)
    BY ElementOfSeq DEF PoolOK
  <2> QED BY <1>1, <2>1, LenProperties DEF PoolOK
<1>3. PICK i \in 1 .. n : arrays' = [arrays EXCEPT ![a] = ShiftCells(s, i, n)]
  BY <1>1, <1>2 DEF Revoke
<1>4. /\ calls' = calls + 1 /\ calls < MaxCalls
      /\ loop' = [l \in Loops |-> IF loop[l] = None THEN None
                                  ELSE [loop[l] EXCEPT !.shifted = @ \/ loop[l].array = pool.array]]
  BY DEF Revoke, Call, EachLoop
<1>5. PICK t \in Seq(Cell) :
        /\ t = ShiftCells(s, i, n) /\ Len(t) = Len(s)
        /\ \A j \in 1 .. Len(s) : t[j] = IF j \in i .. n - 1 THEN s[j + 1] ELSE s[j]
  <2>1. n \in 1 .. Len(s)
    BY <1>2, <1>3
  <2> QED BY <2>1, ShiftFacts
<1>6. /\ arrays \in Seq(Seq(Cell)) /\ Len(arrays) \in Nat
      /\ arrays' \in Seq(Seq(Cell)) /\ Len(arrays') = Len(arrays) /\ arrays'[a] = t
      /\ \A b \in 1 .. Len(arrays) : b # a => arrays'[b] = arrays[b]
  <2>1. arrays \in Seq(Seq(Cell))
    BY DEF PoolOK
  <2> QED BY <1>3, <1>5, <2>1, WriteArray, LenProperties
<1>7. pool'.array = a /\ pool'.len = n - 1 /\ pool' \in [array : 1 .. Len(arrays), len : Nat]
  <2>1. pool' = [array |-> a, len |-> n - 1]
    BY <1>1 DEF Revoke, PoolOK
  <2>2. n - 1 \in Nat
    BY <1>3
  <2> QED BY <2>1, <2>2
<1>8. PoolOK'
  <2>1. \A j \in 1 .. n - 1 : arrays'[a][j] \in Handlers
    <3>1. \A j \in 1 .. n : s[j] \in Handlers
      BY <1>1, <1>2 DEF PoolOK
    <3>2. \A j \in 1 .. n - 1 : j \in 1 .. n /\ j + 1 \in 1 .. n /\ j \in 1 .. Len(s)
      BY <1>2
    <3> QED BY <1>5, <1>6, <3>1, <3>2
  <2>2. n - 1 <= Len(arrays'[a]) /\ n - 1 <= Len(Applied) + calls' /\ calls' \in 0 .. MaxCalls
    <3>1. n <= Len(Applied) + calls /\ calls \in Nat /\ Len(Applied) \in Nat
      BY <1>1, EventsAssumption, LenProperties DEF PoolOK
    <3>2. n - 1 <= Len(arrays'[a])
      BY <1>2, <1>5, <1>6
    <3>3. MaxCalls \in Nat
      BY EventsAssumption
    <3> QED BY <1>4, <3>1, <3>2, <3>3
  <2> QED BY <1>6, <1>7, <2>1, <2>2 DEF PoolOK
<1>9. ASSUME NEW l \in Loops, loop[l] # None
      PROVE  LoopOK(loop[l])' /\ loop'[l] \in LoopType
  <2>1. PICK r : r = loop[l] /\ LoopOK(r)
    BY <1>9 DEF LoopInv
  <2>2. r \in LoopType /\ r.array \in 1 .. Len(arrays) /\ r.over \in Seq(Handlers)
        /\ Len(r.over) \in Nat
    BY <2>1, LenProperties DEF LoopOK, LoopType
  <2>3. PICK b \in BOOLEAN : b = (r.shifted \/ r.array = a)
    OBVIOUS
  <2>4. PICK q : q = loop'[l] /\ q = [r EXCEPT !.shifted = b]
    BY <1>1, <1>4, <1>9, <2>1, <2>3
  <2>5. /\ q.array = r.array /\ q.over = r.over /\ q.next = r.next /\ q.did = r.did
        /\ q.seen = r.seen /\ q.shifted = b
    BY <2>2, <2>4 DEF LoopType
  <2>6. q \in LoopType
    BY <2>2, <2>4 DEF LoopType
  <2>7. Len(arrays'[r.array]) = Len(arrays[r.array])
    BY <1>2, <1>5, <1>6, <2>2
  <2>8. ASSUME NEW j \in 1 .. Len(arrays[r.array]), Reach(q, j)'
        PROVE  arrays'[r.array][j] \in r.seen
    <3>1. \A k \in 1 .. Len(arrays[r.array]) : Reach(r, k) => arrays[r.array][k] \in r.seen
      BY <2>1 DEF LoopOK
    <3>2. Reach(r, j)
      BY <1>1, <1>7, <2>5, <2>8 DEF Reach
    <3>3. CASE r.array = a /\ j \in i .. n - 1
      <4>1. j + 1 \in 1 .. Len(arrays[r.array]) /\ Reach(r, j + 1) /\ j \in 1 .. Len(s)
        BY <1>1, <1>2, <3>3 DEF Reach
      <4>2. arrays'[r.array][j] = arrays[r.array][j + 1]
        BY <1>2, <1>5, <1>6, <3>3, <4>1
      <4> QED BY <3>1, <4>1, <4>2
    <3>4. CASE ~(r.array = a /\ j \in i .. n - 1)
      <4>1. arrays'[r.array][j] = arrays[r.array][j]
        BY <1>2, <1>5, <1>6, <2>2, <3>4
      <4> QED BY <3>1, <3>2, <4>1
    <3> QED BY <3>3, <3>4
  <2>9. ASSUME ~b
        PROVE  /\ r.did = SubSeq(r.over, 1, r.next - 1)
               /\ \A j \in 1 .. Len(r.over) : arrays'[r.array][j] = r.over[j]
               /\ r.array # pool'.array
    <3>1. ~r.shifted /\ r.array # a
      BY <2>3, <2>9
    <3>2. arrays'[r.array] = arrays[r.array]
      BY <1>6, <2>2, <3>1
    <3> QED BY <1>7, <2>1, <3>1, <3>2 DEF LoopOK
  <2>10. /\ r.next \in 1 .. Len(r.over) + 1 /\ ToSet(r.did) \subseteq r.seen
         /\ Len(r.over) <= Len(arrays[r.array])
    BY <2>1 DEF LoopOK
  <2>11. \A j : Reach(loop[l], j)' <=> Reach(q, j)'
    BY <2>4 DEF Reach
  <2> QED BY <1>6, <2>2, <2>4, <2>5, <2>6, <2>7, <2>8, <2>9, <2>10, <2>11 DEF LoopOK
<1>10. \A l \in Loops : loop[l] = None => loop'[l] = None
  BY <1>4
<1>11. loop' \in [Loops -> LoopType \cup {None}]
  BY <1>4, <1>9, <1>10
<1> QED BY <1>8, <1>9, <1>10, <1>11 DEF LoopInv

-----------------------------------------------------------------------------
(* The invariant. *)

\* Apply and Revoke begin and end no loop.
LEMMA LoopsGoOn ==
  ASSUME PoolOK, LoopInv, LoopInv', NEW h \in Handlers, Apply(h) \/ Revoke(h)
  PROVE  \A l \in Loops :
           /\ loop[l] = None <=> loop'[l] = None
           /\ loop[l] # None => /\ loop'[l].over = loop[l].over /\ loop'[l].did = loop[l].did
                                /\ loop[l].did \in Seq(Handlers) /\ loop[l] \in LoopType
<1> SUFFICES ASSUME NEW l \in Loops
             PROVE  /\ loop[l] = None <=> loop'[l] = None
                    /\ loop[l] # None => /\ loop'[l].over = loop[l].over
                                         /\ loop'[l].did = loop[l].did
                                         /\ loop[l].did \in Seq(Handlers)
                                         /\ loop[l] \in LoopType
  OBVIOUS
<1>1. CASE loop[l] = None
  BY <1>1 DEF Apply, Revoke, EachLoop
<1>2. CASE loop[l] # None
  <2>1. PICK r \in LoopType : r = loop[l]
    BY <1>2 DEF LoopInv
  <2>2. PICK b \in BOOLEAN : b = (r.shifted \/ r.array = pool.array)
    OBVIOUS
  <2>3. loop'[l] = [r EXCEPT !.seen = r.seen \union {h}] \/ loop'[l] = [r EXCEPT !.shifted = b]
    BY <1>2, <2>1, <2>2 DEF Apply, Revoke, EachLoop
  <2>4. loop'[l] \in LoopType /\ loop'[l].over = r.over /\ loop'[l].did = r.did
        /\ r.did \in Seq(Handlers)
    BY <2>3 DEF LoopType
  <2>5. loop'[l] # None
    BY <2>4, NoneAssumption
  <2> QED BY <1>2, <2>1, <2>4, <2>5
<1> QED BY <1>1, <1>2

\* One of the loops goes on.
LEMMA InvokeFacts ==
  ASSUME PoolOK, LoopInv, NEW l \in Loops, loop[l] # None, More(l), Invoke(l)
  PROVE  /\ loop'[l] # None /\ loop'[l].over = loop[l].over
         /\ loop'[l].shifted = loop[l].shifted
         /\ \A k \in Loops : k # l => loop'[k] = loop[k]
<1>1. PICK r : r = loop[l] /\ LoopOK(r)
  BY DEF LoopInv
<1>2. PICK q : q = [r EXCEPT !.did = Append(@, arrays[r.array][r.next]), !.next = @ + 1]
  OBVIOUS
<1>3. r.next <= Len(r.over)
  BY <1>1 DEF More, Header
<1>4. LoopOK(q) /\ q.over = r.over /\ q.shifted = r.shifted
  <2>1. LoopOK(q)
    BY <1>1, <1>2, <1>3, LoopGoesOn
  <2>2. r \in LoopType
    BY <1>1 DEF LoopOK
  <2> QED BY <1>2, <2>1, <2>2 DEF LoopType
<1>5. loop' = [loop EXCEPT ![l] = q]
  BY <1>1, <1>2 DEF Invoke, Header, LoopInv
<1>6. loop'[l] = q /\ \A k \in Loops : k # l => loop'[k] = loop[k]
  BY <1>5 DEF LoopInv
<1>7. q # None
  BY <1>4, NoneAssumption DEF LoopOK
<1> QED BY <1>1, <1>4, <1>6, <1>7

(***************************************************************************)
(* What a step can do to a loop: leave it, let it go on, note what Apply   *)
(* or Revoke has done, end it when it is through, or begin one.            *)
(***************************************************************************)
Same(l)   == loop'[l] = loop[l]
GoesOn(l) == loop[l] # None /\ loop'[l] # None /\ loop'[l].over = loop[l].over
             /\ (loop'[l].did = loop[l].did \/ loop'[l].shifted = loop[l].shifted)
Ends(l)   == loop'[l] = None /\ (loop[l] = None \/ ~More(l))
Begins(l) == loop[l] = None /\ loop'[l] = LoopFrom(1)

\* The loops, in every step.
LEMMA LoopMoves ==
  ASSUME EventsInv, [Next]_vars
  PROVE  /\ PoolOK' /\ LoopInv'
         /\ \A l \in Loops : Same(l) \/ GoesOn(l) \/ Ends(l) \/ Begins(l)
<1>1. PoolOK /\ LoopInv /\ StatusInv /\ ReaderInv
  BY DEF EventsInv
<1>2. "status" \in Loops /\ "message" \in Loops
  BY DEF Loops
<1>3. ASSUME NEW h \in Handlers, Apply(h) \/ Revoke(h)
      PROVE  /\ PoolOK' /\ LoopInv'
             /\ \A l \in Loops : Same(l) \/ GoesOn(l) \/ Ends(l) \/ Begins(l)
  <2>1. PoolOK' /\ LoopInv'
    BY <1>1, <1>3, ApplyKeeps, RevokeKeeps
  <2>2. \A l \in Loops : Same(l) \/ GoesOn(l)
    BY <1>1, <1>3, <2>1, LoopsGoOn DEF Same, GoesOn
  <2> QED BY <2>1, <2>2
<1>4. ASSUME UNCHANGED slice, calls' \in 0 .. MaxCalls, calls <= calls',
             \/ loop' = loop
             \/ \E l \in Loops : loop[l] = None /\ loop' = [loop EXCEPT ![l] = LoopFrom(1)]
             \/ \E l \in Loops : loop[l] # None /\ More(l) /\ Invoke(l)
             \/ \E l \in Loops : ~More(l) /\ LoopEnds(l)
      PROVE  /\ PoolOK' /\ LoopInv'
             /\ \A l \in Loops : Same(l) \/ GoesOn(l) \/ Ends(l) \/ Begins(l)
  <2>1. PoolOK'
    <3>1. pool.len \in Nat /\ Len(Applied) \in Nat /\ calls \in Nat /\ calls' \in Nat
          /\ pool.len <= Len(Applied) + calls
      BY <1>1, <1>4, EventsAssumption, LenProperties DEF PoolOK
    <3>2. pool.len <= Len(Applied) + calls'
      BY <1>4, <3>1
    <3> QED BY <1>1, <1>4, <3>2 DEF PoolOK, slice
  <2>2. LoopInv'
    BY <1>1, <1>4, LoopStep
  <2>3. ASSUME NEW k \in Loops
        PROVE  Same(k) \/ GoesOn(k) \/ Ends(k) \/ Begins(k)
    <3>1. CASE loop' = loop
      BY <3>1 DEF Same
    <3>2. ASSUME NEW l \in Loops, loop[l] = None, loop' = [loop EXCEPT ![l] = LoopFrom(1)]
          PROVE  Same(k) \/ Begins(k)
      BY <1>1, <3>2 DEF Same, Begins, LoopInv
    <3>3. ASSUME NEW l \in Loops, loop[l] # None, More(l), Invoke(l)
          PROVE  Same(k) \/ GoesOn(k)
      BY <1>1, <3>3, InvokeFacts DEF Same, GoesOn
    <3>4. ASSUME NEW l \in Loops, ~More(l), LoopEnds(l)
          PROVE  Same(k) \/ Ends(k)
      BY <1>1, <3>4 DEF Same, Ends, LoopEnds, LoopInv
    <3> QED BY <1>4, <3>1, <3>2, <3>3, <3>4
  <2> QED BY <2>1, <2>2, <2>3
<1>5. calls \in 0 .. MaxCalls /\ MaxCalls \in Nat
  BY <1>1, EventsAssumption DEF PoolOK
<1>6. CASE UNCHANGED vars
  BY <1>4, <1>5, <1>6 DEF vars
<1>7. CASE Read
  <2>1. CASE TriggerHandlers
    <3>1. loop["message"] = None
      BY <1>1, <2>1 DEF TriggerHandlers, ReaderInv
    <3>2. UNCHANGED <<slice, calls>> /\ loop' = [loop EXCEPT !["message"] = LoopFrom(1)]
      BY <2>1 DEF TriggerHandlers
    <3>3. \E l \in Loops : loop[l] = None /\ loop' = [loop EXCEPT ![l] = LoopFrom(1)]
      BY <1>2, <3>1, <3>2
    <3>4. UNCHANGED slice /\ calls' \in 0 .. MaxCalls /\ calls <= calls'
      BY <1>5, <3>2
    <3> QED BY <1>4, <3>3, <3>4
  <2>2. CASE MessageHandler
    <3>1. loop["message"] # None
      BY <1>1, <2>2 DEF MessageHandler, ReaderInv
    <3> QED BY <1>2, <1>4, <1>5, <2>2, <3>1 DEF MessageHandler
  <2>3. CASE Triggered
    BY <1>2, <1>4, <1>5, <2>3 DEF Triggered
  <2>4. CASE Start \/ EnterLoop \/ (\E mapped \in BOOLEAN : ReadMessage(mapped))
             \/ LeaveLoop \/ Return
    <3>1. UNCHANGED <<slice, calls, loop>>
      BY <2>4 DEF Start, EnterLoop, ReadMessage, LeaveLoop, Return
    <3> QED BY <1>4, <1>5, <3>1
  <2> QED BY <1>7, <2>1, <2>2, <2>3, <2>4 DEF Read
<1>8. ASSUME NEW t \in Threads, LockStatus(t)
      PROVE  /\ PoolOK' /\ LoopInv'
             /\ \A l \in Loops : Same(l) \/ GoesOn(l) \/ Ends(l) \/ Begins(l)
  <2>1. loop["status"] = None
    BY <1>1, <1>8 DEF LockStatus, StatusInv
  <2>2. UNCHANGED <<slice, calls>>
        /\ (loop' = loop \/ loop' = [loop EXCEPT !["status"] = LoopFrom(1)])
    BY <1>8 DEF LockStatus, SameStatus, NewStatus
  <2> QED BY <1>2, <1>4, <1>5, <2>1, <2>2
<1>9. CASE PongLate \/ PongBack \/ \E t \in Threads : Close(t)
  <2>1. UNCHANGED <<slice, loop>> /\ calls < MaxCalls /\ calls' = calls + 1
    BY <1>9 DEF PongLate, PongBack, Close, Call
  <2> QED BY <1>4, <1>5, <2>1
<1>10. CASE StatusHandler
  BY <1>2, <1>4, <1>5, <1>10 DEF StatusHandler
<1>11. CASE UnlockStatus
  BY <1>2, <1>4, <1>5, <1>11 DEF UnlockStatus
<1>12. CASE HandlerReturns
  BY <1>4, <1>5, <1>12 DEF HandlerReturns
<1> QED BY <1>3, <1>6, <1>7, <1>8, <1>9, <1>10, <1>11, <1>12 DEF Next

\* The status and its lock.
LEMMA StatusKeeps ==
  ASSUME EventsInv, [Next]_vars
  PROVE  StatusInv'
<1>1. PoolOK /\ LoopInv /\ StatusInv /\ ReaderInv
  BY DEF EventsInv
<1>2. "status" \in Loops /\ "message" \in Loops /\ "status" # "message"
  BY DEF Loops
<1>3. ASSUME UNCHANGED <<status, asks, holder, ready>>,
             loop["status"] = None => loop'["status"] = None
      PROVE  StatusInv'
  BY <1>1, <1>3 DEF StatusInv
<1>4. ASSUME NEW t, NEW s \in Statuses \ {"YetReady"}, Ask(t, s),
             UNCHANGED <<status, holder, loop, ready>>
      PROVE  StatusInv'
  BY <1>1, <1>4 DEF StatusInv, Ask
<1>5. ASSUME NEW h \in Handlers, Apply(h) \/ Revoke(h)
      PROVE  StatusInv'
  <2>1. loop["status"] = None => loop'["status"] = None
    BY <1>2, <1>5 DEF Apply, Revoke, EachLoop
  <2> QED BY <1>3, <1>5, <2>1 DEF Apply, Revoke
<1>6. ASSUME NEW t \in Threads, LockStatus(t)
      PROVE  StatusInv'
  <2>1. asks[t] \in Statuses \ {"YetReady"} /\ t # None
    BY <1>1, <1>6, NoneAssumption DEF LockStatus, Waits, StatusInv
  <2>2. CASE SameStatus(t)
    BY <1>1, <2>1, <2>2 DEF SameStatus, StatusInv
  <2>3. CASE NewStatus(t)
    <3>1. holder' = t /\ status' = asks[t] /\ asks' = asks
      BY <2>3 DEF NewStatus
    <3>2. ready' \in {0, 1}
      BY <1>1, <2>3 DEF NewStatus, StatusInv, OnReadyRuns
    <3> QED BY <1>1, <2>1, <3>1, <3>2 DEF StatusInv
  <2> QED BY <1>6, <2>2, <2>3 DEF LockStatus
<1>7. CASE StatusHandler
  <2>1. UNCHANGED <<status, asks, holder, ready>> /\ loop["status"] # None
    BY <1>7 DEF StatusHandler
  <2> QED BY <1>3, <2>1
<1>8. CASE UnlockStatus
  <2>1. /\ UNCHANGED <<status, ready>> /\ loop' = [loop EXCEPT !["status"] = None]
        /\ asks' = [asks EXCEPT ![holder] = None]
    BY <1>8 DEF UnlockStatus, LoopEnds
  <2>2. loop'["status"] = None
    BY <1>1, <1>2, <2>1 DEF LoopInv
  <2>3. asks' \in [Threads -> (Statuses \ {"YetReady"}) \cup {None}]
    BY <1>1, <2>1 DEF StatusInv
  <2> QED BY <1>1, <2>1, <2>2, <2>3 DEF StatusInv
<1>9. ASSUME NEW t \in Threads, Close(t)
      PROVE  StatusInv'
  BY <1>4, <1>9 DEF Close, Statuses
<1>10. CASE PongLate \/ PongBack \/ Start \/ LeaveLoop
  BY <1>4, <1>10 DEF PongLate, PongBack, Start, LeaveLoop, Statuses
<1>11. CASE TriggerHandlers \/ MessageHandler \/ Triggered
  <2>1. UNCHANGED <<status, asks, holder, ready>> /\ loop'["status"] = loop["status"]
    BY <1>1, <1>2, <1>11 DEF TriggerHandlers, MessageHandler, Triggered, Invoke, LoopEnds, LoopInv
  <2> QED BY <1>3, <2>1
<1>12. CASE EnterLoop \/ (\E mapped \in BOOLEAN : ReadMessage(mapped)) \/ Return
            \/ HandlerReturns \/ UNCHANGED vars
  <2>1. UNCHANGED <<status, asks, holder, ready, loop>>
    BY <1>12 DEF EnterLoop, ReadMessage, Return, HandlerReturns, vars
  <2> QED BY <1>3, <2>1
<1> QED
  BY <1>5, <1>6, <1>7, <1>8, <1>9, <1>10, <1>11, <1>12 DEF Next, Read

\* Where the reader is.
LEMMA ReaderKeeps ==
  ASSUME EventsInv, [Next]_vars
  PROVE  ReaderInv'
<1>1. PoolOK /\ LoopInv /\ StatusInv /\ ReaderInv
  BY DEF EventsInv
<1>2. "status" \in Loops /\ "message" \in Loops /\ "status" # "message"
  BY DEF Loops
<1>3. ASSUME reader' = reader, loop["message"] = None <=> loop'["message"] = None
      PROVE  ReaderInv'
  BY <1>1, <1>3 DEF ReaderInv
<1>4. ASSUME NEW h \in Handlers, Apply(h) \/ Revoke(h)
      PROVE  ReaderInv'
  <2>1. LoopInv'
    BY <1>1, <1>4, ApplyKeeps, RevokeKeeps
  <2>2. loop["message"] = None <=> loop'["message"] = None
    BY <1>1, <1>2, <1>4, <2>1, LoopsGoOn
  <2> QED BY <1>3, <1>4, <2>2 DEF Apply, Revoke
<1>5. CASE StatusHandler \/ UnlockStatus \/ \E t \in Threads : LockStatus(t)
  <2>1. reader' = reader /\ loop'["message"] = loop["message"]
    BY <1>1, <1>2, <1>5 DEF StatusHandler, UnlockStatus, LockStatus, SameStatus, NewStatus,
       Invoke, LoopEnds, LoopInv
  <2> QED BY <1>3, <2>1
<1>6. CASE PongLate \/ PongBack \/ (\E t \in Threads : Close(t)) \/ HandlerReturns \/ UNCHANGED vars
  <2>1. UNCHANGED <<reader, loop>>
    BY <1>6 DEF PongLate, PongBack, Close, HandlerReturns, vars
  <2> QED BY <1>3, <2>1
<1>7. CASE Start \/ EnterLoop \/ (\E mapped \in BOOLEAN : ReadMessage(mapped))
           \/ LeaveLoop \/ Return
  <2>1. loop' = loop /\ reader # "range" /\ reader' # "range"
    BY <1>7 DEF Start, EnterLoop, ReadMessage, LeaveLoop, Return
  <2> QED BY <1>1, <2>1 DEF ReaderInv
<1>8. CASE TriggerHandlers
  <2>1. reader' = "range" /\ loop'["message"] = LoopFrom(1)
    BY <1>1, <1>2, <1>8 DEF TriggerHandlers, LoopInv
  <2>2. LoopFrom(1) # None
    BY <1>1, LoopBegins, NoneAssumption DEF LoopOK
  <2> QED BY <2>1, <2>2 DEF ReaderInv
<1>9. CASE MessageHandler
  <2>1. reader = "range" /\ reader' = reader /\ Invoke("message") /\ More("message")
    BY <1>9 DEF MessageHandler
  <2>2. loop["message"] # None /\ loop'["message"] # None
    BY <1>1, <1>2, <2>1, InvokeFacts DEF ReaderInv
  <2> QED BY <1>3, <2>1, <2>2
<1>10. CASE Triggered
  <2>1. reader' = "read" /\ loop'["message"] = None
    BY <1>1, <1>2, <1>10 DEF Triggered, LoopEnds, LoopInv
  <2> QED BY <2>1 DEF ReaderInv
<1> QED
  BY <1>4, <1>5, <1>6, <1>7, <1>8, <1>9, <1>10 DEF Next, Read

\* The first states.
LEMMA InitEvents ==
  ASSUME Init
  PROVE  EventsInv
<1>1. PICK n \in 0 .. Len(Applied) : /\ arrays = <<Stored(SubSeq(Applied, 1, n))>>
                                     /\ pool = [array |-> 1, len |-> n]
  BY DEF Init
<1>2. PICK hs \in Seq(Handlers) : hs = SubSeq(Applied, 1, n) /\ Len(hs) = n
  <2>1. PICK o \in Seq(Handlers) : o = Applied
    BY EventsAssumption
  <2>2. n \in 0 .. Len(o)
    BY <2>1
  <2>3. SubSeq(o, 1, n) \in Seq(Handlers) /\ Len(SubSeq(o, 1, n)) = n
    BY <2>2, PrefixFacts
  <2> QED BY <2>1, <2>3
<1>3. Len(Applied) \in Nat /\ MaxCalls \in Nat /\ calls = 0
  BY EventsAssumption, LenProperties DEF Init
<1>4. PICK a \in Seq(Cell) : /\ arrays = <<a>> /\ n <= Len(a)
                             /\ \A j \in 1 .. n : a[j] \in Handlers
  <2>1. Len(hs) <= Len(Applied) + MaxCalls /\ Len(hs) = n
    BY <1>2, <1>3
  <2>2. /\ Stored(hs) \in Seq(Cell) /\ Len(hs) <= Len(Stored(hs))
        /\ \A j \in 1 .. Len(hs) : Stored(hs)[j] \in Handlers
    BY <2>1, StoredFacts
  <2> QED BY <1>1, <1>2, <2>1, <2>2
<1>5. PoolOK
  <2>1. arrays \in Seq(Seq(Cell)) /\ Len(arrays) = 1 /\ arrays[1] = a
    BY <1>4
  <2>2. pool.array = 1 /\ pool.len = n /\ pool \in [array : 1 .. 1, len : Nat]
    BY <1>1
  <2> QED BY <1>3, <1>4, <2>1, <2>2 DEF PoolOK
<1>6. LoopInv /\ loop["status"] = None /\ loop["message"] = None
  BY DEF Init, LoopInv, Loops
<1>7. StatusInv
  BY <1>6 DEF Init, StatusInv, Statuses
<1>8. ReaderInv
  BY <1>6 DEF Init, ReaderInv
<1> QED BY <1>5, <1>6, <1>7, <1>8 DEF EventsInv

(***************************************************************************)
(* EventsInv holds in every state.                                         *)
(***************************************************************************)
THEOREM EventsInvariant == Spec => []EventsInv
<1>1. Init => EventsInv
  BY InitEvents
<1>2. EventsInv /\ [Next]_vars => EventsInv'
  <2> SUFFICES ASSUME EventsInv, [Next]_vars
               PROVE  EventsInv'
    OBVIOUS
  <2>1. PoolOK' /\ LoopInv'
    BY LoopMoves
  <2>2. StatusInv' /\ ReaderInv'
    BY StatusKeeps, ReaderKeeps
  <2> QED BY <2>1, <2>2 DEF EventsInv
<1> QED BY <1>1, <1>2, PTL DEF Spec

-----------------------------------------------------------------------------
(* What it gives. *)

(***************************************************************************)
(* No loop of updateStatus or triggerMessage ever invokes an empty cell or *)
(* a handler that was not in eventPool since the loop began, wherever      *)
(* append puts the cells and whatever Revoke shifts.                       *)
(***************************************************************************)
THEOREM NoStrangerTheorem == Spec => []NoStranger
<1>1. EventsInv => NoStranger
  BY CellsFacts DEF EventsInv, LoopInv, LoopOK, NoStranger
<1> QED BY <1>1, EventsInvariant, PTL

(***************************************************************************)
(* The action of OnReady runs once at most.                                *)
(***************************************************************************)
THEOREM OnReadyOnceTheorem == Spec => []OnReadyOnce
<1>1. EventsInv => OnReadyOnce
  BY DEF EventsInv, StatusInv, OnReadyOnce
<1> QED BY <1>1, EventsInvariant, PTL

\* What a loop without a Revoke on its array has invoked.
DidInOrder ==
  \A l \in Loops : loop[l] # None /\ ~loop[l].shifted =>
    IsPrefix(loop[l].did, loop[l].over) /\ (~More(l) => loop[l].did = loop[l].over)

\* It is the beginning of what the loop goes over, or all of it.
LEMMA DidFacts == LoopInv => DidInOrder
<1> SUFFICES ASSUME LoopInv, NEW l \in Loops, loop[l] # None, ~loop[l].shifted
             PROVE  /\ IsPrefix(loop[l].did, loop[l].over)
                    /\ ~More(l) => loop[l].did = loop[l].over
  BY DEF DidInOrder
<1>1. PICK r : r = loop[l] /\ LoopOK(r)
  BY DEF LoopInv
<1>2. PICK o \in Seq(Handlers) : o = r.over /\ Len(o) \in Nat
  BY <1>1, LenProperties DEF LoopOK, LoopType
<1>3. PICK n \in 0 .. Len(o) : n = r.next - 1 /\ r.next \in Nat
  BY <1>1, <1>2 DEF LoopOK
<1>4. r.did = SubSeq(o, 1, n)
  BY <1>1, <1>2, <1>3 DEF LoopOK
<1>5. IsPrefix(SubSeq(o, 1, n), o) /\ SubSeq(o, 1, Len(o)) = o
  BY <1>2, <1>3, PrefixFacts
<1>6. ~More(l) => n = Len(o)
  BY <1>1, <1>2, <1>3 DEF More, Header
<1> QED BY <1>1, <1>2, <1>4, <1>5, <1>6

(***************************************************************************)
(* A loop whose array no Revoke has shifted invokes the handlers that were *)
(* there when it began, each once and in their order.                      *)
(***************************************************************************)
THEOREM UndisturbedTheorem == Spec => UndisturbedLoopIsWhole
<1> DEFINE Whole == \A l \in Loops : loop[l] # None /\ loop'[l] # loop[l] /\ ~loop[l].shifted =>
                     IF loop'[l] = None THEN loop[l].did = loop[l].over
                                        ELSE IsPrefix(loop'[l].did, loop[l].over)
<1>1. EventsInv /\ DidInOrder /\ DidInOrder' /\ [Next]_vars => [Whole]_vars
  <2> SUFFICES ASSUME EventsInv, DidInOrder, DidInOrder', [Next]_vars, NEW l \in Loops,
                      loop[l] # None, loop'[l] # loop[l], ~loop[l].shifted
               PROVE  IF loop'[l] = None THEN loop[l].did = loop[l].over
                                         ELSE IsPrefix(loop'[l].did, loop[l].over)
    OBVIOUS
  <2>1. GoesOn(l) \/ Ends(l)
    BY LoopMoves DEF Same, Begins
  <2>2. IsPrefix(loop[l].did, loop[l].over) /\ (~More(l) => loop[l].did = loop[l].over)
    BY DEF DidInOrder
  <2>3. loop'[l] # None /\ ~loop'[l].shifted => IsPrefix(loop'[l].did, loop'[l].over)
    BY DEF DidInOrder
  <2> QED BY <2>1, <2>2, <2>3 DEF GoesOn, Ends
<1>2. EventsInv => DidInOrder
  BY DidFacts DEF EventsInv
<1> QED BY <1>1, <1>2, EventsInvariant, PTL DEF Spec, UndisturbedLoopIsWhole
=============================================================================

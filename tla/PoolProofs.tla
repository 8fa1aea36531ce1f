------------------------------ MODULE PoolProofs ------------------------------
(***************************************************************************)
(* What holds of Pool for every set of connections and names, every size   *)
(* and every number of retries: its tables agree, and what Close may rely  *)
(* on when it returns.                                                     *)
(***************************************************************************)
EXTENDS Pool, TLAPS, SequenceTheorems, FiniteSetTheorems, WellFoundedInduction

(***************************************************************************)
(* Membership: a connection has a name from Add on, what CastOut and       *)
(* CastOutByName deal with has been accepted, and so has every entry,      *)
(* which is found under the name of its connection.                        *)
(***************************************************************************)
MemberInv ==
  /\ entryMap \in [Names -> Conns \cup {NoConn}]
  /\ name \in [Conns -> Names \cup {NoName}]
  /\ run \in [Conns -> Places]
  /\ closer \in {"idle", "lock", "closing", "wait", "done"}
  /\ late \in BOOLEAN
  /\ \A c \in Conns : run[c] = "out" <=> name[c] = NoName
  /\ cast \subseteq Accepted
  /\ found \in Accepted \cup {NoConn}
  /\ \A n \in Names : entryMap[n] # NoConn => entryMap[n] \in Accepted /\ name[entryMap[n]] = n

\* The part of TablesAgree that speaks of the map.
MapInv ==
  \A c \in Accepted : Renewed(name[c]) \/ (Running(c) <=> entryMap[name[c]] = c)

\* The parts that speak of the lists and of the handlers; no list names a connection
\* twice, since the application adds each one once.
Listed(c) == c \in ToSet(ListOf(c))

ListInv ==
  /\ clients \in Seq(Clients) /\ IsInjective(clients)
  /\ servers \in Seq(Conns \ Clients) /\ IsInjective(servers)
  /\ ToSet(clients) \subseteq Accepted /\ ToSet(servers) \subseteq Accepted
  /\ applied \subseteq Accepted
  /\ \A c \in Accepted :
       Renewed(name[c]) \/ ((Running(c) <=> c \in applied) /\ (Running(c) <=> Listed(c)))

PoolInv == MemberInv /\ MapInv /\ ListInv /\ CloseWaits

-----------------------------------------------------------------------------
(* Lists. *)

\* A set of numbers that is not empty has a least element.
LEMMA LeastOf ==
  ASSUME NEW T, T \subseteq Nat, T # {}
  PROVE  \E n \in T : \A k \in T : n <= k
<1> DEFINE U == {0 .. n : n \in T}
<1>1. U \subseteq FiniteSubsetsOf(Nat)
  <2>1. \A n \in T : IsFiniteSet(0 .. n) /\ 0 .. n \subseteq Nat
    BY FS_Interval
  <2> QED BY <2>1 DEF FiniteSubsetsOf
<1>2. U # {}
  OBVIOUS
<1>3. PICK X \in U : \A Y \in U : ~(<<Y, X>> \in StrictSubsetOrdering(Nat))
  <2> HIDE DEF U
  <2> QED BY <1>1, <1>2, WFMin, FS_StrictSubsetOrderingWellFounded
<1>4. PICK n \in T : X = 0 .. n
  OBVIOUS
<1>5. ASSUME NEW k \in T, k < n PROVE FALSE
  <2>1. 0 .. k \in U /\ 0 .. k \subseteq 0 .. n /\ n \in 0 .. n /\ n \notin 0 .. k
    BY <1>5
  <2>2. 0 .. k \in SUBSET Nat /\ 0 .. n \in SUBSET Nat
    OBVIOUS
  <2> QED BY <1>3, <1>4, <2>1, <2>2 DEF StrictSubsetOrdering
<1> QED BY <1>5

\* What is in a list.
LEMMA ElementsOf ==
  ASSUME NEW S, NEW s \in Seq(S)
  PROVE  ToSet(s) \subseteq S
BY DEF ToSet

\* A list in which every element occurs once, without its i-th element.
LEMMA RemovedFacts ==
  ASSUME NEW S, NEW s \in Seq(S), IsInjective(s), NEW i \in 1 .. Len(s)
  PROVE  /\ RemoveAt(s, i) \in Seq(S) /\ IsInjective(RemoveAt(s, i))
         /\ ToSet(RemoveAt(s, i)) = ToSet(s) \ {s[i]}
<1>1. PICK n \in Nat : n = Len(s) /\ DOMAIN s = 1 .. n
  OBVIOUS
<1>2. PICK a \in Seq(S) : /\ a = SubSeq(s, 1, i - 1) /\ Len(a) = i - 1
                          /\ \A j \in 1 .. i - 1 : a[j] = s[j]
  <2>1. \A j \in 1 .. i - 1 : s[j] \in S
    BY <1>1
  <2>2. /\ SubSeq(s, 1, i - 1) \in Seq(S)
        /\ Len(SubSeq(s, 1, i - 1)) = IF 1 <= i - 1 THEN (i - 1) - 1 + 1 ELSE 0
        /\ \A j \in 1 .. (i - 1) - 1 + 1 : SubSeq(s, 1, i - 1)[j] = s[1 + j - 1]
    BY <1>1, <2>1, SubSeqProperties
  <2>3. \A j \in 1 .. i - 1 : j \in 1 .. (i - 1) - 1 + 1 /\ 1 + j - 1 = j
    BY <1>1
  <2>4. Len(SubSeq(s, 1, i - 1)) = i - 1
    BY <1>1, <2>2
  <2> QED BY <2>2, <2>3, <2>4
<1>3. PICK b \in Seq(S) : /\ b = SubSeq(s, i + 1, n) /\ Len(b) = n - i
                          /\ \A j \in 1 .. n - i : b[j] = s[j + i]
  <2>1. \A j \in i + 1 .. n : s[j] \in S
    BY <1>1
  <2>2. /\ SubSeq(s, i + 1, n) \in Seq(S)
        /\ Len(SubSeq(s, i + 1, n)) = IF i + 1 <= n THEN n - (i + 1) + 1 ELSE 0
        /\ \A j \in 1 .. n - (i + 1) + 1 : SubSeq(s, i + 1, n)[j] = s[i + 1 + j - 1]
    BY <1>1, <2>1, SubSeqProperties
  <2>3. \A j \in 1 .. n - i : j \in 1 .. n - (i + 1) + 1 /\ i + 1 + j - 1 = j + i
    BY <1>1
  <2>4. Len(SubSeq(s, i + 1, n)) = n - i
    BY <1>1, <2>2
  <2> QED BY <2>2, <2>3, <2>4
<1>4. PICK t : t = RemoveAt(s, i) /\ t = a \o b
  BY <1>1, <1>2, <1>3 DEF RemoveAt
<1>5. /\ t \in Seq(S) /\ DOMAIN t = 1 .. n - 1
      /\ \A j \in 1 .. n - 1 : t[j] = IF j < i THEN s[j] ELSE s[j + 1]
  <2>1. /\ t \in Seq(S) /\ Len(t) = n - 1
        /\ \A j \in 1 .. n - 1 : t[j] = IF j <= i - 1 THEN a[j] ELSE b[j - (i - 1)]
    <3>1. /\ a \o b \in Seq(S) /\ Len(a \o b) = Len(a) + Len(b)
          /\ \A j \in 1 .. Len(a) + Len(b) :
               (a \o b)[j] = IF j <= Len(a) THEN a[j] ELSE b[j - Len(a)]
      BY ConcatProperties
    <3>2. Len(a) = i - 1 /\ Len(b) = n - i /\ i \in 1 .. n
      BY <1>1, <1>2, <1>3
    <3>3. Len(a) + Len(b) = n - 1
      BY <3>2
    <3> QED BY <1>4, <3>1, <3>2, <3>3
  <2>2. \A j \in 1 .. n - 1 : IF j < i THEN j \in 1 .. i - 1
                               ELSE j - (i - 1) \in 1 .. n - i /\ j - (i - 1) + i = j + 1
    BY <1>1
  <2> QED BY <1>1, <1>2, <1>3, <2>1, <2>2, LenProperties
<1>6. \A k \in 1 .. n : k # i => \E j \in 1 .. n - 1 : k = IF j < i THEN j ELSE j + 1
  <2> SUFFICES ASSUME NEW k \in 1 .. n, k # i
               PROVE  \E j \in 1 .. n - 1 : k = IF j < i THEN j ELSE j + 1
    OBVIOUS
  <2>1. CASE k < i
    <3>1. k \in 1 .. n - 1
      BY <1>1, <2>1
    <3> QED BY <2>1, <3>1
  <2>2. CASE k > i
    <3>1. k - 1 \in 1 .. n - 1 /\ ~(k - 1 < i) /\ k = k - 1 + 1
      BY <1>1, <2>2
    <3> QED BY <3>1
  <2> QED BY <1>1, <2>1, <2>2
<1>7. \A j \in 1 .. n - 1 : IF j < i THEN j \in 1 .. n /\ j # i ELSE j + 1 \in 1 .. n /\ j + 1 # i
  BY <1>1
<1>8. \A j, k \in 1 .. n : s[j] = s[k] => j = k
  BY <1>1 DEF IsInjective
<1>9. IsInjective(t)
  <2> SUFFICES ASSUME NEW j \in 1 .. n - 1, NEW k \in 1 .. n - 1, t[j] = t[k]
               PROVE  j = k
    BY <1>5 DEF IsInjective
  <2> QED BY <1>1, <1>5, <1>7, <1>8
<1>10. ToSet(t) = ToSet(s) \ {s[i]}
  <2>1. \A j \in 1 .. n - 1 : \E k \in 1 .. n : t[j] = s[k] /\ k # i
    BY <1>1, <1>5, <1>7
  <2>2. \A k \in 1 .. n : k # i => \E j \in 1 .. n - 1 : t[j] = s[k]
    BY <1>5, <1>6
  <2>3. ToSet(t) = {t[j] : j \in 1 .. n - 1} /\ ToSet(s) = {s[k] : k \in 1 .. n}
    BY <1>1, <1>5 DEF ToSet
  <2>4. \A j \in 1 .. n - 1 : t[j] \in ToSet(s) \ {s[i]}
    BY <1>1, <1>8, <2>1, <2>3
  <2>5. \A e \in ToSet(s) \ {s[i]} : e \in ToSet(t)
    BY <2>2, <2>3
  <2> QED BY <2>3, <2>4, <2>5
<1> QED BY <1>4, <1>5, <1>9, <1>10

\* A list in which every element occurs once, with one more.
LEMMA AppendedFacts ==
  ASSUME NEW S, NEW s \in Seq(S), IsInjective(s), NEW e \in S, e \notin ToSet(s)
  PROVE  /\ Append(s, e) \in Seq(S) /\ IsInjective(Append(s, e))
         /\ ToSet(Append(s, e)) = ToSet(s) \cup {e}
<1>1. PICK n \in Nat : n = Len(s) /\ DOMAIN s = 1 .. n
  OBVIOUS
<1>2. PICK t \in Seq(S) : /\ t = Append(s, e) /\ DOMAIN t = 1 .. n + 1 /\ t[n + 1] = e
                          /\ \A j \in 1 .. n : t[j] = s[j]
  <2>1. /\ Append(s, e) \in Seq(S) /\ Len(Append(s, e)) = n + 1 /\ Append(s, e)[n + 1] = e
        /\ \A j \in 1 .. n : Append(s, e)[j] = s[j]
    BY <1>1, AppendProperties
  <2> QED BY <2>1, LenProperties
<1>3. \A j \in 1 .. n + 1 : j = n + 1 \/ j \in 1 .. n
  BY <1>1
<1>4. \A j \in 1 .. n : s[j] # e
  BY <1>1 DEF ToSet
<1>5. IsInjective(t)
  BY <1>1, <1>2, <1>3, <1>4 DEF IsInjective
<1>6. ToSet(t) = ToSet(s) \cup {e}
  <2>1. \A j \in 1 .. n : j \in 1 .. n + 1
    BY <1>1
  <2>2. n + 1 \in 1 .. n + 1
    BY <1>1
  <2> QED BY <1>1, <1>2, <1>3, <2>1, <2>2 DEF ToSet
<1> QED BY <1>2, <1>5, <1>6

\* remove takes the first connection of that name off the list, if there is one.
LEMMA WithoutFacts ==
  ASSUME NEW S, NEW s \in Seq(S), IsInjective(s), NEW n
  PROVE  /\ WithoutName(s, n) \in Seq(S) /\ IsInjective(WithoutName(s, n))
         /\ \/ WithoutName(s, n) = s /\ \A d \in ToSet(s) : name[d] # n
            \/ \E d \in ToSet(s) : name[d] = n /\ ToSet(WithoutName(s, n)) = ToSet(s) \ {d}
<1> DEFINE I == {i \in 1 .. Len(s) : name[s[i]] = n}
<1>1. PICK i : i = SelectInSeq(s, LAMBDA d : name[d] = n) /\ i = IF I # {} THEN Min(I) ELSE 0
  BY DEF SelectInSeq
<1>2. WithoutName(s, n) = IF i = 0 THEN s ELSE RemoveAt(s, i)
  BY <1>1 DEF WithoutName
<1>3. DOMAIN s = 1 .. Len(s)
  OBVIOUS
<1>4. CASE I = {}
  BY <1>1, <1>2, <1>3, <1>4 DEF ToSet
<1>5. CASE I # {}
  <2>1. I \subseteq Nat
    OBVIOUS
  <2>2. \E k \in I : \A j \in I : k <= j
    <3> HIDE DEF I
    <3> QED BY <1>5, <2>1, LeastOf
  <2>3. i \in I
    <3> HIDE DEF I
    <3> QED BY <1>1, <1>5, <2>2 DEF Min
  <2>4. i \in 1 .. Len(s) /\ name[s[i]] = n /\ i # 0 /\ s[i] \in ToSet(s)
    BY <1>3, <2>3 DEF ToSet
  <2> QED BY <1>2, <2>4, RemovedFacts
<1> QED BY <1>4, <1>5

-----------------------------------------------------------------------------
\* What a step does to the variables of the invariant when no member comes or goes.
Quiet ==
  /\ UNCHANGED <<entryMap, clients, servers, applied, name, cast, late>>
  /\ run' \in [Conns -> Places]
  /\ \A c \in Conns : (c \in Accepted)' <=> c \in Accepted
  /\ \A c \in Conns : run'[c] = "out" <=> run[c] = "out"
  /\ \A c \in Conns : run'[c] = "gone" <=> run[c] = "gone"

\* Where a connection has been accepted it has a name.
LEMMA NameOfMember ==
  ASSUME MemberInv, NEW c \in Accepted
  PROVE  c \in Conns /\ name[c] \in Names /\ run[c] \in Places /\ c # NoConn
BY PoolAssumption DEF MemberInv, Accepted

\* A name that has been given anew stays so.
LEMMA RenewedStays ==
  ASSUME MemberInv, NEW n \in Names, Renewed(n), cast \subseteq cast',
         \A c \in Conns : run[c] # "out" => name'[c] = name[c]
  PROVE  Renewed(n)'
<1>1. PICK c \in cast, d \in Conns : c # d /\ name[c] = n /\ name[d] = n
  BY DEF Renewed
<1>2. c \in Conns /\ run[c] # "out" /\ run[d] # "out"
  BY <1>1, PoolAssumption DEF MemberInv, Accepted
<1>3. c \in cast' /\ name'[c] = n /\ name'[d] = n
  BY <1>1, <1>2
<1> QED BY <1>1, <1>3 DEF Renewed

\* A step in which no member comes or goes keeps the invariant.
LEMMA QuietStep ==
  ASSUME PoolInv, Quiet,
         closer' \in {"idle", "lock", "closing", "wait", "done"},
         closer' = "done" => closer = "done" \/ Entries = {},
         found' \in Accepted \cup {NoConn}
  PROVE  PoolInv'
<1>1. MemberInv /\ MapInv /\ ListInv /\ CloseWaits
  BY DEF PoolInv
<1>2. \A c \in Conns : Running(c)' <=> Running(c)
  BY DEF Quiet, Running
<1>3. Accepted' = Accepted
  BY DEF Quiet, Accepted
<1>4. \A n \in Names : Renewed(n)' <=> Renewed(n)
  BY DEF Quiet, Renewed
<1>5. MemberInv'
  BY <1>1, <1>3 DEF MemberInv, Quiet
<1>6. MapInv'
  BY <1>1, <1>2, <1>3, <1>4, NameOfMember DEF MapInv, Quiet
<1>7. CloseWaits'
  <2> SUFFICES ASSUME closer' = "done", ~late', NEW c \in Accepted'
               PROVE  (run[c] = "gone" \/ c \in cast \/ Renewed(name[c]))'
    BY DEF CloseWaits
  <2>1. c \in Accepted /\ c \in Conns /\ name[c] \in Names /\ ~late /\ name'[c] = name[c]
    BY <1>1, <1>3, NameOfMember DEF Quiet
  <2>2. CASE closer = "done"
    BY <1>1, <1>4, <2>1, <2>2 DEF CloseWaits, Quiet
  <2>3. CASE Entries = {}
    <3>1. entryMap[name[c]] # c
      BY <1>1, <2>1, <2>3, NameOfMember DEF Entries
    <3>2. Renewed(name[c]) \/ ~Running(c)
      BY <1>1, <2>1, <3>1 DEF MapInv
    <3>3. Renewed(name[c]) \/ run[c] = "gone" \/ c \in cast
      BY <2>1, <3>2 DEF Running
    <3> QED BY <1>4, <2>1, <3>3 DEF Quiet
  <2> QED BY <2>2, <2>3
<1>8. ListInv'
  <2>1. UNCHANGED <<clients, servers, applied, name>> /\ \A c \in Conns : Listed(c)' <=> Listed(c)
    BY DEF Quiet, Listed, ListOf
  <2>2. ASSUME NEW c \in Accepted', ~Renewed(name[c])'
        PROVE  (Running(c)' <=> c \in applied) /\ (Running(c)' <=> Listed(c)')
    <3>1. c \in Accepted /\ c \in Conns /\ name[c] \in Names
      BY <1>1, <1>3, NameOfMember
    <3>2. ~Renewed(name[c])
      BY <1>4, <2>1, <2>2, <3>1
    <3>3. (Running(c) <=> c \in applied) /\ (Running(c) <=> Listed(c))
      BY <1>1, <3>1, <3>2 DEF ListInv
    <3> QED BY <1>2, <2>1, <3>1, <3>3
  <2> QED BY <1>1, <1>3, <2>1, <2>2 DEF ListInv
<1> QED BY <1>5, <1>6, <1>7, <1>8 DEF PoolInv

(***************************************************************************)
(* remove, by the goroutine of c or by CastOut.  It goes by the name, but  *)
(* the entry it deletes is that of c unless the name has been given anew.  *)
(***************************************************************************)
LEMMA RemoveStep ==
  ASSUME PoolInv, NEW c \in Accepted, RemoveConn(c),
         name' = name, late' = late, closer' = closer,
         found' = found \/ found' = NoConn,
         \/ cast' = cast /\ run[c] = "remove" /\ run' = [run EXCEPT ![c] = "gone"]
         \/ cast' = cast \cup {c} /\ run' = run
  PROVE  PoolInv'
<1>1. MemberInv /\ MapInv /\ ListInv /\ CloseWaits
  BY DEF PoolInv
<1>2. c \in Conns /\ name[c] \in Names
  BY <1>1, NameOfMember
<1>3. /\ entryMap'[name[c]] = NoConn
      /\ \A n \in Names : n # name[c] => entryMap'[n] = entryMap[n]
      /\ entryMap' \in [Names -> Conns \cup {NoConn}]
  BY <1>1, <1>2 DEF RemoveConn, MemberInv
<1>4. Accepted' = Accepted /\ run' \in [Conns -> Places]
  BY <1>1, <1>2 DEF MemberInv, Accepted, Places
<1>5. ~Running(c)' /\ \A d \in Conns : d # c => (Running(d)' <=> Running(d))
  BY <1>1, <1>2, <1>4 DEF Running, MemberInv
<1>6. \A n \in Names : Renewed(n) => Renewed(n)'
  BY <1>1, RenewedStays
<1>7. \A d \in Conns : run'[d] = "out" <=> run[d] = "out"
  BY <1>1, <1>2 DEF MemberInv, Accepted
<1>8. MemberInv'
  <2>1. cast' \subseteq Accepted' /\ found' \in Accepted' \cup {NoConn}
    BY <1>1, <1>4 DEF MemberInv
  <2>2. \A n \in Names :
          entryMap'[n] # NoConn => entryMap'[n] \in Accepted' /\ name'[entryMap'[n]] = n
    BY <1>1, <1>3, <1>4 DEF MemberInv
  <2> QED BY <1>1, <1>3, <1>4, <1>7, <2>1, <2>2 DEF MemberInv
<1>9. MapInv'
  <2> SUFFICES ASSUME NEW d \in Accepted', ~Renewed(name[d])'
               PROVE  (Running(d) <=> entryMap[name[d]] = d)'
    BY DEF MapInv
  <2>1. d \in Accepted /\ d \in Conns /\ name[d] \in Names /\ name'[d] = name[d]
        /\ d # NoConn
    BY <1>1, <1>4, NameOfMember
  <2>2. ~Renewed(name[d])
    BY <1>6, <2>1
  <2>3. Running(d) <=> entryMap[name[d]] = d
    BY <1>1, <2>1, <2>2 DEF MapInv
  <2>4. CASE d = c
    BY <1>3, <1>5, <2>1, <2>4
  <2>5. CASE d # c /\ name[d] # name[c]
    BY <1>3, <1>5, <2>1, <2>3, <2>5
  <2>6. CASE d # c /\ name[d] = name[c]
    <3>1. c \notin cast /\ c \notin cast'
      BY <1>2, <2>1, <2>2, <2>6 DEF Renewed
    <3>2. run[c] = "remove"
      BY <3>1
    <3>3. Running(c)
      BY <3>1, <3>2 DEF Running
    <3>4. entryMap[name[d]] = c
      BY <1>1, <2>2, <2>6, <3>3 DEF MapInv
    <3> QED BY <1>3, <1>5, <2>1, <2>3, <2>6, <3>4
  <2> QED BY <2>4, <2>5, <2>6
<1>10. CloseWaits'
  <2> SUFFICES ASSUME closer' = "done", ~late', NEW d \in Accepted'
               PROVE  (run[d] = "gone" \/ d \in cast \/ Renewed(name[d]))'
    BY DEF CloseWaits
  <2>1. d \in Accepted /\ d \in Conns /\ name[d] \in Names /\ name'[d] = name[d]
    BY <1>1, <1>4, NameOfMember
  <2>2. run[d] = "gone" \/ d \in cast \/ Renewed(name[d])
    BY <1>1, <2>1 DEF CloseWaits
  <2>3. run[d] = "gone" => run'[d] = "gone"
    BY <1>1, <1>2, <2>1 DEF MemberInv
  <2> QED BY <1>6, <2>1, <2>2, <2>3
<1>11. ListInv'
  <2>1. PICK n \in Names : n = name[c]
    BY <1>2
  <2>2. /\ applied' = applied \ {c}
        /\ c \in Clients => clients' = WithoutName(clients, n) /\ servers' = servers
        /\ c \notin Clients => clients' = clients /\ servers' = WithoutName(servers, n)
    BY <2>1 DEF RemoveConn
  <2>3. /\ clients \in Seq(Clients) /\ IsInjective(clients)
        /\ servers \in Seq(Conns \ Clients) /\ IsInjective(servers)
        /\ ToSet(clients) \subseteq Accepted /\ ToSet(servers) \subseteq Accepted
        /\ applied \subseteq Accepted
    BY <1>1 DEF ListInv
  <2>4. /\ clients' \in Seq(Clients) /\ IsInjective(clients')
        /\ servers' \in Seq(Conns \ Clients) /\ IsInjective(servers')
    BY <2>2, <2>3, WithoutFacts
  <2>5. PICK l, m : l = ListOf(c) /\ m = WithoutName(l, n)
    OBVIOUS
  <2>6. \/ m = l /\ \A d \in ToSet(l) : name[d] # n
        \/ \E d \in ToSet(l) : name[d] = n /\ ToSet(m) = ToSet(l) \ {d}
    <3>1. IsInjective(l) /\ (l \in Seq(Clients) \/ l \in Seq(Conns \ Clients))
      BY <2>3, <2>5 DEF ListOf
    <3>2. CASE l \in Seq(Clients)
      BY <2>5, <3>1, <3>2, WithoutFacts
    <3>3. CASE l \in Seq(Conns \ Clients)
      BY <2>5, <3>1, <3>3, WithoutFacts
    <3> QED BY <3>1, <3>2, <3>3
  <2>7. /\ ToSet(l) \subseteq Accepted /\ ToSet(m) \subseteq ToSet(l)
        /\ ToSet(clients') \subseteq Accepted /\ ToSet(servers') \subseteq Accepted
    BY <2>2, <2>3, <2>5, <2>6 DEF ListOf
  <2>8. /\ ListOf(c)' = m
        /\ \A d \in Conns : (ListOf(d) = l /\ ListOf(d)' = m) \/ ListOf(d)' = ListOf(d)
    BY <2>2, <2>5 DEF ListOf
  <2>9. /\ \A d \in Conns : Listed(d)' => Listed(d)
        /\ \A d \in Conns : Listed(d) /\ ~Listed(d)' => name[d] = n
    <3> SUFFICES ASSUME NEW d \in Conns
                 PROVE  (Listed(d)' => Listed(d)) /\ (Listed(d) /\ ~Listed(d)' => name[d] = n)
      OBVIOUS
    <3>1. CASE ListOf(d)' = ListOf(d)
      BY <3>1 DEF Listed
    <3>2. CASE ListOf(d) = l /\ ListOf(d)' = m
      <4>1. \A e \in ToSet(l) : e \notin ToSet(m) => name[e] = n
        BY <2>6
      <4> QED BY <2>7, <3>2, <4>1 DEF Listed
    <3> QED BY <2>8, <3>1, <3>2
  <2>10. \A e \in ToSet(l) : e \in Conns /\ Listed(e)
    <3>1. ToSet(clients) \subseteq Clients /\ ToSet(servers) \subseteq Conns \ Clients
      BY <2>3, ElementsOf
    <3> QED BY <2>5, <3>1, PoolAssumption DEF Listed, ListOf
  <2>11. \A d \in Accepted : name[d] = n /\ Running(d) /\ ~Renewed(n) => entryMap[n] = d
    BY <1>1 DEF MapInv
  <2>12. \A d \in Accepted : name[d] = n /\ ~Renewed(n) => (Running(d) <=> Listed(d))
    BY <1>1 DEF ListInv
  <2>13. ~Renewed(n)' => ~Renewed(n) /\ ~Listed(c)'
    <3> SUFFICES ASSUME ~Renewed(n)', Listed(c)'
                 PROVE  FALSE
      BY <1>6
    <3>1. ~Renewed(n) /\ c \in ToSet(m) /\ c \in ToSet(l)
      BY <1>6, <2>7, <2>8 DEF Listed
    <3>2. PICK e \in ToSet(l) : name[e] = n /\ ToSet(m) = ToSet(l) \ {e}
      BY <2>1, <2>6, <3>1
    <3>3. e \in Accepted /\ c \in Accepted /\ e # c /\ Listed(e) /\ Listed(c)
      BY <2>7, <2>10, <3>1, <3>2
    <3> QED BY <2>1, <2>11, <2>12, <3>1, <3>2, <3>3
  <2>14. ASSUME NEW d \in Accepted, d # c, name[d] = n, ~Renewed(n)'
         PROVE  ~Running(d)
    <3>1. c \notin cast' /\ ~Renewed(n)
      BY <1>2, <1>6, <2>1, <2>14 DEF Renewed, Accepted
    <3>2. run[c] = "remove" /\ c \notin cast
      BY <3>1
    <3>3. Running(c)
      BY <3>2 DEF Running
    <3> QED BY <2>1, <2>11, <2>14, <3>1, <3>3
  <2>15. ASSUME NEW d \in Accepted', ~Renewed(name[d])'
         PROVE  (Running(d)' <=> d \in applied') /\ (Running(d)' <=> Listed(d)')
    <3>1. d \in Accepted /\ d \in Conns /\ name[d] \in Names /\ name'[d] = name[d]
      BY <1>1, <1>4, NameOfMember
    <3>2. ~Renewed(name[d]) /\ (name[d] = n => ~Renewed(n)')
      BY <1>6, <2>15, <3>1
    <3>3. (Running(d) <=> d \in applied) /\ (Running(d) <=> Listed(d))
      BY <1>1, <3>1, <3>2 DEF ListInv
    <3>4. CASE d = c
      BY <1>5, <2>1, <2>2, <2>13, <3>2, <3>4
    <3>5. CASE d # c
      <4>1. Listed(d)' <=> Listed(d)
        BY <2>9, <2>14, <3>1, <3>2, <3>3, <3>5
      <4> QED BY <1>5, <2>2, <3>1, <3>3, <3>5, <4>1
    <3> QED BY <3>4, <3>5
  <2> QED BY <1>4, <2>2, <2>3, <2>4, <2>7, <2>15 DEF ListInv
<1> QED BY <1>8, <1>9, <1>10, <1>11 DEF PoolInv

\* Add gives a name to a connection that nobody knows yet.
LEMMA NameStep ==
  ASSUME PoolInv, NEW c \in Conns, NEW n \in Names, AddNode(c, n)
  PROVE  PoolInv'
<1>1. MemberInv /\ MapInv /\ ListInv /\ CloseWaits
  BY DEF PoolInv
<1>2. /\ run[c] = "out" /\ run' = [run EXCEPT ![c] = "add"] /\ name' = [name EXCEPT ![c] = n]
      /\ entryMap' = entryMap /\ closer' = closer /\ late' = late /\ cast' = cast
      /\ found' = found
  BY DEF AddNode, Goto, tables, history
<1>3. Accepted' = Accepted /\ c \notin Accepted /\ run' \in [Conns -> Places]
  BY <1>1, <1>2 DEF MemberInv, Accepted, Places
<1>4. \A d \in Accepted : name'[d] = name[d] /\ run'[d] = run[d]
  BY <1>1, <1>2, <1>3, NameOfMember
<1>5. \A d \in Conns : run[d] # "out" => name'[d] = name[d]
  BY <1>1, <1>2 DEF MemberInv
<1>6. \A m \in Names : Renewed(m) => Renewed(m)'
  BY <1>1, <1>2, <1>5, RenewedStays
<1>7. MemberInv'
  <2>1. name' \in [Conns -> Names \cup {NoName}]
    BY <1>1, <1>2 DEF MemberInv
  <2>2. \A d \in Conns : run'[d] = "out" <=> name'[d] = NoName
    BY <1>1, <1>2, PoolAssumption DEF MemberInv
  <2>3. \A m \in Names : entryMap[m] # NoConn => entryMap[m] \in Accepted /\ name'[entryMap[m]] = m
    BY <1>1, <1>4 DEF MemberInv
  <2> QED BY <1>1, <1>2, <1>3, <2>1, <2>2, <2>3 DEF MemberInv
<1>8. MapInv'
  <2> SUFFICES ASSUME NEW d \in Accepted', ~Renewed(name[d])'
               PROVE  (Running(d) <=> entryMap[name[d]] = d)'
    BY DEF MapInv
  <2>1. d \in Accepted /\ name[d] \in Names /\ name'[d] = name[d] /\ run'[d] = run[d]
    BY <1>1, <1>3, <1>4, NameOfMember
  <2>2. Running(d) <=> entryMap[name[d]] = d
    BY <1>1, <1>6, <2>1 DEF MapInv
  <2> QED BY <1>2, <1>3, <2>1, <2>2 DEF Running
<1>9. CloseWaits'
  <2> SUFFICES ASSUME closer' = "done", ~late', NEW d \in Accepted'
               PROVE  (run[d] = "gone" \/ d \in cast \/ Renewed(name[d]))'
    BY DEF CloseWaits
  <2>1. d \in Accepted /\ name[d] \in Names /\ name'[d] = name[d] /\ run'[d] = run[d]
    BY <1>1, <1>3, <1>4, NameOfMember
  <2> QED BY <1>1, <1>2, <1>6, <2>1 DEF CloseWaits
<1>10. ListInv'
  <2>1. UNCHANGED <<clients, servers, applied>> /\ \A d \in Conns : Listed(d)' <=> Listed(d)
    BY DEF AddNode, tables, Listed, ListOf
  <2>2. ASSUME NEW d \in Accepted', ~Renewed(name[d])'
        PROVE  (Running(d)' <=> d \in applied) /\ (Running(d)' <=> Listed(d)')
    <3>1. /\ d \in Accepted /\ d \in Conns /\ name[d] \in Names /\ name'[d] = name[d]
          /\ run'[d] = run[d]
      BY <1>1, <1>3, <1>4, NameOfMember
    <3>2. ~Renewed(name[d])
      BY <1>6, <2>2, <3>1
    <3>3. (Running(d) <=> d \in applied) /\ (Running(d) <=> Listed(d))
      BY <1>1, <3>1, <3>2 DEF ListInv
    <3>4. Running(d)' <=> Running(d)
      BY <1>2, <1>3, <3>1 DEF Running
    <3> QED BY <2>1, <3>1, <3>3, <3>4
  <2> QED BY <1>1, <1>3, <2>1, <2>2 DEF ListInv
<1> QED BY <1>7, <1>8, <1>9, <1>10 DEF PoolInv

\* Add enters a connection; the entry was empty, so nobody else is under the name.
LEMMA EntryStep ==
  ASSUME PoolInv, NEW c \in Conns, AddEntry(c)
  PROVE  PoolInv'
<1>1. MemberInv /\ MapInv /\ ListInv /\ CloseWaits
  BY DEF PoolInv
<1>2. /\ run[c] = "add" /\ run' = [run EXCEPT ![c] = "start"] /\ name' = name
      /\ entryMap[name[c]] = NoConn /\ entryMap' = [entryMap EXCEPT ![name[c]] = c]
      /\ closer' = closer /\ cast' = cast /\ found' = found
      /\ late' = (late \/ closer \in {"wait", "done"})
  BY DEF AddEntry, Fits, Goto
<1>3. name[c] \in Names /\ c # NoConn
  BY <1>1, <1>2, PoolAssumption DEF MemberInv
<1>4. /\ Accepted' = Accepted \cup {c} /\ c \notin Accepted
      /\ run' \in [Conns -> Places]
  BY <1>1, <1>2 DEF MemberInv, Accepted, Places
<1>5. \A d \in Conns : d # c => (Running(d)' <=> Running(d))
  BY <1>1, <1>2, <1>4 DEF Running, MemberInv
<1>6. Running(c)'
  BY <1>1, <1>2, <1>4 DEF Running, MemberInv
<1>7. \A n \in Names : Renewed(n) <=> Renewed(n)'
  BY <1>2 DEF Renewed
<1>8. /\ entryMap'[name[c]] = c /\ entryMap' \in [Names -> Conns \cup {NoConn}]
      /\ \A n \in Names : n # name[c] => entryMap'[n] = entryMap[n]
  BY <1>1, <1>2, <1>3 DEF MemberInv
<1>9. MemberInv'
  <2>1. \A d \in Conns : run'[d] = "out" <=> name'[d] = NoName
    BY <1>1, <1>2, <1>3, PoolAssumption DEF MemberInv
  <2>2. \A n \in Names : entryMap'[n] # NoConn =>
          entryMap'[n] \in Accepted' /\ name'[entryMap'[n]] = n
    BY <1>1, <1>2, <1>4, <1>8 DEF MemberInv
  <2>3. late' \in BOOLEAN
    BY <1>2
  <2> QED BY <1>1, <1>2, <1>4, <1>8, <2>1, <2>2, <2>3 DEF MemberInv
<1>10. MapInv'
  <2> SUFFICES ASSUME NEW d \in Accepted', ~Renewed(name[d])'
               PROVE  (Running(d) <=> entryMap[name[d]] = d)'
    BY DEF MapInv
  <2>1. CASE d = c
    BY <1>2, <1>6, <1>8, <2>1
  <2>2. CASE d # c
    <3>1. d \in Accepted /\ d \in Conns /\ name[d] \in Names /\ name'[d] = name[d] /\ d # NoConn
      BY <1>1, <1>2, <1>4, <2>2, NameOfMember
    <3>2. Running(d) <=> entryMap[name[d]] = d
      BY <1>1, <1>7, <3>1 DEF MapInv
    <3> QED BY <1>2, <1>5, <1>8, <2>2, <3>1, <3>2
  <2> QED BY <2>1, <2>2
<1>11. CloseWaits'
  BY <1>1, <1>2 DEF CloseWaits
<1>12. ListInv'
  <2>1. /\ applied' = applied \cup {c}
        /\ c \in Clients => clients' = Append(clients, c) /\ servers' = servers
        /\ c \notin Clients => clients' = clients /\ servers' = Append(servers, c)
    BY DEF AddEntry
  <2>2. /\ clients \in Seq(Clients) /\ IsInjective(clients)
        /\ servers \in Seq(Conns \ Clients) /\ IsInjective(servers)
        /\ ToSet(clients) \subseteq Accepted /\ ToSet(servers) \subseteq Accepted
        /\ applied \subseteq Accepted
    BY <1>1 DEF ListInv
  <2>3. /\ clients' \in Seq(Clients) /\ IsInjective(clients')
        /\ ToSet(clients') = ToSet(clients) \cup (IF c \in Clients THEN {c} ELSE {})
    <3>1. CASE c \in Clients
      <4>1. PICK q \in Seq(Clients) : q = clients /\ IsInjective(q) /\ c \notin ToSet(q)
        BY <1>4, <2>2
      <4>2. c \in Clients
        BY <3>1
      <4>3. /\ Append(q, c) \in Seq(Clients) /\ IsInjective(Append(q, c))
            /\ ToSet(Append(q, c)) = ToSet(q) \cup {c}
        BY <4>1, <4>2, AppendedFacts
      <4> QED BY <2>1, <3>1, <4>1, <4>3
    <3>2. CASE c \notin Clients
      BY <2>1, <2>2, <3>2
    <3> QED BY <3>1, <3>2
  <2>4. /\ servers' \in Seq(Conns \ Clients) /\ IsInjective(servers')
        /\ ToSet(servers') = ToSet(servers) \cup (IF c \in Clients THEN {} ELSE {c})
    <3>1. CASE c \notin Clients
      <4>1. PICK q \in Seq(Conns \ Clients) : q = servers /\ IsInjective(q) /\ c \notin ToSet(q)
        BY <1>4, <2>2
      <4>2. c \in Conns \ Clients
        BY <3>1
      <4>3. /\ Append(q, c) \in Seq(Conns \ Clients) /\ IsInjective(Append(q, c))
            /\ ToSet(Append(q, c)) = ToSet(q) \cup {c}
        BY <4>1, <4>2, AppendedFacts
      <4> QED BY <2>1, <3>1, <4>1, <4>3
    <3>2. CASE c \in Clients
      BY <2>1, <2>2, <3>2
    <3> QED BY <3>1, <3>2
  <2>5. Listed(c)' /\ \A d \in Conns : d # c => (Listed(d)' <=> Listed(d))
    BY <2>3, <2>4 DEF Listed, ListOf
  <2>6. ASSUME NEW d \in Accepted', ~Renewed(name[d])'
        PROVE  (Running(d)' <=> d \in applied') /\ (Running(d)' <=> Listed(d)')
    <3>1. CASE d = c
      BY <1>6, <2>1, <2>5, <3>1
    <3>2. CASE d # c
      <4>1. d \in Accepted /\ d \in Conns /\ name[d] \in Names /\ name'[d] = name[d]
        BY <1>1, <1>2, <1>4, <3>2, NameOfMember
      <4>2. (Running(d) <=> d \in applied) /\ (Running(d) <=> Listed(d))
        BY <1>1, <1>7, <2>6, <4>1 DEF ListInv
      <4> QED BY <1>5, <2>1, <2>5, <3>2, <4>1, <4>2
    <3> QED BY <3>1, <3>2
  <2> QED BY <1>4, <2>1, <2>2, <2>3, <2>4, <2>6 DEF ListInv
<1> QED BY <1>9, <1>10, <1>11, <1>12 DEF PoolInv

\* Every step keeps the invariant.
LEMMA PoolStep ==
  ASSUME PoolInv, [Next]_vars
  PROVE  PoolInv'
<1> USE DEF tables, range, conn, history, Goto
<1>0. MemberInv /\ \A c \in Conns : run[c] \in Places
  BY DEF PoolInv, MemberInv
<1>1. ASSUME NEW c \in Conns, NEW n \in Names, AddNode(c, n)
      PROVE  PoolInv'
  BY <1>1, NameStep
<1>2. ASSUME NEW c \in Conns, AddRefuse(c)
      PROVE  PoolInv'
  <2>1. Quiet
    BY <1>0, <1>2 DEF AddRefuse, Quiet, MemberInv, Accepted, Places
  <2> QED BY <1>0, <1>2, <2>1, QuietStep DEF AddRefuse, MemberInv
<1>3. ASSUME NEW c \in Conns, AddEntry(c)
      PROVE  PoolInv'
  BY <1>3, EntryStep
<1>4. ASSUME NEW c \in Conns, CastOut(c)
      PROVE  PoolInv'
  BY <1>4, RemoveStep DEF CastOut
<1>5. ASSUME NEW n \in Names, CastOutLookup(n)
      PROVE  PoolInv'
  <2>1. Quiet
    BY <1>0, <1>5 DEF CastOutLookup, Quiet, MemberInv, Accepted
  <2>2. found' \in Accepted \cup {NoConn}
    BY <1>0, <1>5 DEF CastOutLookup, MemberInv
  <2> QED BY <1>0, <1>5, <2>1, <2>2, QuietStep DEF CastOutLookup, MemberInv
<1>6. CASE CastOutFound
  <2>1. found \in Accepted
    BY <1>0, <1>6 DEF CastOutFound, MemberInv
  <2> QED BY <1>6, <2>1, RemoveStep DEF CastOutFound
<1>7. ASSUME NEW c \in Conns, Start(c) \/ StartReturns(c) \/ Retry(c) \/ Wake(c)
      PROVE  PoolInv'
  <2>1. /\ run[c] \in {"start", "running", "ended", "sleep"}
        /\ \E p \in {"running", "ended", "sleep", "remove", "start"} :
             run' = [run EXCEPT ![c] = p]
        /\ UNCHANGED <<entryMap, clients, servers, applied, name, cast, late, closer, found>>
    BY <1>7 DEF Start, StartReturns, Retry, Wake
  <2>2. Quiet
    BY <1>0, <2>1 DEF Quiet, MemberInv, Accepted, Places
  <2> QED BY <1>0, <2>1, <2>2, QuietStep DEF MemberInv
<1>8. ASSUME NEW c \in Conns, RemoveSelf(c)
      PROVE  PoolInv'
  <2>1. c \in Accepted
    BY <1>8 DEF RemoveSelf, Accepted
  <2> QED BY <1>8, <2>1, RemoveStep DEF RemoveSelf
<1>9. ASSUME UNCHANGED <<tables, name, run, found, history>>,
             \/ closer' = closer
             \/ closer' \in {"lock", "closing", "wait"}
             \/ closer' = "done" /\ Entries = {}
      PROVE  PoolInv'
  <2>1. Quiet
    BY <1>0, <1>9 DEF Quiet, MemberInv, Accepted
  <2> QED BY <1>0, <1>9, <2>1, QuietStep DEF MemberInv
<1>10. CASE \/ \E to \in Targets : Broadcast(to)
            \/ \E c \in Conns : DispatchTo(c)
            \/ DispatchWrites \/ DispatchReturns \/ RangeEnd
  BY <1>9, <1>10 DEF Broadcast, DispatchTo, DispatchWrites, DispatchReturns, RangeEnd
<1>11. CASE Close \/ CloseMembers \/ Wait
  BY <1>9, <1>11 DEF Close, CloseMembers, Wait
<1>12. CASE UNCHANGED vars
  BY <1>9, <1>12 DEF vars
<1> QED
  BY <1>1, <1>2, <1>3, <1>4, <1>5, <1>6, <1>7, <1>8, <1>10, <1>11, <1>12
  DEF Next, Member

-----------------------------------------------------------------------------
\* The invariant of the pool's map.
THEOREM PoolInvariant == Spec => []PoolInv
<1>1. Init => PoolInv
  <2> SUFFICES ASSUME Init PROVE PoolInv
    OBVIOUS
  <2>1. Accepted = {} /\ \A c \in Conns : run[c] = "out" /\ name[c] = NoName
    BY DEF Init, Accepted
  <2>2. MemberInv
    BY <2>1 DEF Init, MemberInv, Places
  <2>3. ListInv
    BY <2>1 DEF Init, ListInv, IsInjective, ToSet
  <2> QED BY <2>1, <2>2, <2>3 DEF PoolInv, MapInv, CloseWaits
<1> QED BY <1>1, PoolStep, PTL DEF Spec

\* What TypeOK says of the variables that PoolInv does not speak of.
RestOK ==
  /\ closed \in BOOLEAN /\ poolLock \in BOOLEAN
  /\ retry \in [Conns -> 0 .. ClientRetry]
  /\ status \in [Conns -> {"YetReady", "Ready", "Closed"}]
  /\ live \in [Conns -> BOOLEAN]
  /\ closing \subseteq Conns /\ todo \subseteq Conns
  /\ at \in Conns \cup {NoConn} /\ copying \in BOOLEAN
  /\ payload \in {"given", "masked"}

\* Whatever a broadcast goes to, it is a set of connections.
LEMMA TargetFacts ==
  ASSUME PoolInv, NEW to \in Targets
  PROVE  to \subseteq Conns
<1>1. /\ \A n \in Names : entryMap[n] \in Conns \cup {NoConn}
      /\ ToSet(clients) \subseteq Conns /\ ToSet(servers) \subseteq Conns
  BY DEF PoolInv, MemberInv, ListInv, Accepted
<1> QED BY <1>1 DEF Targets, Entries

\* Every step keeps them.
LEMMA RestStep ==
  ASSUME PoolInv, RestOK, [Next]_vars
  PROVE  RestOK'
<1> USE DEF tables, range, conn, history, Goto
<1>1. ASSUME NEW c \in Conns
      PROVE  /\ \A n \in Names : AddNode(c, n) => RestOK'
             /\ AddRefuse(c) \/ CastOut(c) \/ RemoveSelf(c) \/ Wake(c) => RestOK'
  BY DEF AddNode, AddRefuse, CastOut, RemoveSelf, Wake, RestOK
<1>2. ASSUME NEW c \in Conns, AddEntry(c)
      PROVE  RestOK'
  <2>1. (IF c \in Clients THEN ClientRetry ELSE 0) \in 0 .. ClientRetry
    BY PoolAssumption
  <2>2. retry' \in [Conns -> 0 .. ClientRetry]
    BY <1>2, <2>1 DEF AddEntry, RestOK
  <2> QED BY <1>2, <2>2 DEF AddEntry, RestOK
<1>3. ASSUME NEW c \in Conns, Retry(c)
      PROVE  RestOK'
  <2>1. retry[c] > 0 => retry[c] - 1 \in 0 .. ClientRetry
    BY PoolAssumption DEF RestOK
  <2>2. retry' \in [Conns -> 0 .. ClientRetry]
    BY <1>3, <2>1 DEF Retry, RestOK
  <2> QED BY <1>3, <2>2 DEF Retry, RestOK
<1>4. ASSUME NEW c \in Conns, Start(c) \/ StartReturns(c)
      PROVE  RestOK'
  BY <1>4 DEF Start, StartReturns, RestOK
<1>5. CASE CastOutFound \/ \E n \in Names : CastOutLookup(n)
  BY <1>5 DEF CastOutFound, CastOutLookup, RestOK
<1>6. ASSUME NEW to \in Targets, Broadcast(to)
      PROVE  RestOK'
  BY <1>6, TargetFacts DEF Broadcast, RestOK
<1>7. CASE \/ DispatchWrites \/ DispatchReturns \/ RangeEnd
            \/ \E c \in Conns : DispatchTo(c)
  BY <1>7 DEF DispatchWrites, DispatchReturns, RangeEnd, DispatchTo, RestOK
<1>8. CASE CloseMembers
  <2>1. Entries \subseteq Conns
    BY DEF Entries, PoolInv, MemberInv
  <2> QED BY <1>8, <2>1 DEF CloseMembers, RestOK
<1>9. CASE Close \/ Wait \/ UNCHANGED vars
  BY <1>9 DEF Close, Wait, vars, RestOK
<1> QED BY <1>1, <1>2, <1>3, <1>4, <1>5, <1>6, <1>7, <1>8, <1>9 DEF Next, Member

(***************************************************************************)
(* Every variable has its type in every state: above all, no list gets a   *)
(* connection of the other kind, and no retry counter goes below zero.     *)
(***************************************************************************)
THEOREM TypeCorrect == Spec => []TypeOK
<1>1. Init => RestOK
  <2>1. 0 \in 0 .. ClientRetry
    BY PoolAssumption
  <2> QED BY <2>1 DEF Init, RestOK
<1>2. PoolInv /\ RestOK /\ [Next]_vars => RestOK'
  BY RestStep
<1>3. PoolInv /\ RestOK => TypeOK
  BY DEF PoolInv, MemberInv, ListInv, RestOK, Accepted, TypeOK
<1> QED BY <1>1, <1>2, <1>3, PoolInvariant, PTL DEF Spec

\* An element of a list without repetitions is there once.
LEMMA OnceInList ==
  ASSUME NEW s, IsInjective(s), NEW e
  PROVE  Cardinality({i \in DOMAIN s : s[i] = e}) = IF e \in ToSet(s) THEN 1 ELSE 0
<1>1. CASE e \notin ToSet(s)
  <2>1. {i \in DOMAIN s : s[i] = e} = {}
    BY <1>1 DEF ToSet
  <2> QED BY <1>1, <2>1, FS_EmptySet
<1>2. CASE e \in ToSet(s)
  <2>1. PICK i \in DOMAIN s : s[i] = e
    BY <1>2 DEF ToSet
  <2>2. {j \in DOMAIN s : s[j] = e} = {i}
    BY <2>1 DEF IsInjective
  <2> QED BY <1>2, <2>2, FS_Singleton
<1> QED BY <1>1, <1>2

(***************************************************************************)
(* The map, the list of its kind and the handlers agree on every           *)
(* connection: it is in them, once, from Add to the end of its Start or to *)
(* CastOut, unless its name was given anew after a CastOut.                *)
(***************************************************************************)
THEOREM TablesAgreeTheorem == Spec => []TablesAgree
<1>1. PoolInv => TablesAgree
  <2> SUFFICES ASSUME PoolInv, NEW c \in Accepted, ~Renewed(name[c])
               PROVE  /\ Running(c) <=> entryMap[name[c]] = c
                      /\ Running(c) <=> c \in applied
                      /\ Cardinality({i \in DOMAIN ListOf(c) : ListOf(c)[i] = c}) =
                           IF Running(c) THEN 1 ELSE 0
    BY DEF TablesAgree
  <2>1. /\ Running(c) <=> entryMap[name[c]] = c
        /\ Running(c) <=> c \in applied
        /\ Running(c) <=> c \in ToSet(ListOf(c))
        /\ IsInjective(ListOf(c))
    BY DEF PoolInv, MapInv, ListInv, Listed, ListOf
  <2> QED BY <2>1, OnceInList
<1> QED BY <1>1, PoolInvariant, PTL

\* pool.go:241: when Close returns, every connection that was accepted before it is
\* gone, for any number of connections, of retries and of broadcasts.
THEOREM CloseWaitsTheorem == Spec => []CloseWaits
BY PoolInvariant, PTL DEF PoolInv
=============================================================================

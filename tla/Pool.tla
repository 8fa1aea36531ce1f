-------------------------------- MODULE Pool --------------------------------
(***************************************************************************)
(* The connection pool: Add, the goroutine that runs a member's Start and  *)
(* removes it afterwards, the retries of client connections, CastOut,      *)
(* broadcasts, Close and Wait.                                             *)
(*                                                                         *)
(* poolLock guards the tables.  What a member does between two visits to   *)
(* the tables needs no lock, and Close sets closed without it.  Broadcasts *)
(* and Close hold the lock while they call Dispatch, which waits for       *)
(* writeLock and for the socket, perhaps for ever.  Of a connection only   *)
(* what the pool sees is left here: its status, whether its socket still   *)
(* works, and that Start returns once Close was called (CloseEnds of       *)
(* Lifecycle).                                                             *)
(***************************************************************************)
EXTENDS Naturals, Sequences, FiniteSets, SequencesExt

CONSTANTS Conns,        \* connections the application adds, each once
          Clients,      \* those from Dial; the others are from TakeOver
          InPlace,      \* clients with neither streams nor compression
          Group,        \* connections added with the group of ToGroup
          MayBlock,     \* connections on which Dispatch may never return
          Names,        \* values of NodeConfig.Name
          NoConn,       \* no connection
          NoName,       \* the name of a connection that was never added
          Size,         \* config.Size, 0 for no limit
          ClientRetry   \* config.ClientRetry

ASSUME PoolAssumption ==
  /\ Clients \subseteq Conns /\ InPlace \subseteq Clients
  /\ Group \subseteq Conns /\ MayBlock \subseteq Conns
  /\ NoConn \notin Conns /\ NoName \notin Names
  /\ Size \in Nat /\ ClientRetry \in Nat

VARIABLES
  entryMap,   \* p.entryMap: name -> connection
  clients,    \* p.clients
  servers,    \* p.servers
  closed,     \* p.closed
  poolLock,   \* a broadcast or Close holds p.poolLock between two actions
  name,       \* c.node.Name
  applied,    \* connections whose eventPool has the pool's handlers
  run,        \* where the Add of a connection, then its goroutine, stands
  retry,      \* startClient's variable retry
  status,     \* c.status
  live,       \* the socket of the connection works
  closing,    \* connections on which Close was called
  found,      \* what CastOutByName has looked up
  todo,       \* connections that the range, or Close, has not reached
  at,         \* the connection it has called Dispatch of
  copying,    \* that call has come to the write
  payload,    \* the content of the broadcast's slice
  closer,     \* where the call of Pool.Close stands
  cast,       \* history: connections that were cast out
  late        \* history: a connection was accepted after Close had closed the members

tables    == <<entryMap, clients, servers, applied>>
range     == <<poolLock, todo, at, copying, payload>>
conn      == <<status, live, closing>>
history   == <<cast, late>>
vars == <<tables, closed, range, name, run, retry, conn, found, closer, history>>

Places == {"out", "add", "refused", "start", "running", "ended", "sleep", "remove", "gone"}

TypeOK ==
  /\ entryMap \in [Names -> Conns \cup {NoConn}]
  /\ clients \in Seq(Clients)
  /\ servers \in Seq(Conns \ Clients)
  /\ closed \in BOOLEAN
  /\ poolLock \in BOOLEAN
  /\ name \in [Conns -> Names \cup {NoName}]
  /\ applied \subseteq Conns
  /\ run \in [Conns -> Places]
  /\ retry \in [Conns -> 0 .. ClientRetry]
  /\ status \in [Conns -> {"YetReady", "Ready", "Closed"}]
  /\ live \in [Conns -> BOOLEAN]
  /\ closing \subseteq Conns
  /\ found \in Conns \cup {NoConn}
  /\ todo \subseteq Conns
  /\ at \in Conns \cup {NoConn}
  /\ copying \in BOOLEAN
  /\ payload \in {"given", "masked"}
  /\ closer \in {"idle", "lock", "closing", "wait", "done"}
  /\ cast \subseteq Conns
  /\ late \in BOOLEAN

Init ==
  /\ entryMap = [n \in Names |-> NoConn]
  /\ clients = << >> /\ servers = << >>
  /\ closed = FALSE
  /\ poolLock = FALSE
  /\ name = [c \in Conns |-> NoName]
  /\ applied = {}
  /\ run = [c \in Conns |-> "out"]
  /\ retry = [c \in Conns |-> 0]
  /\ status = [c \in Conns |-> "YetReady"]
  /\ live = [c \in Conns |-> TRUE]
  /\ closing = {}
  /\ found = NoConn
  /\ todo = {}
  /\ at = NoConn
  /\ copying = FALSE
  /\ payload = "given"
  /\ closer = "idle"
  /\ cast = {}
  /\ late = FALSE

Goto(c, place) == run' = [run EXCEPT ![c] = place]
Entries  == {entryMap[n] : n \in Names} \ {NoConn}
Accepted == {c \in Conns : run[c] \notin {"out", "add", "refused"}}

-----------------------------------------------------------------------------
(* Add. *)

\* The application calls Add: the node is set before the lock is taken.
AddNode(c, n) ==
  /\ run[c] = "out"
  /\ name' = [name EXCEPT ![c] = n]
  /\ Goto(c, "add")
  /\ UNCHANGED <<tables, closed, range, retry, conn, found, closer, history>>

Fits(c) ==
  /\ entryMap[name[c]] = NoConn
  /\ Size # 0 => Cardinality(Entries) < Size

\* A name in use or a full pool: Add returns an error.
AddRefuse(c) ==
  /\ run[c] = "add" /\ ~poolLock
  /\ ~Fits(c)
  /\ Goto(c, "refused")
  /\ UNCHANGED <<tables, closed, range, name, retry, conn, found, closer, history>>

\* The connection is entered and its goroutine started, closed pool or not.
AddEntry(c) ==
  /\ run[c] = "add" /\ ~poolLock
  /\ Fits(c)
  /\ entryMap' = [entryMap EXCEPT ![name[c]] = c]
  /\ clients' = IF c \in Clients THEN Append(clients, c) ELSE clients
  /\ servers' = IF c \in Clients THEN servers ELSE Append(servers, c)
  /\ applied' = applied \cup {c}
  /\ retry' = [retry EXCEPT ![c] = IF c \in Clients THEN ClientRetry ELSE 0]
  /\ late' = (late \/ closer \in {"wait", "done"})
  /\ Goto(c, "start")
  /\ UNCHANGED <<closed, range, name, conn, found, closer, cast>>

-----------------------------------------------------------------------------
(* remove and CastOut. *)

\* The list without the first connection that has the name.
WithoutName(list, n) ==
  LET i == SelectInSeq(list, LAMBDA d : name[d] = n)
  IN  IF i = 0 THEN list ELSE RemoveAt(list, i)

\* Seeded fault: remove looks for every connection among the clients.
RemoveConnClients(c) ==
  /\ entryMap' = [entryMap EXCEPT ![name[c]] = NoConn]
  /\ applied' = applied \ {c}
  /\ clients' = WithoutName(clients, name[c])
  /\ servers' = servers

\* remove goes by name alone, in the map and in the list of the connection's kind.
RemoveConn(c) ==
  /\ entryMap' = [entryMap EXCEPT ![name[c]] = NoConn]
  /\ applied' = applied \ {c}
  /\ clients' = IF c \in Clients THEN WithoutName(clients, name[c]) ELSE clients
  /\ servers' = IF c \in Clients THEN servers ELSE WithoutName(servers, name[c])

\* The application casts out a connection it added, at any time after.
CastOut(c) ==
  /\ c \in Accepted \ cast
  /\ ~poolLock
  /\ RemoveConn(c)
  /\ cast' = cast \cup {c}
  /\ UNCHANGED <<closed, range, name, run, retry, conn, found, closer, late>>

\* CastOutByName looks the name up, gives the lock away ...
CastOutLookup(n) ==
  /\ found = NoConn /\ ~poolLock
  /\ entryMap[n] # NoConn
  /\ found' = entryMap[n]
  /\ UNCHANGED <<tables, closed, range, name, run, retry, conn, closer, history>>

\* ... and takes it again to remove what it found.
CastOutFound ==
  /\ found # NoConn /\ ~poolLock
  /\ RemoveConn(found)
  /\ cast' = cast \cup {found}
  /\ found' = NoConn
  /\ UNCHANGED <<closed, range, name, run, retry, conn, closer, late>>

-----------------------------------------------------------------------------
(* The goroutine of a member: startClient, startServer. *)

Start(c) ==
  /\ run[c] = "start"
  /\ status' = [status EXCEPT ![c] = "Ready"]
  /\ Goto(c, "running")
  /\ UNCHANGED <<tables, closed, range, name, retry, live, closing, found, closer, history>>

\* Start returns: the peer closed, the socket broke, or Close was called.  Its
\* deferred cleanClose has closed the socket.
StartReturns(c) ==
  /\ run[c] = "running"
  /\ status' = [status EXCEPT ![c] = "Closed"]
  /\ live' = [live EXCEPT ![c] = FALSE]
  /\ Goto(c, "ended")
  /\ UNCHANGED <<tables, closed, range, name, retry, closing, found, closer, history>>

\* Seeded fault: the retries are not counted.
RetryAlways(c) ==
  /\ run[c] = "ended"
  /\ IF c \in Clients /\ ~closed
       THEN retry' = [retry EXCEPT ![c] = @ - 1] /\ Goto(c, "sleep")
       ELSE UNCHANGED retry /\ Goto(c, "remove")
  /\ UNCHANGED <<tables, closed, range, name, conn, found, closer, history>>

\* A client is started again after RetryInterval, on the connection it has.
Retry(c) ==
  /\ run[c] = "ended"
  /\ IF c \in Clients /\ retry[c] > 0 /\ ~closed
       THEN retry' = [retry EXCEPT ![c] = @ - 1] /\ Goto(c, "sleep")
       ELSE UNCHANGED retry /\ Goto(c, "remove")
  /\ UNCHANGED <<tables, closed, range, name, conn, found, closer, history>>

Wake(c) ==
  /\ run[c] = "sleep"
  /\ Goto(c, "start")
  /\ UNCHANGED <<tables, closed, range, name, retry, conn, found, closer, history>>

RemoveSelf(c) ==
  /\ run[c] = "remove" /\ ~poolLock
  /\ RemoveConn(c)
  /\ Goto(c, "gone")
  /\ UNCHANGED <<closed, range, name, retry, conn, found, closer, history>>

-----------------------------------------------------------------------------
(* Broadcasts and Close, all of them with poolLock held to the end. *)

\* The receivers of Dispatch, ToClients, ToServers, ToGroup, ToPick and Except.
Targets ==
  {Entries, ToSet(clients), ToSet(servers), Entries \cap Group}
    \cup { {entryMap[n]} \ {NoConn} : n \in Names }
    \cup { Entries \ {entryMap[n]} : n \in Names }

Broadcast(to) ==
  /\ ~poolLock
  /\ to # {}
  /\ poolLock' = TRUE
  /\ todo' = to
  /\ UNCHANGED <<tables, closed, at, copying, payload, name, run, retry, conn, found, closer,
                 history>>

Close ==
  /\ closer = "idle"
  /\ closed' = TRUE
  /\ closer' = "lock"
  /\ UNCHANGED <<tables, range, name, run, retry, conn, found, history>>

\* Seeded fault: Close goes through the servers only.
CloseServers ==
  /\ closer = "lock" /\ ~poolLock
  /\ poolLock' = TRUE
  /\ todo' = ToSet(servers)
  /\ closer' = "closing"
  /\ UNCHANGED <<tables, closed, at, copying, payload, name, run, retry, conn, found, history>>

CloseMembers ==
  /\ closer = "lock" /\ ~poolLock
  /\ poolLock' = TRUE
  /\ todo' = Entries
  /\ closer' = "closing"
  /\ UNCHANGED <<tables, closed, at, copying, payload, name, run, retry, conn, found, history>>

\* Dispatch of the next connection, or its Close, which begins with a Dispatch.
DispatchTo(c) ==
  /\ c \in todo /\ at = NoConn
  /\ at' = c
  /\ todo' = todo \ {c}
  /\ UNCHANGED <<tables, closed, poolLock, copying, payload, name, run, retry, conn, found,
                 closer, history>>

(***************************************************************************)
(* The connection is Ready once its locks are free.  A client masks the    *)
(* bytes it is given where they are, unless compression or the stream      *)
(* header made a copy; the close frames of Close have bytes of their own.  *)
(***************************************************************************)
DispatchWrites ==
  /\ at # NoConn /\ ~copying
  /\ status[at] = "Ready"
  /\ copying' = TRUE
  /\ payload' = IF at \in InPlace /\ closer # "closing" THEN "masked" ELSE payload
  /\ UNCHANGED <<tables, closed, poolLock, todo, at, name, run, retry, conn, found, closer,
                 history>>

\* The frame is refused or written; Close of the connection ends with closeUpdate.
DispatchReturns ==
  /\ at # NoConn
  /\ copying \/ status[at] # "Ready"
  /\ at' = NoConn
  /\ copying' = FALSE
  /\ IF closer = "closing"
       THEN closing' = closing \cup {at} /\ status' = [status EXCEPT ![at] = "Closed"]
       ELSE UNCHANGED <<closing, status>>
  /\ UNCHANGED <<tables, closed, poolLock, todo, payload, name, run, retry, live, found, closer,
                 history>>

\* Close goes on to Wait.
RangeEnd ==
  /\ poolLock
  /\ todo = {} /\ at = NoConn
  /\ poolLock' = FALSE
  /\ payload' = "given"
  /\ closer' = IF closer = "closing" THEN "wait" ELSE closer
  /\ UNCHANGED <<tables, closed, todo, at, copying, name, run, retry, conn, found, history>>

-----------------------------------------------------------------------------
(* Wait. *)

\* Seeded fault: Wait looks at closed alone.
WaitClosed ==
  /\ closer = "wait" /\ ~poolLock
  /\ closed
  /\ closer' = "done"
  /\ UNCHANGED <<tables, closed, range, name, run, retry, conn, found, history>>

\* Wait, at the end of Close, polls until the map is empty.
Wait ==
  /\ closer = "wait" /\ ~poolLock
  /\ closed /\ Entries = {}
  /\ closer' = "done"
  /\ UNCHANGED <<tables, closed, range, name, run, retry, conn, found, history>>

-----------------------------------------------------------------------------
Member(c) == Start(c) \/ Retry(c) \/ Wake(c) \/ RemoveSelf(c)

Next ==
  \/ \E c \in Conns, n \in Names : AddNode(c, n)
  \/ \E c \in Conns : AddRefuse(c) \/ AddEntry(c)
  \/ \E c \in Conns : CastOut(c)
  \/ \E n \in Names : CastOutLookup(n)
  \/ CastOutFound
  \/ \E c \in Conns : Member(c) \/ StartReturns(c)
  \/ \E to \in Targets : Broadcast(to)
  \/ Close
  \/ CloseMembers
  \/ \E c \in Conns : DispatchTo(c)
  \/ DispatchWrites
  \/ DispatchReturns
  \/ RangeEnd
  \/ Wait

MustReturn(c) == StartReturns(c) /\ c \notin MayBlock /\ (c \in closing \/ ~live[c])

DispatchMustReturn == at \notin MayBlock /\ (DispatchWrites \/ DispatchReturns)

Spec == Init /\ [][Next]_vars

(***************************************************************************)
(* A goroutine that can run does run, and a waiter gets poolLock however   *)
(* many broadcasts come in between.  Dispatch returns, and so does Start   *)
(* of a connection that was closed or whose socket is dead, except that a  *)
(* connection in MayBlock keeps either of them for as long as it likes.    *)
(* Start of any other may go on for ever.  A goroutine has one step at a   *)
(* time, which is why one condition does.                                  *)
(***************************************************************************)
FairSpec ==
  /\ Spec
  /\ \A c \in Conns :
       SF_vars(Member(c) \/ MustReturn(c))
  /\ WF_vars(RangeEnd \/ DispatchMustReturn \/ \E c \in Conns : DispatchTo(c))
  /\ SF_vars(CloseMembers \/ Wait)

-----------------------------------------------------------------------------
\* A connection was cast out whose name another one has or had.
Renewed(n) == \E c \in cast, d \in Conns : c # d /\ name[c] = n /\ name[d] = n

Running(c) == c \in Accepted /\ run[c] # "gone" /\ c \notin cast

ListOf(c)  == IF c \in Clients THEN clients ELSE servers

(***************************************************************************)
(* A connection is a member from Add to the end of its Start or to         *)
(* CastOut, and the map, its list and its handlers agree on that, whatever *)
(* Add, CastOut, CastOutByName and the ends of other connections do at the *)
(* same time.  The exception is a name given anew after a CastOut: remove  *)
(* goes by name, and the end of the old connection evicts the new one.     *)
(***************************************************************************)
TablesAgree ==
  \A c \in Accepted :
    \/ Renewed(name[c])
    \/ /\ Running(c) <=> entryMap[name[c]] = c
       /\ Running(c) <=> c \in applied
       /\ Cardinality({i \in DOMAIN ListOf(c) : ListOf(c)[i] = c}) = IF Running(c) THEN 1 ELSE 0

(***************************************************************************)
(* pool.go:241: Close returns "when all connection closed".  With no Add   *)
(* after it, every connection that is or was a member has been removed by  *)
(* its own goroutine; only those cast out or evicted are excepted.         *)
(***************************************************************************)
CloseWaits ==
  closer = "done" /\ ~late =>
    \A c \in Accepted : run[c] = "gone" \/ c \in cast \/ Renewed(name[c])

(***************************************************************************)
(* Close comes to an end: retries stop, members are started again at most  *)
(* once, and a stream of broadcasts does not keep poolLock from it.  It is *)
(* held up only by a connection that is accepted afterwards, which nobody  *)
(* closes, or by one whose Dispatch does not return: for ever in the call  *)
(* of a broadcast or of Close itself (pool.go:182, 246), or in its Start.  *)
(***************************************************************************)
CloseReturns ==
  closer = "lock" ~>
    \/ closer = "done" \/ late
    \/ \E c \in MayBlock : [](at = c \/ run[c] = "running")

(***************************************************************************)
(* README.md:671: a broadcast sends the message to all connections.  Once  *)
(* the slice has been masked in place, no receiver may be left that would  *)
(* be sent the masked bytes.                                               *)
(***************************************************************************)
BroadcastIntact ==
  payload = "masked" => \A c \in todo : status[c] # "Ready"
=============================================================================

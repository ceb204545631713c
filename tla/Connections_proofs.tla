--------------------------- MODULE Connections_proofs ---------------------------
(***************************************************************************)
(* Proofs about Connections, for any number of requests, servers and       *)
(* remote peers.                                                           *)
(***************************************************************************)
EXTENDS Connections, WellFoundedInduction, TLAPS

Handled(o) == handling.do = "new" /\ handling.conn = o

(* A request gets its kind and its peer when it starts. *)
StartedHavePeers ==
    \A r \in Requests :
        /\ pc[r] = "idle" => op[r] = "none" /\ r \notin waiters
        /\ pc[r] # "idle" => target[r] \in Peers
        /\ pc[r] \in {"add", "connect"} => op[r] \in {"client", "host"}

(* Nothing came of a request that was not given to the transport. *)
FreshAreNowhere ==
    \A r \in Requests :
        pc[r] \in {"idle", "factory", "add", "connect"} =>
            /\ task[r] = "none" /\ tce[r] = "unset" /\ state[r] = "none"
            /\ r \notin Range(queue) /\ ~Handled(r)

(* The tasks under the keys were made for them. *)
TasksHaveTheirKey ==
    \A k \in Keys : byKey[k].kind = "task" =>
        /\ target[byKey[k].of] = k /\ pc[byKey[k].of] = "over"
        /\ task[byKey[k].of] = "failed" => byKey[k].of \in early

EarlyBeforeStored ==
    \A r \in Requests : pc[r] = "insert" /\ task[r] = "failed" => r \in early

(* The events stored for a peer belong to handlers that wait for it, as do *)
(* all waiting handlers.                                                   *)
WaitersAreP2P ==
    /\ \A r \in waiters : op[r] \in {"client", "host"}
    /\ \A p \in Peers : pendingP2P[p] # None =>
        LET r == pendingP2P[p] IN
        op[r] \in {"client", "host"} /\ target[r] = p /\ pc[r] \in {"connect", "over"}

(* A connection exists from newConnection on, and belongs to one peer.     *)
ObjectsHavePeers ==
    /\ \A o \in Conns : state[o] = "none" <=> peer[o] = None
    /\ \A q \in Remotes : peer[q] \in {None, q} /\ (Handled(q) => handling.peer = q)
    /\ \A r \in Requests : tce[r] = "set" => state[r] # "none"

(* A request is in the queue once, or handled, or neither. *)
QueuedOnce ==
    /\ \A i, j \in DOMAIN queue : queue[i] = queue[j] => i = j
    /\ \A r \in Range(queue) : state[r] = "none"
    /\ handling.do = "new" =>
         /\ handling.conn \notin Range(queue) /\ state[handling.conn] = "none"
         /\ link[handling.peer] = "linked"
    /\ handling.do = "advertise" => link[handling.peer] = "up"

TablesHaveTheirPeer ==
    \A p \in Peers : /\ byId[p] # None => peer[byId[p]] = p
                     /\ guids[p] # None => peer[guids[p]] = p

(* An open connection is the one the transport has for the peer; the       *)
(* repository has it by id, unless a closed one is there.                  *)
OpenAreLinked ==
    \A o \in Conns : state[o] = "connected" =>
        /\ guids[peer[o]] = o /\ link[peer[o]] = "linked"
        /\ ~(handling.do = "new" /\ handling.peer = peer[o])
        /\ byId[peer[o]] # None
        /\ byId[peer[o]] = o \/ state[byId[peer[o]]] = "closed"

ClosedAreTasks ==
    \A p \in Peers : LET o == byId[p] IN
        o # None /\ state[o] = "closed" => o \in Requests /\ task[o] = "done"

Active(p) == link[p] \in {"connecting", "up", "advertised"}
Popped == handling.do = "new" /\ handling.conn \in Requests

(* The head of the queue is served while a packet is handled too, but for  *)
(* the one that popped the request before it.                              *)
HeadStaysServed ==
    queue # << >> /\ ~Popped => Active(target[Head(queue)]) \/ Head(queue) \in abandoned

(* Without cancellations, the only attempt is that of the head. *)
AttemptIsOfHead ==
    cancelled = {} =>
        /\ \A p \in Peers : Active(p) => queue # << >> /\ target[Head(queue)] = p /\ ~Popped
        /\ Popped => target[handling.conn] = handling.peer
        /\ ~undefined
        /\ \A r \in Requests : peer[r] \in {None, target[r]}

IInv ==
    /\ TypeOK
    /\ StartedHavePeers /\ FreshAreNowhere
    /\ TasksHaveTheirKey /\ EarlyBeforeStored /\ WaitersAreP2P /\ PendingIsRemembered
    /\ ObjectsHavePeers /\ QueuedOnce /\ TablesHaveTheirPeer /\ OpenAreLinked /\ ClosedAreTasks
    /\ HeadStaysServed /\ AttemptIsOfHead
-----------------------------------------------------------------------------
(* A set of natural numbers has a least element. *)
LEMMA LeastOf ==
    ASSUME NEW R, IsWellFoundedOn(R, Nat), \A x, y \in Nat : <<y, x>> \in R <=> y < x,
           NEW T \in SUBSET Nat, T # {}
    PROVE  \E x \in T : \A y \in T : x <= y
<1>1. PICK x \in T : \A y \in T : ~ (<<y, x>> \in R)
  BY WFMin, Zenon
<1>2. \A y \in T : ~(y < x)
  BY <1>1
<1>3. \A y \in T : x <= y
  BY <1>2
<1> QED
  BY <1>3

LEMMA LeastElement ==
    ASSUME NEW T \in SUBSET Nat, T # {}
    PROVE  \E x \in T : \A y \in T : x <= y
<1>1. \A x, y \in Nat : <<y, x>> \in OpToRel(<, Nat) <=> y < x
  BY DEF OpToRel
<1>2. IsWellFoundedOn(OpToRel(<, Nat), Nat)
  BY NatLessThanWellFounded
<1>3. PICK R : IsWellFoundedOn(R, Nat) /\ \A x, y \in Nat : <<y, x>> \in R <=> y < x
  BY <1>1, <1>2, Zenon
<1> QED
  BY <1>3, LeastOf

(* The first request that is not cancelled, or the end of the queue.       *)
LEMMA FirstLiveExists ==
    ASSUME NEW q \in Seq(Requests)
    PROVE  /\ FirstLive(q) \in 1 .. Len(q) + 1
           /\ FirstLive(q) <= Len(q) => q[FirstLive(q)] \notin cancelled
           /\ \A j \in 1 .. FirstLive(q) - 1 : q[j] \in cancelled
<1> DEFINE T == {i \in 1 .. Len(q) + 1 : i <= Len(q) => q[i] \notin cancelled}
<1>1. Len(q) \in Nat /\ Len(q) + 1 \in T /\ T \in SUBSET Nat
  OBVIOUS
<1>2. PICK n \in T : \A i \in T : n <= i
  BY <1>1, LeastElement
<1>3. \A j \in 1 .. n - 1 : q[j] \in cancelled
  BY <1>1, <1>2
<1>4. \E i \in 1 .. Len(q) + 1 :
        /\ \A j \in 1 .. i - 1 : q[j] \in cancelled
        /\ i <= Len(q) => q[i] \notin cancelled
  BY <1>2, <1>3
<1> QED
  BY <1>4 DEF FirstLive

LEMMA RangeOfSeq ==
    ASSUME NEW q \in Seq(Requests)
    PROVE  /\ Range(q) \in SUBSET Requests
           /\ \A r : r \in Range(q) <=> \E i \in 1 .. Len(q) : q[i] = r
           /\ DOMAIN q = 1 .. Len(q) /\ Len(q) \in Nat
           /\ q # << >> => /\ Head(q) \in Range(q) /\ Head(q) = q[1] /\ Len(q) > 0
                           /\ Tail(q) \in Seq(Requests) /\ Len(Tail(q)) = Len(q) - 1
                           /\ \A i \in 1 .. Len(q) - 1 : Tail(q)[i] = q[i + 1]
                           /\ Range(Tail(q)) \subseteq Range(q)
           /\ q = << >> => Range(q) = {}
<1>1. Range(q) = {q[i] : i \in 1 .. Len(q)} /\ DOMAIN q = 1 .. Len(q) /\ Len(q) \in Nat
  BY DEF Range
<1>2. ASSUME q # << >>
      PROVE  /\ Head(q) = q[1] /\ Len(q) > 0 /\ Tail(q) \in Seq(Requests) /\ Len(Tail(q)) = Len(q) - 1
             /\ \A i \in 1 .. Len(q) - 1 : Tail(q)[i] = q[i + 1]
  BY <1>2
<1>3. ASSUME q # << >> PROVE Range(Tail(q)) \subseteq Range(q)
  <2>1. PICK s \in Seq(Requests) : /\ s = Tail(q) /\ Len(s) = Len(q) - 1
                                   /\ \A i \in 1 .. Len(q) - 1 : s[i] = q[i + 1]
    BY <1>2, <1>3
  <2>2. Range(s) = {s[i] : i \in 1 .. Len(s)} /\ Len(s) \in Nat
    BY DEF Range
  <2>3. \A i \in 1 .. Len(s) : s[i] = q[i + 1] /\ i + 1 \in 1 .. Len(q)
    BY <1>1, <2>1
  <2>4. Range(s) \subseteq Range(q)
    BY <1>1, <2>2, <2>3
  <2> QED
    BY <2>1, <2>4
<1>4. q # << >> => Head(q) \in Range(q)
  BY <1>1, <1>2
<1>5. Range(q) \in SUBSET Requests
  BY <1>1
<1>6. q = << >> => Range(q) = {}
  BY <1>1
<1> QED
  BY <1>1, <1>2, <1>3, <1>4, <1>5, <1>6

Links == {"down", "connecting", "up", "advertised", "linked"}

(* What startNextPendingConnections does. *)
LEMMA StartNextEffect ==
    ASSUME NEW q \in Seq(Requests), NEW l \in [Peers -> Links],
           NEW t \in [Requests -> {"unset", "failed", "set"}], NEW a \in SUBSET Requests,
           StartNext(q, l, t, a)
    PROVE  /\ queue' \in Seq(Requests) /\ link' \in [Peers -> Links]
           /\ tce' \in [Requests -> {"unset", "failed", "set"}] /\ abandoned' \in SUBSET Requests
           /\ \E k \in 0 .. Len(q) : /\ Len(queue') = Len(q) - k
                                     /\ \A i \in 1 .. Len(queue') : queue'[i] = q[i + k]
           /\ \A p \in Peers : link'[p] = l[p] \/ (l[p] = "down" /\ link'[p] = "connecting")
           /\ \A r \in Requests :
                tce'[r] = t[r] \/ (t[r] = "unset" /\ tce'[r] = "failed" /\ r \in Range(q))
           /\ a \subseteq abandoned'
           /\ queue' # << >> => \/ Head(queue') \in abandoned'
                                \/ /\ target[Head(queue')] \in Peers
                                   => link'[target[Head(queue')]] = "connecting"
           /\ cancelled = {} => /\ queue' = q
                                /\ \A p \in Peers : link'[p] # l[p] =>
                                     q # << >> /\ p = target[Head(q)]
<1> DEFINE n == FirstLive(q)
           called == {q[i] : i \in (1 .. n) \cap DOMAIN q}
<1>1. PICK started \in SUBSET called :
        /\ \A r \in started : l[target[r]] = "down"
        /\ queue' = SubSeq(q, n, Len(q))
        /\ link' = [p \in Peers |-> IF \E r \in started : target[r] = p
                                    THEN "connecting" ELSE l[p]]
        /\ tce' = [r \in Requests |-> IF r \in called \ started /\ t[r] = "unset"
                                      THEN "failed" ELSE t[r]]
        /\ abandoned' = a \cup ((called \ started) \cap Range(queue'))
  BY DEF StartNext
<1>2. /\ n \in 1 .. Len(q) + 1
      /\ n <= Len(q) => q[n] \notin cancelled
      /\ \A j \in 1 .. n - 1 : q[j] \in cancelled
  BY FirstLiveExists
<1>3. Len(q) \in Nat /\ DOMAIN q = 1 .. Len(q) /\ called \subseteq Range(q) /\ Range(q) \in SUBSET Requests
  BY RangeOfSeq
<1> HIDE DEF n
<1>4. /\ queue' \in Seq(Requests) /\ Len(queue') = Len(q) - (n - 1)
      /\ \A i \in 1 .. Len(queue') : queue'[i] = q[i + (n - 1)]
  BY <1>1, <1>2, <1>3
<1>5. n - 1 \in 0 .. Len(q)
  BY <1>2, <1>3
<1>6. link' \in [Peers -> Links]
  BY <1>1 DEF Links
<1>7. tce' \in [Requests -> {"unset", "failed", "set"}] /\ abandoned' \in SUBSET Requests
  BY <1>1, <1>3
<1>8. \A p \in Peers : link'[p] = l[p] \/ (l[p] = "down" /\ link'[p] = "connecting")
  BY <1>1
<1>9. \A r \in Requests :
        tce'[r] = t[r] \/ (t[r] = "unset" /\ tce'[r] = "failed" /\ r \in Range(q))
  BY <1>1, <1>3
<1>10. ASSUME queue' # << >>, Head(queue') \notin abandoned', target[Head(queue')] \in Peers
       PROVE  link'[target[Head(queue')]] = "connecting"
  <2>1. Head(queue') = q[n] /\ n \in 1 .. Len(q) /\ Head(queue') \in Range(queue')
    BY <1>2, <1>3, <1>4, <1>10, RangeOfSeq
  <2>2. q[n] \in called
    BY <1>3, <2>1
  <2>3. q[n] \in started
    BY <1>1, <1>10, <2>1, <2>2
  <2> QED
    BY <1>1, <1>10, <2>1, <2>3
<1>11. ASSUME cancelled = {}
       PROVE  /\ queue' = q
              /\ \A p \in Peers : link'[p] # l[p] => q # << >> /\ p = target[Head(q)]
  <2>1. n = 1
    BY <1>2, <1>3, <1>11
  <2>2. queue' = q
    BY <1>1, <1>3, <2>1
  <2>3. called \subseteq {q[1]} /\ (q = << >> => called = {})
    BY <1>3, <2>1
  <2>4. \A p \in Peers : link'[p] # l[p] => q # << >> /\ p = target[q[1]]
    BY <1>1, <2>3
  <2> QED
    BY <2>2, <2>4
<1> QED
  BY <1>1, <1>4, <1>5, <1>6, <1>7, <1>8, <1>9, <1>10, <1>11
-----------------------------------------------------------------------------
(* Types. *)
RepoTypes ==
    /\ repoLock \in Requests \cup {None}
    /\ byKey \in [Keys -> Entries]
    /\ byId \in [Peers -> Conns \cup {None}]
    /\ pendingP2P \in [Peers -> Requests \cup {None}]
    /\ waiters \in SUBSET Requests

QueueTypes ==
    /\ queue \in Seq(Requests)
    /\ link \in [Peers -> Links]
    /\ tce \in [Requests -> {"unset", "failed", "set"}]
    /\ abandoned \in SUBSET Requests

TransportTypes ==
    /\ handling \in Handlers /\ guids \in [Peers -> Conns \cup {None}] /\ undefined \in BOOLEAN

CallTypes ==
    /\ op \in [Requests -> {"none", "server", "client", "host"}]
    /\ target \in [Requests -> Peers \cup {None}]
    /\ pc \in [Requests -> {"idle", "factory", "insert", "add", "connect", "over"}]
    /\ cancelled \in SUBSET Requests
    /\ task \in [Requests -> {"none", "pending", "done", "failed"}]
    /\ early \in SUBSET Requests

ConnTypes ==
    /\ peer \in [Conns -> Peers \cup {None}]
    /\ state \in [Conns -> {"none", "connected", "closed"}]

LEMMA TypeParts ==
    /\ TypeOK <=> RepoTypes /\ QueueTypes /\ TransportTypes /\ CallTypes /\ ConnTypes
    /\ TypeOK' <=> RepoTypes' /\ QueueTypes' /\ TransportTypes' /\ CallTypes' /\ ConnTypes'
  BY DEF TypeOK, RepoTypes, QueueTypes, TransportTypes, CallTypes, ConnTypes, Links

LEMMA Names ==
    /\ Requests \subseteq Conns /\ Remotes \subseteq Conns /\ Requests \cap Remotes = {}
    /\ None \notin Conns /\ None \notin Peers /\ Servers \subseteq Peers /\ Remotes \subseteq Peers
    /\ Conns = Requests \cup Remotes
  BY DistinctNames DEF Conns, Peers

(* A handler that is run is about a peer and a connection. *)
LEMMA HandlerFields ==
    ASSUME TypeOK
    PROVE  /\ handling = Nobody <=> handling.do = "nothing"
           /\ handling # Nobody => /\ handling.do \in {"advertise", "new"}
                                   /\ handling.peer \in Peers /\ handling.conn \in Conns
  BY DEF TypeOK, Handlers, Nobody

LEMMA MakeHandler ==
    ASSUME NEW do \in {"advertise", "new"}, NEW p \in Peers, NEW o \in Conns
    PROVE  /\ [do |-> do, peer |-> p, conn |-> o] \in Handlers
           /\ [do |-> do, peer |-> p, conn |-> o] # Nobody
  BY DEF Handlers, Nobody

LEMMA EmplaceById ==
    ASSUME RepoTypes, NEW p, NEW o \in Conns
    PROVE  /\ Emplace(byId, p, o) \in [Peers -> Conns \cup {None}]
           /\ \A k \in Peers : k # p => Emplace(byId, p, o)[k] = byId[k]
           /\ p \in Peers =>
                \/ Emplace(byId, p, o)[p] = o
                \/ Emplace(byId, p, o)[p] = byId[p] /\ byId[p] # None
  BY DEF RepoTypes, Emplace

LEMMA EmplaceByKey ==
    ASSUME RepoTypes, NEW k, NEW e \in Entries
    PROVE  /\ Emplace(byKey, k, e) \in [Keys -> Entries]
           /\ \A j \in Keys : \/ Emplace(byKey, k, e)[j] = byKey[j]
                              \/ j = k /\ Emplace(byKey, k, e)[j] = e
  BY DEF RepoTypes, Emplace

LEMMA EmplacePending ==
    ASSUME RepoTypes, NEW p, NEW r \in Requests
    PROVE  /\ Emplace(pendingP2P, p, r) \in [Peers -> Requests \cup {None}]
           /\ \A j \in Peers : j # p => Emplace(pendingP2P, p, r)[j] = pendingP2P[j]
           /\ p \in Peers =>
                \/ Emplace(pendingP2P, p, r)[p] = r
                \/ Emplace(pendingP2P, p, r)[p] = pendingP2P[p] /\ pendingP2P[p] # None
  BY DEF RepoTypes, Emplace

LEMMA MakeEntry ==
    /\ \A r \in Requests : [kind |-> "task", of |-> r] \in Entries
    /\ \A o \in Conns : [kind |-> "connection", of |-> o] \in Entries
    /\ NoEntry \in Entries
  BY DEF Entries, NoEntry

LEMMA RepoTypeStep ==
    ASSUME TypeOK, Next
    PROVE  RepoTypes'
<1>0. RepoTypes /\ CallTypes /\ ConnTypes
  BY TypeParts
<1>1. ASSUME UNCHANGED repoVars PROVE RepoTypes'
  BY <1>0, <1>1 DEF RepoTypes, repoVars
<1>2. ASSUME NEW r \in Requests, UNCHANGED tableVars, repoLock' \in {repoLock, r, None} PROVE RepoTypes'
  BY <1>0, <1>2 DEF RepoTypes, tableVars
<1>3. ASSUME NEW r \in Requests, \E s \in Servers : GetServer(r, s) PROVE RepoTypes'
  BY <1>2, <1>3 DEF GetServer
<1>4. ASSUME NEW r \in Requests, FactoryThrows(r) PROVE RepoTypes'
  BY <1>2, <1>4 DEF FactoryThrows
<1>5. ASSUME NEW r \in Requests, StoreTask(r) PROVE RepoTypes'
  <2>1. byKey' \in [Keys -> Entries]
    BY <1>0, <1>5, EmplaceByKey, MakeEntry DEF StoreTask
  <2> QED
    BY <1>0, <1>5, <2>1 DEF RepoTypes, StoreTask
<1>6. ASSUME NEW r \in Requests, TaskFails(r) PROVE RepoTypes'
  BY <1>0, <1>6, MakeEntry DEF RepoTypes, TaskFails
<1>7. ASSUME NEW r \in Requests, TaskSucceeds(r) PROVE RepoTypes'
  <2>1. byId' \in [Peers -> Conns \cup {None}]
    BY <1>0, <1>7, EmplaceById, Names DEF TaskSucceeds
  <2> QED
    BY <1>0, <1>7, <2>1 DEF RepoTypes, TaskSucceeds
<1>8. ASSUME NEW r \in Requests, AddPendingConnection(r) PROVE RepoTypes'
  <2>1. pendingP2P' \in [Peers -> Requests \cup {None}]
    BY <1>0, <1>8, EmplacePending DEF AddPendingConnection
  <2> QED
    BY <1>0, <1>8, <2>1 DEF RepoTypes, AddPendingConnection
<1>9. CASE NewConnection
  <2> DEFINE p == handling.peer
             o == handling.conn
  <2>1. p \in Peers /\ o \in Conns
    BY <1>9, HandlerFields DEF NewConnection
  <2>2. /\ byId' = Emplace(byId, p, o) /\ byKey' = Emplace(byKey, Key(o), [kind |-> "connection", of |-> o])
        /\ pendingP2P' = [pendingP2P EXCEPT ![p] = None] /\ waiters' = waiters \ {pendingP2P[p]}
        /\ repoLock' = repoLock
    BY <1>9 DEF NewConnection
  <2> HIDE DEF p, o
  <2>3. byId' \in [Peers -> Conns \cup {None}]
    BY <1>0, <2>1, <2>2, EmplaceById
  <2>4. byKey' \in [Keys -> Entries]
    BY <1>0, <2>1, <2>2, EmplaceByKey, MakeEntry
  <2> QED
    BY <1>0, <2>1, <2>2, <2>3, <2>4 DEF RepoTypes
<1>10. ASSUME NEW p \in Peers, Lost(p) PROVE RepoTypes'
  BY <1>0, <1>10, MakeEntry DEF RepoTypes, Lost
<1>11. ASSUME NEW p \in Peers, Close(p) PROVE RepoTypes'
  BY <1>0, <1>11, MakeEntry DEF RepoTypes, Close
<1>12. ASSUME NEW r \in Requests,
              \/ Factory(r) \/ Cancel(r) \/ ConnectClient(r)
              \/ \E q \in Remotes, what \in {"client", "host"} : ConnectPeer(r, q, what)
       PROVE  RepoTypes'
  BY <1>1, <1>12 DEF Factory, Cancel, ConnectClient, ConnectPeer
<1>13. ASSUME NEW p \in Peers, \/ Accepted(p) \/ AttemptFailed(p) \/ Refused(p)
                               \/ ConnectionResult(p) \/ AdvertiseResponse(p)
       PROVE  RepoTypes'
  BY <1>1, <1>13 DEF Accepted, AttemptFailed, Refused, ConnectionResult, AdvertiseResponse
<1>14. CASE Advertise \/ \E q \in Remotes : AdvertiseRequest(q)
  BY <1>1, <1>14 DEF Advertise, AdvertiseRequest
<1> QED
  BY <1>3, <1>4, <1>5, <1>6, <1>7, <1>8, <1>9, <1>10, <1>11, <1>12, <1>13, <1>14
     DEF Next, Client, Transport

(* The call of startNextPendingConnections with the first removed.         *)
LEMMA ConnectTypes ==
    ASSUME TypeOK, NEW r \in Requests, Connect(r)
    PROVE  QueueTypes' /\ UNCHANGED <<handling, guids, undefined>>
<1>0. QueueTypes
  BY TypeParts
<1>1. CASE queue = << >>
  <2>1. StartNext(<<r>>, link, tce, abandoned) /\ <<r>> \in Seq(Requests)
    BY <1>1 DEF Connect
  <2> QED
    BY <1>0, <2>1, StartNextEffect DEF QueueTypes, Connect
<1>2. CASE queue # << >>
  BY <1>0, <1>2 DEF QueueTypes, Connect
<1> QED
  BY <1>1, <1>2

LEMMA QueueTypeStep ==
    ASSUME TypeOK, Next
    PROVE  QueueTypes'
<1>0. QueueTypes /\ queue \in Seq(Requests)
  BY TypeParts DEF QueueTypes
<1>1. ASSUME UNCHANGED queueVars PROVE QueueTypes'
  BY <1>0, <1>1 DEF QueueTypes, queueVars
<1>2. ASSUME NEW r \in Requests, Factory(r) \/ ConnectClient(r) PROVE QueueTypes'
  BY <1>2, ConnectTypes DEF Factory, ConnectClient
<1>3. queue # << >> => Head(queue) \in Requests /\ Tail(queue) \in Seq(Requests)
  BY <1>0, RangeOfSeq
<1>4. ASSUME NEW p \in Peers, NEW to \in Links, link' = [link EXCEPT ![p] = to], tce' = tce,
             queue' \in {queue, Tail(queue)}, queue # << >> \/ queue' = queue,
             abandoned' \in {abandoned, abandoned \cup {Head(queue)}},
             queue # << >> \/ abandoned' = abandoned
      PROVE  QueueTypes'
  BY <1>0, <1>3, <1>4 DEF QueueTypes
<1>5. \A p \in Peers : Left(p) \in {{}, {Head(queue)}} /\ (queue = << >> => Left(p) = {})
  BY DEF Left
<1>6. ASSUME NEW p \in Peers, Accepted(p) PROVE QueueTypes'
  BY <1>4, <1>6 DEF Accepted, HeadIsCancelled, Links
<1>7. ASSUME NEW p \in Peers, AttemptFailed(p) PROVE QueueTypes'
  <2> DEFINE l == [link EXCEPT ![p] = "down"]
             t == IF Head(queue) \in cancelled \/ tce[Head(queue)] # "unset"
                  THEN tce ELSE [tce EXCEPT ![Head(queue)] = "failed"]
  <2>1. l \in [Peers -> Links] /\ t \in [Requests -> {"unset", "failed", "set"}]
    BY <1>0 DEF QueueTypes, Links
  <2>2. CASE queue = << >>
    BY <1>4, <1>7, <2>2 DEF AttemptFailed, Links
  <2>3. CASE queue # << >>
    <3>1. StartNext(Tail(queue), l, t, abandoned)
      BY <1>7, <2>3 DEF AttemptFailed
    <3>2. abandoned \in SUBSET Requests
      BY <1>0 DEF QueueTypes
    <3> HIDE DEF l, t
    <3> QED
      BY <1>3, <2>1, <2>3, <3>1, <3>2, StartNextEffect DEF QueueTypes
  <2> QED
    BY <2>2, <2>3
<1>8. ASSUME NEW p \in Peers, Refused(p) PROVE QueueTypes'
  BY <1>4, <1>5, <1>8 DEF Refused, Links
<1>9. ASSUME NEW p \in Peers, ConnectionResult(p) PROVE QueueTypes'
  BY <1>4, <1>9 DEF ConnectionResult, Links
<1>10. ASSUME NEW p \in Peers, AdvertiseResponse(p) PROVE QueueTypes'
  <2> DEFINE l == [link EXCEPT ![p] = "down"]
  <2>1. l \in [Peers -> Links]
    BY <1>0 DEF QueueTypes, Links
  <2>2. CASE UNCHANGED queueVars
    BY <1>1, <2>2
  <2>3. CASE StartNext(Tail(queue), l, tce, abandoned) /\ queue # << >>
    <3> HIDE DEF l
    <3> QED
      BY <1>0, <1>3, <2>1, <2>3, StartNextEffect DEF QueueTypes
  <2>4. CASE /\ queue # << >> /\ link' = [link EXCEPT ![p] = "linked"]
             /\ queue' = Tail(queue) /\ UNCHANGED <<tce, abandoned>>
    BY <1>4, <2>4 DEF Links
  <2> QED
    BY <1>10, <2>2, <2>3, <2>4 DEF AdvertiseResponse, HeadIsCancelled
<1>11. ASSUME NEW q \in Remotes, AdvertiseRequest(q) PROVE QueueTypes'
  BY <1>4, <1>11, Names DEF AdvertiseRequest, Links
<1>12. CASE Advertise
  <2>1. handling.peer \in Peers
    BY <1>12, HandlerFields DEF Advertise
  <2> QED
    BY <1>4, <1>12, <2>1 DEF Advertise, Links
<1>13. CASE NewConnection
  <2> DEFINE o == handling.conn
             t == IF tce[o] = "unset" THEN [tce EXCEPT ![o] = "set"] ELSE tce
  <2>1. t \in [Requests -> {"unset", "failed", "set"}]
    BY <1>0 DEF QueueTypes
  <2>2. UNCHANGED queueVars \/ StartNext(queue, link, t, abandoned)
    BY <1>13 DEF NewConnection
  <2> HIDE DEF t
  <2> QED
    BY <1>0, <1>1, <2>1, <2>2, StartNextEffect DEF QueueTypes
<1>14. ASSUME NEW p \in Peers, Lost(p) PROVE QueueTypes'
  BY <1>4, <1>5, <1>14 DEF Lost, Links
<1>15. ASSUME NEW p \in Peers, Close(p) PROVE QueueTypes'
  BY <1>4, <1>15 DEF Close, Links
<1>16. ASSUME NEW r \in Requests,
              \/ FactoryThrows(r) \/ StoreTask(r) \/ TaskFails(r) \/ TaskSucceeds(r) \/ Cancel(r)
              \/ AddPendingConnection(r) \/ \E s \in Servers : GetServer(r, s)
              \/ \E q \in Remotes, what \in {"client", "host"} : ConnectPeer(r, q, what)
       PROVE  QueueTypes'
  BY <1>1, <1>16 DEF FactoryThrows, StoreTask, TaskFails, TaskSucceeds, Cancel,
                     AddPendingConnection, GetServer, ConnectPeer, transportVars
<1> QED
  BY <1>2, <1>6, <1>7, <1>8, <1>9, <1>10, <1>11, <1>12, <1>13, <1>14, <1>15, <1>16
     DEF Next, Client, Transport

LEMMA TransportTypeStep ==
    ASSUME TypeOK, Next
    PROVE  TransportTypes'
<1>0. TransportTypes
  BY TypeParts
<1>1. ASSUME UNCHANGED <<handling, guids, undefined>> PROVE TransportTypes'
  BY <1>0, <1>1 DEF TransportTypes
<1>2. ASSUME UNCHANGED transportVars PROVE TransportTypes'
  BY <1>1, <1>2 DEF transportVars
<1>3. queue # << >> => Head(queue) \in Conns
  BY RangeOfSeq, Names DEF TypeOK
<1>4. Nobody \in Handlers
  BY DEF Handlers
<1>5. ASSUME NEW r \in Requests, Client(r) PROVE TransportTypes'
  BY <1>1, <1>2, <1>5, ConnectTypes
     DEF Client, FactoryThrows, StoreTask, TaskFails, TaskSucceeds, Cancel,
         AddPendingConnection, GetServer, ConnectPeer, Factory, ConnectClient
<1>6. ASSUME NEW p \in Peers, Accepted(p) PROVE TransportTypes'
  BY <1>0, <1>3, <1>4, <1>6, MakeHandler DEF TransportTypes, Accepted, HeadIsP2P
<1>7. ASSUME NEW p \in Peers, ConnectionResult(p) PROVE TransportTypes'
  BY <1>0, <1>3, <1>7, MakeHandler DEF TransportTypes, ConnectionResult
<1>8. ASSUME NEW p \in Peers, AdvertiseResponse(p) PROVE TransportTypes'
  BY <1>0, <1>3, <1>8, MakeHandler DEF TransportTypes, AdvertiseResponse
<1>9. ASSUME NEW q \in Remotes, AdvertiseRequest(q) PROVE TransportTypes'
  BY <1>0, <1>9, MakeHandler, Names DEF TransportTypes, AdvertiseRequest
<1>10. CASE Advertise
  BY <1>0, <1>4, <1>10 DEF TransportTypes, Advertise
<1>11. CASE NewConnection
  <2>1. handling.peer \in Peers /\ handling.conn \in Conns
    BY <1>11, HandlerFields DEF NewConnection
  <2>2. handling' = Nobody /\ undefined' = undefined
        /\ guids' = [guids EXCEPT ![handling.peer] = handling.conn]
    BY <1>11 DEF NewConnection
  <2> QED
    BY <1>0, <1>4, <2>1, <2>2 DEF TransportTypes
<1>12. ASSUME NEW p \in Peers, AttemptFailed(p) \/ Refused(p) \/ Close(p) PROVE TransportTypes'
  BY <1>1, <1>12 DEF AttemptFailed, Refused, Close
<1>13. ASSUME NEW p \in Peers, Lost(p) PROVE TransportTypes'
  BY <1>0, <1>13 DEF TransportTypes, Lost
<1> QED
  BY <1>5, <1>6, <1>7, <1>8, <1>9, <1>10, <1>11, <1>12, <1>13 DEF Next, Transport

LEMMA CallTypeStep ==
    ASSUME TypeOK, Next
    PROVE  CallTypes'
<1>0. CallTypes
  BY TypeParts
<1>1. ASSUME UNCHANGED callVars PROVE CallTypes'
  BY <1>0, <1>1 DEF CallTypes, callVars
<1>2. ASSUME NEW r \in Requests, Client(r) PROVE CallTypes'
  <2> USE <1>0 DEF CallTypes
  <2>1. ASSUME NEW s \in Servers, GetServer(r, s) PROVE CallTypes'
    BY <2>1, Names DEF GetServer
  <2>2. CASE FactoryThrows(r)
    BY <2>2 DEF FactoryThrows
  <2>3. CASE Factory(r)
    BY <2>3 DEF Factory
  <2>4. CASE StoreTask(r)
    BY <2>4 DEF StoreTask
  <2>5. CASE TaskFails(r)
    BY <2>5 DEF TaskFails
  <2>6. CASE TaskSucceeds(r)
    BY <2>6 DEF TaskSucceeds
  <2>7. CASE Cancel(r)
    BY <2>7 DEF Cancel
  <2>8. ASSUME NEW q \in Remotes, NEW what \in {"client", "host"}, ConnectPeer(r, q, what)
        PROVE  CallTypes'
    BY <2>8, Names DEF ConnectPeer
  <2>9. CASE AddPendingConnection(r)
    BY <2>9 DEF AddPendingConnection
  <2>10. CASE ConnectClient(r)
    BY <2>10 DEF ConnectClient
  <2> QED
    BY <1>2, <2>1, <2>2, <2>3, <2>4, <2>5, <2>6, <2>7, <2>8, <2>9, <2>10 DEF Client
<1>3. ASSUME NEW p \in Peers, Transport(p) \/ Close(p) PROVE UNCHANGED callVars
  BY <1>3 DEF Transport, Accepted, AttemptFailed, Refused, Lost, ConnectionResult,
              AdvertiseResponse, Close
<1>4. ASSUME Advertise \/ NewConnection \/ \E q \in Remotes : AdvertiseRequest(q)
      PROVE  UNCHANGED callVars
  BY <1>4 DEF Advertise, NewConnection, AdvertiseRequest
<1> QED
  BY <1>1, <1>2, <1>3, <1>4 DEF Next

LEMMA ConnTypeStep ==
    ASSUME TypeOK, Next
    PROVE  ConnTypes'
<1>0. ConnTypes
  BY TypeParts
<1>1. ASSUME UNCHANGED connVars PROVE ConnTypes'
  BY <1>0, <1>1 DEF ConnTypes, connVars
<1>2. ASSUME NEW r \in Requests, Client(r) PROVE UNCHANGED connVars
  BY <1>2 DEF Client, FactoryThrows, StoreTask, TaskFails, TaskSucceeds, Cancel,
              AddPendingConnection, GetServer, ConnectPeer, Factory, ConnectClient
<1>3. CASE NewConnection
  <2>1. handling.peer \in Peers
    BY <1>3, HandlerFields DEF NewConnection
  <2>2. /\ peer' = [peer EXCEPT ![handling.conn] = handling.peer]
        /\ state' = [state EXCEPT ![handling.conn] = "connected"]
    BY <1>3 DEF NewConnection
  <2> QED
    BY <1>0, <2>1, <2>2 DEF ConnTypes
<1>4. ASSUME NEW p \in Peers, Lost(p) \/ Close(p) PROVE ConnTypes'
  BY <1>0, <1>4 DEF ConnTypes, Lost, Close
<1>5. ASSUME NEW p \in Peers, \/ Accepted(p) \/ AttemptFailed(p) \/ Refused(p)
                              \/ ConnectionResult(p) \/ AdvertiseResponse(p)
      PROVE  UNCHANGED connVars
  BY <1>5 DEF Accepted, AttemptFailed, Refused, ConnectionResult, AdvertiseResponse
<1>6. ASSUME Advertise \/ \E q \in Remotes : AdvertiseRequest(q) PROVE UNCHANGED connVars
  BY <1>6 DEF Advertise, AdvertiseRequest
<1> QED
  BY <1>1, <1>2, <1>3, <1>4, <1>5, <1>6 DEF Next, Transport

LEMMA TypeStep ==
    ASSUME TypeOK, Next
    PROVE  TypeOK'
  BY TypeParts, RepoTypeStep, QueueTypeStep, TransportTypeStep, CallTypeStep, ConnTypeStep
-----------------------------------------------------------------------------
(* The requests, and what the repository remembers of them.                *)
CallInv ==
    /\ StartedHavePeers /\ TasksHaveTheirKey /\ EarlyBeforeStored
    /\ WaitersAreP2P /\ PendingIsRemembered

callView == <<op, target, pc, task, early, byKey, pendingP2P, waiters>>

LEMMA ErasedKeys ==
    ASSUME TypeOK, CallInv, UNCHANGED <<op, target, pc, task, early, pendingP2P, waiters>>,
           \A k \in Keys : byKey'[k] = byKey[k] \/ byKey'[k].kind # "task"
    PROVE  CallInv'
<1>1. StartedHavePeers' /\ EarlyBeforeStored' /\ WaitersAreP2P'
  BY DEF CallInv, StartedHavePeers, EarlyBeforeStored, WaitersAreP2P
<1>2. TasksHaveTheirKey'
  BY DEF CallInv, TasksHaveTheirKey
<1>3. PendingIsRemembered'
  BY DEF CallInv, PendingIsRemembered
<1> QED
  BY <1>1, <1>2, <1>3 DEF CallInv

LEMMA StartOfRequest ==
    ASSUME TypeOK, CallInv, NEW r \in Requests, NEW p \in Peers,
           NEW what \in {"server", "client", "host"}, NEW next \in {"factory", "add", "over"},
           pc[r] = "idle", next = "add" => what # "server", op' = [op EXCEPT ![r] = what],
           target' = [target EXCEPT ![r] = p],
           pc' = [pc EXCEPT ![r] = next],
           UNCHANGED <<task, early, byKey, pendingP2P, waiters>>
    PROVE  CallInv'
<1>0. CallTypes /\ RepoTypes
  BY TypeParts
<1>1. op[r] = "none" /\ r \notin waiters
  BY DEF CallInv, StartedHavePeers
<1>2. \A s \in Requests : s # r => op'[s] = op[s] /\ target'[s] = target[s] /\ pc'[s] = pc[s]
  BY <1>0 DEF CallTypes
<1>3. op'[r] = what /\ target'[r] = p /\ pc'[r] = next
  BY <1>0 DEF CallTypes
<1>4. StartedHavePeers'
  BY <1>2, <1>3 DEF CallInv, StartedHavePeers
<1>5. EarlyBeforeStored'
  BY <1>2, <1>3 DEF CallInv, EarlyBeforeStored
<1>6. \A k \in Keys : byKey[k].kind = "task" => byKey[k].of \in Requests \ {r}
  BY <1>0 DEF CallInv, TasksHaveTheirKey, RepoTypes, Entries, NoEntry
<1>7. TasksHaveTheirKey'
  BY <1>2, <1>6 DEF CallInv, TasksHaveTheirKey
<1>8. \A q \in Peers : pendingP2P[q] # None => pendingP2P[q] \in Requests \ {r}
  BY <1>0 DEF CallInv, WaitersAreP2P, RepoTypes
<1>9. waiters \subseteq Requests \ {r}
  BY <1>0, <1>1 DEF RepoTypes
<1>10. WaitersAreP2P'
  BY <1>2, <1>8, <1>9 DEF CallInv, WaitersAreP2P
<1>11. \A w \in waiters : \/ pendingP2P[target'[w]] = w
                          \/ \E s \in Requests \ {w} : /\ op'[s] \in {"client", "host"}
                                                        /\ target'[s] = target'[w]
  BY <1>1, <1>2, <1>9 DEF CallInv, PendingIsRemembered
<1>12. \A k \in Keys : byKey[k].kind = "task" /\ task[byKey[k].of] = "failed" => byKey[k].of \in early
  BY DEF CallInv, PendingIsRemembered
<1>13. PendingIsRemembered'
  BY <1>11, <1>12 DEF PendingIsRemembered
<1> QED
  BY <1>4, <1>5, <1>7, <1>10, <1>13 DEF CallInv

LEMMA StoreTaskCall ==
    ASSUME TypeOK, CallInv, NEW r \in Requests, StoreTask(r)
    PROVE  CallInv'
<1>0. CallTypes /\ RepoTypes
  BY TypeParts
<1>1. /\ pc[r] = "insert" /\ pc' = [pc EXCEPT ![r] = "over"]
      /\ UNCHANGED <<op, target, task, early, pendingP2P, waiters>>
      /\ \A k \in Keys : \/ byKey'[k] = byKey[k]
                         \/ k = target[r] /\ byKey'[k] = [kind |-> "task", of |-> r]
  BY <1>0, EmplaceByKey, MakeEntry DEF StoreTask
<1>2. pc'[r] = "over" /\ \A s \in Requests : s # r => pc'[s] = pc[s]
  BY <1>0, <1>1 DEF CallTypes
<1>3. StartedHavePeers' /\ EarlyBeforeStored' /\ WaitersAreP2P'
  BY <1>0, <1>1, <1>2 DEF CallInv, StartedHavePeers, EarlyBeforeStored, WaitersAreP2P, RepoTypes
<1>4. task[r] = "failed" => r \in early
  BY <1>1 DEF CallInv, EarlyBeforeStored
<1>5. TasksHaveTheirKey'
  <2> SUFFICES ASSUME NEW k \in Keys, byKey'[k].kind = "task"
               PROVE  /\ target[byKey'[k].of] = k /\ pc'[byKey'[k].of] = "over"
                      /\ task[byKey'[k].of] = "failed" => byKey'[k].of \in early
    BY <1>1 DEF TasksHaveTheirKey
  <2>1. CASE byKey'[k] = byKey[k]
    BY <1>0, <1>2, <2>1 DEF CallInv, TasksHaveTheirKey, RepoTypes, Entries, NoEntry
  <2>2. CASE k = target[r] /\ byKey'[k] = [kind |-> "task", of |-> r]
    BY <1>2, <1>4, <2>2
  <2> QED
    BY <1>1, <2>1, <2>2
<1>6. \A w \in waiters : \/ pendingP2P[target[w]] = w
                         \/ \E s \in Requests \ {w} : op[s] \in {"client", "host"} /\ target[s] = target[w]
  BY DEF CallInv, PendingIsRemembered
<1>7. PendingIsRemembered'
  BY <1>1, <1>5, <1>6 DEF PendingIsRemembered, TasksHaveTheirKey
<1> QED
  BY <1>3, <1>5, <1>7 DEF CallInv

LEMMA TaskFailsCall ==
    ASSUME TypeOK, CallInv, NEW r \in Requests, TaskFails(r)
    PROVE  CallInv'
<1>0. CallTypes /\ RepoTypes
  BY TypeParts
<1>1. /\ task' = [task EXCEPT ![r] = "failed"] /\ byKey' = [byKey EXCEPT ![target[r]] = NoEntry]
      /\ early \subseteq early' /\ (pc[r] = "insert" => r \in early')
      /\ UNCHANGED <<op, target, pc, pendingP2P, waiters>>
  BY DEF TaskFails
<1>2. \A s \in Requests : s # r => task'[s] = task[s]
  BY <1>0, <1>1 DEF CallTypes
<1>3. StartedHavePeers' /\ WaitersAreP2P'
  BY <1>1 DEF CallInv, StartedHavePeers, WaitersAreP2P
<1>4. EarlyBeforeStored'
  BY <1>1, <1>2 DEF CallInv, EarlyBeforeStored
<1>5. TasksHaveTheirKey'
  <2> SUFFICES ASSUME NEW k \in Keys, byKey'[k].kind = "task"
               PROVE  /\ target[byKey'[k].of] = k /\ pc[byKey'[k].of] = "over"
                      /\ task'[byKey'[k].of] = "failed" => byKey'[k].of \in early'
    BY <1>1 DEF TasksHaveTheirKey
  <2>1. byKey'[k] = byKey[k] /\ k # target[r]
    BY <1>0, <1>1 DEF RepoTypes, NoEntry
  <2>2. target[byKey[k].of] = k /\ byKey[k].of \in Requests
    BY <1>0, <2>1 DEF CallInv, TasksHaveTheirKey, RepoTypes, Entries, NoEntry
  <2> QED
    BY <1>1, <1>2, <2>1, <2>2 DEF CallInv, TasksHaveTheirKey
<1>6. \A w \in waiters : \/ pendingP2P[target[w]] = w
                         \/ \E s \in Requests \ {w} : op[s] \in {"client", "host"} /\ target[s] = target[w]
  BY DEF CallInv, PendingIsRemembered
<1>7. PendingIsRemembered'
  BY <1>1, <1>5, <1>6 DEF PendingIsRemembered, TasksHaveTheirKey
<1> QED
  BY <1>3, <1>4, <1>5, <1>7 DEF CallInv

LEMMA AddPendingCall ==
    ASSUME TypeOK, CallInv, NEW r \in Requests, AddPendingConnection(r)
    PROVE  CallInv'
<1>0. CallTypes /\ RepoTypes
  BY TypeParts
<1>1. /\ pc[r] = "add" /\ waiters' = waiters \cup {r} /\ pc'[r] \in {"connect", "over"}
      /\ \A s \in Requests : s # r => pc'[s] = pc[s]
      /\ UNCHANGED <<op, target, task, early, byKey>>
      /\ \A p \in Peers : p # target[r] => pendingP2P'[p] = pendingP2P[p]
      /\ \/ pendingP2P'[target[r]] = r
         \/ pendingP2P'[target[r]] = pendingP2P[target[r]] /\ pendingP2P[target[r]] # None
  <2>1. target[r] \in Peers
    BY DEF AddPendingConnection, CallInv, StartedHavePeers
  <2> QED
    BY <1>0, <2>1, EmplacePending DEF AddPendingConnection, CallTypes
<1>2. target[r] \in Peers /\ op[r] \in {"client", "host"}
  BY <1>1 DEF CallInv, StartedHavePeers
<1>3. StartedHavePeers' /\ EarlyBeforeStored'
  BY <1>1 DEF CallInv, StartedHavePeers, EarlyBeforeStored
<1>4. TasksHaveTheirKey'
  BY <1>0, <1>1 DEF CallInv, TasksHaveTheirKey, RepoTypes, Entries, NoEntry
<1>5. WaitersAreP2P'
  <2> SUFFICES ASSUME NEW p \in Peers, pendingP2P'[p] # None
               PROVE  /\ op[pendingP2P'[p]] \in {"client", "host"} /\ target[pendingP2P'[p]] = p
                      /\ pc'[pendingP2P'[p]] \in {"connect", "over"}
    BY <1>1, <1>2 DEF CallInv, WaitersAreP2P
  <2>1. CASE pendingP2P'[p] = pendingP2P[p]
    BY <1>0, <1>1, <2>1 DEF CallInv, WaitersAreP2P, RepoTypes
  <2>2. CASE p = target[r] /\ pendingP2P'[p] = r
    BY <1>1, <1>2, <2>2
  <2> QED
    BY <1>1, <2>1, <2>2
<1>6. PendingIsRemembered'
  <2>1. \A k \in Keys : byKey[k].kind = "task" /\ task[byKey[k].of] = "failed" => byKey[k].of \in early
    BY DEF CallInv, PendingIsRemembered
  <2>2. ASSUME NEW w \in waiters, w # r
        PROVE  \/ pendingP2P'[target[w]] = w
               \/ \E s \in Requests \ {w} : op[s] \in {"client", "host"} /\ target[s] = target[w]
    <3>1. w \in Requests /\ target[w] \in Peers /\ w # None
      BY <1>0, <2>2, DistinctNames DEF RepoTypes, CallInv, StartedHavePeers
    <3>2. CASE target[w] = target[r]
      BY <1>2, <2>2, <3>1, <3>2
    <3>3. CASE target[w] # target[r]
      BY <1>1, <2>2, <3>1, <3>3 DEF CallInv, PendingIsRemembered
    <3> QED
      BY <3>2, <3>3
  <2>3. \/ pendingP2P'[target[r]] = r
        \/ \E s \in Requests \ {r} : op[s] \in {"client", "host"} /\ target[s] = target[r]
    <3>1. CASE pendingP2P[target[r]] # None
      <4>1. PICK s \in Requests : s = pendingP2P[target[r]]
        BY <1>0, <1>2, <3>1 DEF RepoTypes
      <4>2. op[s] \in {"client", "host"} /\ target[s] = target[r] /\ pc[s] \in {"connect", "over"}
        BY <1>2, <3>1, <4>1 DEF CallInv, WaitersAreP2P
      <4> QED
        BY <1>1, <4>2
    <3> QED
      BY <1>1, <3>1
  <2> QED
    BY <1>1, <2>1, <2>2, <2>3 DEF PendingIsRemembered
<1> QED
  BY <1>3, <1>4, <1>5, <1>6 DEF CallInv

LEMMA NewConnectionCall ==
    ASSUME TypeOK, CallInv, NewConnection
    PROVE  CallInv'
<1>0. CallTypes /\ RepoTypes
  BY TypeParts
<1>1. PICK p \in Peers :
        /\ pendingP2P' = [pendingP2P EXCEPT ![p] = None] /\ waiters' = waiters \ {pendingP2P[p]}
        /\ \A k \in Keys : byKey'[k] = byKey[k] \/ byKey'[k].kind = "connection"
        /\ UNCHANGED <<op, target, pc, task, early>>
  <2>1. handling.peer \in Peers /\ handling.conn \in Conns
    BY HandlerFields DEF NewConnection
  <2>2. byKey' = Emplace(byKey, Key(handling.conn), [kind |-> "connection", of |-> handling.conn])
    BY DEF NewConnection
  <2>3. \A k \in Keys : byKey'[k] = byKey[k] \/ byKey'[k].kind = "connection"
    BY <1>0, <2>1, <2>2, EmplaceByKey, MakeEntry
  <2> QED
    BY <2>1, <2>3 DEF NewConnection, callVars
<1>2. StartedHavePeers' /\ EarlyBeforeStored'
  BY <1>1 DEF CallInv, StartedHavePeers, EarlyBeforeStored
<1>3. TasksHaveTheirKey'
  BY <1>1 DEF CallInv, TasksHaveTheirKey
<1>4. WaitersAreP2P'
  BY <1>0, <1>1 DEF CallInv, WaitersAreP2P, RepoTypes
<1>5. PendingIsRemembered'
  <2>1. \A k \in Keys : byKey'[k].kind = "task" /\ task[byKey'[k].of] = "failed" => byKey'[k].of \in early
    BY <1>1 DEF CallInv, PendingIsRemembered
  <2>2. \A w \in waiters' : \/ pendingP2P[target[w]] = w /\ target[w] # p
                            \/ \E s \in Requests \ {w} : op[s] \in {"client", "host"} /\ target[s] = target[w]
    BY <1>1 DEF CallInv, PendingIsRemembered
  <2>3. \A q : pendingP2P[q] # None /\ q # p => pendingP2P'[q] = pendingP2P[q]
    BY <1>0, <1>1 DEF RepoTypes
  <2>4. None \notin waiters'
    BY <1>0, <1>1, DistinctNames DEF RepoTypes
  <2>5. \A w \in waiters' : \/ pendingP2P'[target[w]] = w
                            \/ \E s \in Requests \ {w} : op[s] \in {"client", "host"} /\ target[s] = target[w]
    BY <2>2, <2>3, <2>4
  <2> QED
    BY <1>1, <2>1, <2>5 DEF PendingIsRemembered
<1> QED
  BY <1>2, <1>3, <1>4, <1>5 DEF CallInv

LEMMA CallStep ==
    ASSUME TypeOK, CallInv, Next
    PROVE  CallInv'
<1>0. CallTypes /\ RepoTypes
  BY TypeParts
<1>1. ASSUME UNCHANGED callView PROVE CallInv'
  BY <1>0, <1>1, ErasedKeys DEF callView
<1>2. ASSUME NEW r \in Requests, NEW s \in Servers, GetServer(r, s) PROVE CallInv'
  BY <1>2, StartOfRequest, Names DEF GetServer, tableVars
<1>3. ASSUME NEW r \in Requests, NEW q \in Remotes, NEW what \in {"client", "host"}, ConnectPeer(r, q, what)
      PROVE  CallInv'
  <2>1. PICK next \in {"add", "over"} : pc' = [pc EXCEPT ![r] = next]
    BY <1>3 DEF ConnectPeer
  <2> QED
    BY <1>3, <2>1, StartOfRequest, Names DEF ConnectPeer, repoVars
<1>4. ASSUME NEW r \in Requests, FactoryThrows(r) \/ Factory(r) \/ ConnectClient(r) PROVE CallInv'
  <2>1. /\ \A s \in Requests : s # r => pc'[s] = pc[s] /\ task'[s] = task[s]
        /\ \/ pc[r] = "factory" /\ pc'[r] = "over" /\ task'[r] = task[r]
           \/ pc[r] = "factory" /\ pc'[r] = "insert" /\ task'[r] = "pending"
           \/ pc[r] = "connect" /\ pc'[r] = "over" /\ task'[r] = task[r]
        /\ UNCHANGED <<op, target, early, byKey, pendingP2P, waiters>>
    BY <1>0, <1>4 DEF FactoryThrows, Factory, ConnectClient, tableVars, repoVars, CallTypes
  <2>2. StartedHavePeers'
    BY <2>1 DEF CallInv, StartedHavePeers
  <2>3. EarlyBeforeStored'
    BY <2>1 DEF CallInv, EarlyBeforeStored
  <2>4. \A k \in Keys : byKey[k].kind = "task" => byKey[k].of \in Requests \ {r}
    BY <1>0, <2>1 DEF CallInv, TasksHaveTheirKey, RepoTypes, Entries, NoEntry
  <2>5. TasksHaveTheirKey'
    BY <2>1, <2>4 DEF CallInv, TasksHaveTheirKey
  <2>6. WaitersAreP2P'
    BY <1>0, <2>1 DEF CallInv, WaitersAreP2P, RepoTypes
  <2>7. \A w \in waiters : \/ pendingP2P[target[w]] = w
                           \/ \E s \in Requests \ {w} : op[s] \in {"client", "host"} /\ target[s] = target[w]
    BY DEF CallInv, PendingIsRemembered
  <2>8. PendingIsRemembered'
    BY <2>1, <2>5, <2>7 DEF PendingIsRemembered, TasksHaveTheirKey
  <2> QED
    BY <2>2, <2>3, <2>5, <2>6, <2>8 DEF CallInv
<1>5. ASSUME NEW r \in Requests, TaskSucceeds(r) PROVE CallInv'
  <2>1. /\ task' = [task EXCEPT ![r] = "done"]
        /\ UNCHANGED <<op, target, pc, early, byKey, pendingP2P, waiters>>
    BY <1>5 DEF TaskSucceeds
  <2>2. \A s \in Requests : task'[s] = "failed" => task[s] = "failed"
    BY <1>0, <2>1 DEF CallTypes
  <2>3. StartedHavePeers' /\ EarlyBeforeStored' /\ WaitersAreP2P'
    BY <2>1, <2>2 DEF CallInv, StartedHavePeers, EarlyBeforeStored, WaitersAreP2P
  <2>4. \A k \in Keys : byKey[k].kind = "task" => byKey[k].of \in Requests
    BY <1>0 DEF RepoTypes, Entries, NoEntry
  <2>5. TasksHaveTheirKey'
    BY <2>1, <2>2, <2>4 DEF CallInv, TasksHaveTheirKey
  <2>6. PendingIsRemembered'
    BY <2>1, <2>2, <2>4 DEF CallInv, PendingIsRemembered
  <2> QED
    BY <2>3, <2>5, <2>6 DEF CallInv
<1>6. ASSUME NEW p \in Peers, Lost(p) \/ Close(p) PROVE CallInv'
  <2>1. UNCHANGED <<op, target, pc, task, early, pendingP2P, waiters>>
    BY <1>6 DEF Lost, Close, callVars
  <2>2. \A k \in Keys : byKey'[k] = byKey[k] \/ byKey'[k].kind # "task"
    BY <1>0, <1>6 DEF Lost, Close, RepoTypes, NoEntry
  <2> QED
    BY <2>1, <2>2, ErasedKeys
<1>7. ASSUME NEW r \in Requests, Cancel(r) PROVE UNCHANGED callView
  BY <1>7 DEF Cancel, callView, repoVars
<1>8. ASSUME NEW p \in Peers, \/ Accepted(p) \/ AttemptFailed(p) \/ Refused(p)
                              \/ ConnectionResult(p) \/ AdvertiseResponse(p)
      PROVE  UNCHANGED callView
  BY <1>8 DEF Accepted, AttemptFailed, Refused, ConnectionResult, AdvertiseResponse,
              callView, callVars, repoVars
<1>9. ASSUME Advertise \/ \E q \in Remotes : AdvertiseRequest(q) PROVE UNCHANGED callView
  BY <1>9 DEF Advertise, AdvertiseRequest, callView, callVars, repoVars
<1> QED
  BY <1>1, <1>2, <1>3, <1>4, <1>5, <1>6, <1>7, <1>8, <1>9,
     StoreTaskCall, TaskFailsCall, AddPendingCall, NewConnectionCall
     DEF Next, Client, Transport
-----------------------------------------------------------------------------
(* What the transport does to the queue, for the invariants about it.      *)
LEMMA StartNextQueue ==
    ASSUME NEW q \in Seq(Requests), NEW l \in [Peers -> Links],
           NEW t \in [Requests -> {"unset", "failed", "set"}], NEW a \in SUBSET Requests,
           StartNext(q, l, t, a)
    PROVE  /\ Range(queue') \subseteq Range(q)
           /\ (\A i, j \in DOMAIN q : q[i] = q[j] => i = j)
              => \A i, j \in DOMAIN queue' : queue'[i] = queue'[j] => i = j
           /\ \A p \in Peers : l[p] = "linked" => link'[p] = "linked"
           /\ \A r \in Requests : tce'[r] = "set" <=> t[r] = "set"
           /\ \A r \in Requests : r \notin Range(q) => tce'[r] = t[r]
<1>1. PICK k \in 0 .. Len(q) : /\ Len(queue') = Len(q) - k
                               /\ \A i \in 1 .. Len(queue') : queue'[i] = q[i + k]
  BY StartNextEffect
<1>2. PICK s \in Seq(Requests) : s = queue'
  BY StartNextEffect
<1>3. /\ DOMAIN q = 1 .. Len(q) /\ DOMAIN s = 1 .. Len(s) /\ Len(q) \in Nat /\ Len(s) \in Nat
      /\ \A r : r \in Range(s) <=> \E i \in 1 .. Len(s) : s[i] = r
      /\ \A r : r \in Range(q) <=> \E i \in 1 .. Len(q) : q[i] = r
  BY RangeOfSeq
<1>4. \A i \in 1 .. Len(s) : i + k \in 1 .. Len(q) /\ s[i] = q[i + k]
  BY <1>1, <1>2, <1>3
<1>5. Range(s) \subseteq Range(q)
  BY <1>3, <1>4
<1>6. (\A i, j \in DOMAIN q : q[i] = q[j] => i = j) => \A i, j \in DOMAIN s : s[i] = s[j] => i = j
  <2> SUFFICES ASSUME \A i, j \in DOMAIN q : q[i] = q[j] => i = j,
                      NEW i \in DOMAIN s, NEW j \in DOMAIN s, s[i] = s[j]
               PROVE  i = j
    OBVIOUS
  <2>1. i + k = j + k
    BY <1>3, <1>4
  <2> QED
    BY <1>3, <2>1
<1>7. \A p \in Peers : link'[p] = l[p] \/ (l[p] = "down" /\ link'[p] = "connecting")
  BY StartNextEffect
<1>8. \A r \in Requests :
        tce'[r] = t[r] \/ (t[r] = "unset" /\ tce'[r] = "failed" /\ r \in Range(q))
  BY StartNextEffect
<1> QED
  BY <1>2, <1>5, <1>6, <1>7, <1>8

LEMMA QueueOfTail ==
    ASSUME NEW q \in Seq(Requests), q # << >>, \A i, j \in DOMAIN q : q[i] = q[j] => i = j
    PROVE  /\ \A i, j \in DOMAIN Tail(q) : Tail(q)[i] = Tail(q)[j] => i = j
           /\ Head(q) \notin Range(Tail(q))
<1>1. PICK s \in Seq(Requests) : /\ s = Tail(q) /\ Len(s) = Len(q) - 1
                                 /\ \A i \in 1 .. Len(q) - 1 : s[i] = q[i + 1]
  BY RangeOfSeq
<1>2. /\ DOMAIN q = 1 .. Len(q) /\ DOMAIN s = 1 .. Len(s) /\ Len(q) \in Nat /\ Len(s) \in Nat
      /\ \A r : r \in Range(s) <=> \E i \in 1 .. Len(s) : s[i] = r
      /\ Head(q) = q[1] /\ Len(q) > 0
  BY RangeOfSeq
<1>3. \A i \in 1 .. Len(s) : i + 1 \in 1 .. Len(q) /\ s[i] = q[i + 1] /\ i + 1 # 1
  BY <1>1, <1>2
<1>4. \A i, j \in DOMAIN s : s[i] = s[j] => i = j
  <2> SUFFICES ASSUME NEW i \in DOMAIN s, NEW j \in DOMAIN s, s[i] = s[j]
               PROVE  i = j
    OBVIOUS
  <2>1. i + 1 = j + 1
    BY <1>2, <1>3
  <2> QED
    BY <1>2, <2>1
<1>5. Head(q) \notin Range(s)
  <2> SUFFICES ASSUME NEW i \in 1 .. Len(s), s[i] = q[1]
               PROVE  FALSE
    BY <1>2
  <2> QED
    BY <1>2, <1>3
<1> QED
  BY <1>1, <1>4, <1>5

LEMMA QueueOfAppend ==
    ASSUME NEW q \in Seq(Requests), NEW r \in Requests
    PROVE  /\ Append(q, r) \in Seq(Requests) /\ Append(q, r) # << >>
           /\ Range(Append(q, r)) = Range(q) \cup {r}
           /\ q # << >> => Head(Append(q, r)) = Head(q)
           /\ r \notin Range(q) /\ (\A i, j \in DOMAIN q : q[i] = q[j] => i = j)
              => \A i, j \in DOMAIN Append(q, r) : Append(q, r)[i] = Append(q, r)[j] => i = j
<1>1. PICK s \in Seq(Requests) : /\ s = Append(q, r) /\ Len(s) = Len(q) + 1 /\ s[Len(q) + 1] = r
                                 /\ \A i \in 1 .. Len(q) : s[i] = q[i]
  <2>1. Append(q, r) \in Seq(Requests) /\ Len(Append(q, r)) = Len(q) + 1
    OBVIOUS
  <2>2. Append(q, r)[Len(q) + 1] = r
    OBVIOUS
  <2>3. \A i \in 1 .. Len(q) : Append(q, r)[i] = q[i]
    OBVIOUS
  <2> QED
    BY <2>1, <2>2, <2>3
<1>2. /\ DOMAIN q = 1 .. Len(q) /\ DOMAIN s = 1 .. Len(s) /\ Len(q) \in Nat /\ Len(s) \in Nat
      /\ \A x : x \in Range(s) <=> \E i \in 1 .. Len(s) : s[i] = x
      /\ \A x : x \in Range(q) <=> \E i \in 1 .. Len(q) : q[i] = x
  BY RangeOfSeq
<1>3. 1 .. Len(s) = (1 .. Len(q)) \cup {Len(q) + 1}
  BY <1>1, <1>2
<1>4. Range(s) = Range(q) \cup {r}
  BY <1>1, <1>2, <1>3
<1>5. s # << >>
  BY <1>1, <1>2
<1>6. q # << >> => Head(s) = Head(q)
  <2> SUFFICES ASSUME q # << >> PROVE Head(s) = Head(q)
    OBVIOUS
  <2>1. Head(q) = q[1] /\ Head(s) = s[1] /\ 1 \in 1 .. Len(q)
    BY <1>5, <1>2, RangeOfSeq
  <2> QED
    BY <1>1, <2>1
<1>7. r \notin Range(q) /\ (\A i, j \in DOMAIN q : q[i] = q[j] => i = j)
      => \A i, j \in DOMAIN s : s[i] = s[j] => i = j
  BY <1>1, <1>2, <1>3
<1> QED
  BY <1>1, <1>4, <1>5, <1>6, <1>7

LEMMA QueueOfOne ==
    ASSUME NEW r \in Requests
    PROVE  /\ <<r>> \in Seq(Requests) /\ Range(<<r>>) = {r} /\ Head(<<r>>) = r
           /\ \A i, j \in DOMAIN <<r>> : <<r>>[i] = <<r>>[j] => i = j
  BY DEF Range

(* A new pending connection: the queue, and the attempt it may start.      *)
LEMMA ConnectEffect ==
    ASSUME TypeOK, NEW r \in Requests, Connect(r)
    PROVE  /\ handling = Nobody /\ UNCHANGED <<handling, guids, undefined>>
           /\ Range(queue') \subseteq Range(queue) \cup {r}
           /\ r \notin Range(queue) /\ (\A i, j \in DOMAIN queue : queue[i] = queue[j] => i = j)
              => \A i, j \in DOMAIN queue' : queue'[i] = queue'[j] => i = j
           /\ \A p \in Peers : link[p] = "linked" => link'[p] = "linked"
           /\ \A s \in Requests : tce'[s] = "set" <=> tce[s] = "set"
           /\ \A s \in Requests : s # r => tce'[s] = tce[s]
<1>0. QueueTypes
  BY TypeParts
<1>1. CASE queue = << >>
  <2>1. StartNext(<<r>>, link, tce, abandoned)
    BY <1>1 DEF Connect
  <2>2. PICK q \in Seq(Requests) : /\ q = <<r>> /\ Range(q) = {r}
                                   /\ \A i, j \in DOMAIN q : q[i] = q[j] => i = j
    BY QueueOfOne
  <2>3. StartNext(q, link, tce, abandoned)
    BY <2>1, <2>2
  <2>4. /\ Range(queue') \subseteq Range(q)
        /\ (\A i, j \in DOMAIN q : q[i] = q[j] => i = j)
           => \A i, j \in DOMAIN queue' : queue'[i] = queue'[j] => i = j
        /\ \A p \in Peers : link[p] = "linked" => link'[p] = "linked"
        /\ \A s \in Requests : tce'[s] = "set" <=> tce[s] = "set"
        /\ \A s \in Requests : s \notin Range(q) => tce'[s] = tce[s]
    BY <1>0, <2>3, StartNextQueue DEF QueueTypes
  <2>5. handling = Nobody /\ UNCHANGED <<handling, guids, undefined>>
    BY DEF Connect
  <2> QED
    BY <2>2, <2>4, <2>5
<1>2. CASE queue # << >>
  <2>1. queue' = Append(queue, r) /\ UNCHANGED <<link, tce, abandoned>>
    BY <1>2 DEF Connect
  <2>2. PICK q \in Seq(Requests) : q = Append(queue, r)
    BY <1>0, QueueOfAppend DEF QueueTypes
  <2>3. /\ Range(q) = Range(queue) \cup {r}
        /\ r \notin Range(queue) /\ (\A i, j \in DOMAIN queue : queue[i] = queue[j] => i = j)
           => \A i, j \in DOMAIN q : q[i] = q[j] => i = j
    BY <1>0, <2>2, QueueOfAppend DEF QueueTypes
  <2> QED
    BY <2>1, <2>2, <2>3 DEF Connect
<1> QED
  BY <1>1, <1>2

(* The head of the queue is removed, and the next request started.         *)
LEMMA StartAfterHead ==
    ASSUME TypeOK, queue # << >>, NEW m \in [Peers -> Links],
           NEW u \in [Requests -> {"unset", "failed", "set"}],
           StartNext(Tail(queue), m, u, abandoned)
    PROVE  /\ Range(queue') \subseteq Range(queue)
           /\ (\A i, j \in DOMAIN queue : queue[i] = queue[j] => i = j)
              => \A i, j \in DOMAIN queue' : queue'[i] = queue'[j] => i = j
           /\ \A p \in Peers : m[p] = "linked" => link'[p] = "linked"
           /\ \A r \in Requests : tce'[r] = "set" <=> u[r] = "set"
           /\ \A r \in Requests : r \notin Range(queue) => tce'[r] = u[r]
<1>1. queue \in Seq(Requests) /\ abandoned \in SUBSET Requests
  BY DEF TypeOK
<1>2. PICK s \in Seq(Requests) :
        /\ Range(s) \subseteq Range(queue)
        /\ (\A i, j \in DOMAIN queue : queue[i] = queue[j] => i = j)
           => \A i, j \in DOMAIN s : s[i] = s[j] => i = j
        /\ StartNext(s, m, u, abandoned)
  <2>1. Tail(queue) \in Seq(Requests) /\ Range(Tail(queue)) \subseteq Range(queue)
    BY <1>1, RangeOfSeq
  <2>2. (\A i, j \in DOMAIN queue : queue[i] = queue[j] => i = j)
        => \A i, j \in DOMAIN Tail(queue) : Tail(queue)[i] = Tail(queue)[j] => i = j
    BY <1>1, QueueOfTail
  <2> QED
    BY <2>1, <2>2, Zenon
<1>3. /\ Range(queue') \subseteq Range(s)
      /\ (\A i, j \in DOMAIN s : s[i] = s[j] => i = j)
         => \A i, j \in DOMAIN queue' : queue'[i] = queue'[j] => i = j
      /\ \A p \in Peers : m[p] = "linked" => link'[p] = "linked"
      /\ \A r \in Requests : tce'[r] = "set" <=> u[r] = "set"
      /\ \A r \in Requests : r \notin Range(s) => tce'[r] = u[r]
  <2>1. StartNext(s, m, u, abandoned)
    BY <1>2
  <2>2. Range(queue') \subseteq Range(s)
    BY <1>1, <2>1, StartNextQueue
  <2>3. (\A i, j \in DOMAIN s : s[i] = s[j] => i = j)
        => \A i, j \in DOMAIN queue' : queue'[i] = queue'[j] => i = j
    BY <1>1, <2>1, StartNextQueue
  <2>4. \A p \in Peers : m[p] = "linked" => link'[p] = "linked"
    BY <1>1, <2>1, StartNextQueue
  <2>5. \A r \in Requests : tce'[r] = "set" <=> u[r] = "set"
    BY <1>1, <2>1, StartNextQueue
  <2>6. \A r \in Requests : r \notin Range(s) => tce'[r] = u[r]
    BY <1>1, <2>1, StartNextQueue
  <2> QED
    BY <2>2, <2>3, <2>4, <2>5, <2>6
<1> QED
  BY <1>2, <1>3
-----------------------------------------------------------------------------
(* Nothing came of the requests that the transport does not know yet.      *)
Fresh(r) == pc[r] \in {"idle", "factory", "add", "connect"}

LEMMA KeepsFresh ==
    ASSUME FreshAreNowhere,
           \A r \in Requests : Fresh(r)' =>
               /\ Fresh(r) /\ task'[r] = task[r] /\ tce'[r] = tce[r] /\ state'[r] = state[r]
               /\ r \in Range(queue') => r \in Range(queue)
               /\ Handled(r)' => Handled(r) \/ r \in Range(queue)
    PROVE  FreshAreNowhere'
  BY DEF FreshAreNowhere, Fresh

LEMMA FreshStep ==
    ASSUME TypeOK, FreshAreNowhere, ObjectsHavePeers, TablesHaveTheirPeer, Next
    PROVE  FreshAreNowhere'
<1>0. CallTypes /\ QueueTypes /\ ConnTypes /\ TransportTypes
  BY TypeParts
<1>17. /\ queue \in Seq(Requests) /\ link \in [Peers -> Links] /\ abandoned \in SUBSET Requests
      /\ tce \in [Requests -> {"unset", "failed", "set"}]
  BY <1>0 DEF QueueTypes
<1> USE DEF Fresh, Handled
<1>1. ASSUME UNCHANGED <<pc, tce, state, queue, handling>>,
             \A r \in Requests : task[r] = "none" => task'[r] = "none"
      PROVE  FreshAreNowhere'
  BY <1>1 DEF FreshAreNowhere
<1>2. ASSUME NEW r \in Requests, NEW next, pc' = [pc EXCEPT ![r] = next], Fresh(r) \/ ~Fresh(r)',
             UNCHANGED <<task, tce, state, queue, handling>>
      PROVE  FreshAreNowhere'
  BY <1>0, <1>2 DEF FreshAreNowhere, CallTypes
<1>3. ASSUME NEW r \in Requests,
             \/ FactoryThrows(r) \/ StoreTask(r) \/ AddPendingConnection(r)
             \/ \E s \in Servers : GetServer(r, s)
             \/ \E q \in Remotes, what \in {"client", "host"} : ConnectPeer(r, q, what)
      PROVE  FreshAreNowhere'
  <2>1. \A next \in {"over", "connect", "add", "factory"} :
          pc' = [pc EXCEPT ![r] = next] => pc'[r] = next
    BY <1>0 DEF CallTypes
  <2>2. \E next \in {"over", "connect", "add", "factory"} :
          pc' = [pc EXCEPT ![r] = next] /\ (Fresh(r) \/ next = "over")
    BY <1>3 DEF FactoryThrows, StoreTask, AddPendingConnection, GetServer, ConnectPeer
  <2>3. UNCHANGED <<task, tce, state, queue, handling>>
    BY <1>3 DEF FactoryThrows, StoreTask, AddPendingConnection, GetServer, ConnectPeer,
                transportVars, queueVars, connVars
  <2> QED
    BY <1>2, <2>1, <2>2, <2>3
<1>4. ASSUME NEW r \in Requests, Factory(r) \/ ConnectClient(r) PROVE FreshAreNowhere'
  <2>1. Connect(r) /\ state' = state
    BY <1>4 DEF Factory, ConnectClient, connVars
  <2>2. /\ ~Fresh(r)' /\ \A s \in Requests : s # r => pc'[s] = pc[s] /\ task'[s] = task[s]
    BY <1>0, <1>4 DEF Factory, ConnectClient, CallTypes
  <2>3. /\ handling' = handling /\ Range(queue') \subseteq Range(queue) \cup {r}
        /\ \A s \in Requests : s # r => tce'[s] = tce[s]
    BY <2>1, ConnectEffect
  <2> QED
    BY <2>1, <2>2, <2>3, KeepsFresh
<1>5. ASSUME NEW r \in Requests, TaskFails(r) \/ TaskSucceeds(r) \/ Cancel(r) PROVE FreshAreNowhere'
  <2>1. UNCHANGED <<pc, tce, state, queue, handling>>
    BY <1>5 DEF TaskFails, TaskSucceeds, Cancel, transportVars, queueVars, connVars
  <2>2. \A s \in Requests : task[s] = "none" => task'[s] = "none"
    BY <1>0, <1>5 DEF TaskFails, TaskSucceeds, Cancel, CallTypes
  <2> QED
    BY <1>1, <2>1, <2>2
<1>6. ASSUME UNCHANGED <<pc, task, state>>, tce' = tce, Range(queue') \subseteq Range(queue),
             \A r \in Requests : Handled(r)' => Handled(r) \/ r \in Range(queue)
      PROVE  FreshAreNowhere'
  BY <1>6, KeepsFresh
<1>7. queue # << >> => /\ Head(queue) \in Range(queue) /\ Tail(queue) \in Seq(Requests)
                       /\ Range(Tail(queue)) \subseteq Range(queue)
  BY <1>0, RangeOfSeq DEF QueueTypes
<1>8. ASSUME NEW p \in Peers, Accepted(p) \/ Refused(p) PROVE FreshAreNowhere'
  <2>1. UNCHANGED <<pc, task, state, tce, queue>>
    BY <1>8 DEF Accepted, Refused, callVars, connVars
  <2>2. \A r : ~Handled(r)' \/ handling' = handling
    BY <1>8 DEF Accepted, Refused, Nobody
  <2> QED
    BY <1>6, <2>1, <2>2
<1>9. CASE Advertise
  BY <1>6, <1>9 DEF Advertise, Nobody, callVars, connVars
<1>10. ASSUME NEW p \in Peers, AttemptFailed(p) PROVE FreshAreNowhere'
  <2>1. UNCHANGED <<pc, task, state, handling>>
    BY <1>10 DEF AttemptFailed, callVars, connVars
  <2>2. CASE queue = << >>
    BY <1>6, <1>10, <2>1, <2>2 DEF AttemptFailed
  <2>3. CASE queue # << >>
    <3> DEFINE l == [link EXCEPT ![p] = "down"]
               t == IF Head(queue) \in cancelled \/ tce[Head(queue)] # "unset"
                    THEN tce ELSE [tce EXCEPT ![Head(queue)] = "failed"]
    <3>1. l \in [Peers -> Links] /\ t \in [Requests -> {"unset", "failed", "set"}]
      BY <1>0 DEF QueueTypes, Links
    <3>2. StartNext(Tail(queue), l, t, abandoned)
      BY <1>10, <2>3 DEF AttemptFailed
    <3>3. \A r \in Requests : r \notin Range(queue) => t[r] = tce[r]
      BY <1>0, <1>7, <2>3 DEF QueueTypes
    <3> HIDE DEF l, t
    <3>4. /\ Range(queue') \subseteq Range(queue)
          /\ \A r \in Requests : r \notin Range(queue) => tce'[r] = t[r]
      BY <2>3, <3>1, <3>2, StartAfterHead
    <3>5. \A r \in Requests : Fresh(r) => r \notin Range(queue)
      BY DEF FreshAreNowhere
    <3>6. \A r \in Requests : Fresh(r) => tce'[r] = tce[r]
      BY <1>7, <2>3, <3>3, <3>4, <3>5
    <3> QED
      BY <1>7, <2>1, <2>3, <3>4, <3>6, KeepsFresh
  <2> QED
    BY <2>2, <2>3
<1>11. ASSUME NEW p \in Peers, ConnectionResult(p) PROVE FreshAreNowhere'
  <2>1. UNCHANGED <<pc, task, state, tce>>
    BY <1>11 DEF ConnectionResult, callVars, connVars
  <2>2. \/ UNCHANGED <<queue, handling>>
        \/ queue # << >> /\ queue' = Tail(queue) /\ handling'.conn = Head(queue)
    BY <1>11 DEF ConnectionResult
  <2> QED
    BY <1>6, <1>7, <2>1, <2>2
<1>12. ASSUME NEW p \in Peers, AdvertiseResponse(p) PROVE FreshAreNowhere'
  <2>1. UNCHANGED <<pc, task, state>>
    BY <1>12 DEF AdvertiseResponse, callVars, connVars
  <2>2. CASE UNCHANGED <<handling, queueVars>>
    BY <1>6, <2>1, <2>2 DEF queueVars
  <2>3. CASE /\ queue # << >> /\ queue' = Tail(queue) /\ handling'.conn = Head(queue) /\ tce' = tce
    BY <1>6, <1>7, <2>1, <2>3
  <2>4. CASE /\ queue # << >> /\ handling' = handling
             /\ StartNext(Tail(queue), [link EXCEPT ![p] = "down"], tce, abandoned)
    <3>1. PICK l \in [Peers -> Links] : StartNext(Tail(queue), l, tce, abandoned)
      BY <1>0, <2>4 DEF QueueTypes, Links
    <3>2. /\ Range(queue') \subseteq Range(queue)
          /\ \A r \in Requests : r \notin Range(queue) => tce'[r] = tce[r]
      BY <1>17, <2>4, <3>1, StartAfterHead
    <3>3. \A r \in Requests : Fresh(r) => r \notin Range(queue)
      BY DEF FreshAreNowhere
    <3>4. \A r \in Requests : Fresh(r) => tce'[r] = tce[r]
      BY <1>7, <2>4, <3>2, <3>3
    <3> QED
      BY <1>7, <2>1, <2>4, <3>2, <3>4, KeepsFresh
  <2> QED
    BY <1>12, <2>2, <2>3, <2>4 DEF AdvertiseResponse, HeadIsCancelled
<1>13. ASSUME NEW q \in Remotes, AdvertiseRequest(q) PROVE FreshAreNowhere'
  <2>1. UNCHANGED <<pc, task, state, tce, queue>> /\ handling'.conn = q
    BY <1>13 DEF AdvertiseRequest, callVars, connVars
  <2> QED
    BY <1>6, <2>1, Names
<1>14. CASE NewConnection
  <2> DEFINE o == handling.conn
             t == IF tce[o] = "unset" THEN [tce EXCEPT ![o] = "set"] ELSE tce
  <2>1. /\ UNCHANGED <<pc, task>> /\ handling' = Nobody /\ Handled(o)
        /\ state' = [state EXCEPT ![o] = "connected"]
        /\ UNCHANGED queueVars \/ StartNext(queue, link, t, abandoned)
    BY <1>14 DEF NewConnection, callVars
  <2>2. t \in [Requests -> {"unset", "failed", "set"}] /\ \A r \in Requests : r # o => t[r] = tce[r]
    BY <1>0 DEF QueueTypes
  <2>3. \A r \in Requests : Fresh(r) => r # o /\ r \notin Range(queue)
    BY <2>1 DEF FreshAreNowhere
  <2>4. \A r \in Requests : r # o => state'[r] = state[r]
    BY <1>0, <2>1, Names DEF ConnTypes
  <2> HIDE DEF o, t
  <2>5. /\ Range(queue') \subseteq Range(queue)
        /\ \A r \in Requests : r # o /\ r \notin Range(queue) => tce'[r] = tce[r]
    <3>1. CASE UNCHANGED queueVars
      BY <3>1 DEF queueVars
    <3>2. CASE StartNext(queue, link, t, abandoned)
      <4>1. /\ Range(queue') \subseteq Range(queue)
            /\ \A r \in Requests : r \notin Range(queue) => tce'[r] = t[r]
        BY <1>17, <2>2, <3>2, StartNextQueue
      <4> QED
        BY <2>2, <4>1
    <3> QED
      BY <2>1, <3>1, <3>2
  <2>6. \A r \in Requests : Fresh(r) =>
          tce'[r] = tce[r] /\ state'[r] = state[r] /\ (r \in Range(queue') => r \in Range(queue))
    BY <2>3, <2>4, <2>5
  <2>7. \A r : ~Handled(r)'
    BY <2>1 DEF Nobody
  <2> QED
    BY <2>1, <2>6, <2>7, KeepsFresh
<1>15. ASSUME NEW p \in Peers, Lost(p) \/ Close(p) PROVE FreshAreNowhere'
  <2>1. UNCHANGED <<pc, task, tce, queue, handling>>
    BY <1>15 DEF Lost, Close, callVars
  <2>2. state' = state \/ \E o \in Conns : state[o] # "none" /\ state' = [state EXCEPT ![o] = "closed"]
    <3>1. CASE Lost(p) /\ guids[p] # None
      <4>1. guids[p] \in Conns /\ peer[guids[p]] = p /\ p # None
        BY <1>0, <3>1, Names DEF TransportTypes, TablesHaveTheirPeer
      <4>2. state[guids[p]] # "none"
        BY <4>1 DEF ObjectsHavePeers
      <4> QED
        BY <3>1, <4>1, <4>2 DEF Lost
    <3>2. CASE Lost(p) /\ guids[p] = None
      BY <3>2 DEF Lost
    <3>3. CASE Close(p)
      <4>1. byId[p] \in Conns
        BY <3>3 DEF Close, TypeOK
      <4> QED
        BY <3>3, <4>1 DEF Close
    <3> QED
      BY <1>15, <3>1, <3>2, <3>3
  <2>3. \A r \in Requests : Fresh(r) => state'[r] = state[r]
    BY <1>0, <2>2, Names DEF FreshAreNowhere, ConnTypes
  <2> QED
    BY <2>1, <2>3, KeepsFresh
<1> QED
  BY <1>3, <1>4, <1>5, <1>8, <1>9, <1>10, <1>11, <1>12, <1>13, <1>14, <1>15 DEF Next, Client, Transport
-----------------------------------------------------------------------------
(* The connection objects, and the tables that hold them.                  *)
ObjInv ==
    /\ ObjectsHavePeers /\ QueuedOnce /\ TablesHaveTheirPeer
    /\ OpenAreLinked /\ ClosedAreTasks

(* No connection is made or closed: the queue and the attempts change.     *)
LEMMA QuietObjects ==
    ASSUME ObjInv, UNCHANGED <<state, peer, guids, byId>>,
           \A r \in Requests : task[r] = "done" => task'[r] = "done",
           \A i, j \in DOMAIN queue' : queue'[i] = queue'[j] => i = j,
           \A r \in Range(queue') : state[r] = "none" /\ ~Handled(r)',
           \A r \in Requests : tce'[r] = "set" => tce[r] = "set",
           \A p \in Peers : link[p] = "linked" => link'[p] = "linked",
           handling'.do = "new" =>
               /\ state[handling'.conn] = "none" /\ link'[handling'.peer] = "linked"
               /\ \A q \in Remotes : handling'.conn = q => handling'.peer = q
               /\ handling' = handling \/ link[handling'.peer] # "linked",
           handling'.do = "advertise" => link'[handling'.peer] = "up",
           \A o \in Conns : peer[o] \in Peers \cup {None}, None \notin Peers
    PROVE  ObjInv'
<1>1. ObjectsHavePeers'
  BY DEF ObjInv, ObjectsHavePeers, Handled
<1>2. QueuedOnce'
  BY DEF ObjInv, QueuedOnce, Handled
<1>3. TablesHaveTheirPeer' /\ ClosedAreTasks'
  BY DEF ObjInv, TablesHaveTheirPeer, ClosedAreTasks
<1>4. OpenAreLinked'
  <2> SUFFICES ASSUME NEW o \in Conns, state[o] = "connected"
               PROVE  /\ guids[peer[o]] = o /\ link'[peer[o]] = "linked"
                      /\ ~(handling'.do = "new" /\ handling'.peer = peer[o])
                      /\ byId[peer[o]] # None
                      /\ byId[peer[o]] = o \/ state[byId[peer[o]]] = "closed"
    BY DEF OpenAreLinked
  <2>1. peer[o] \in Peers
    BY DEF ObjInv, ObjectsHavePeers
  <2>2. /\ guids[peer[o]] = o /\ link[peer[o]] = "linked"
        /\ ~(handling.do = "new" /\ handling.peer = peer[o])
        /\ byId[peer[o]] # None
        /\ byId[peer[o]] = o \/ state[byId[peer[o]]] = "closed"
    BY DEF ObjInv, OpenAreLinked
  <2> QED
    BY <2>1, <2>2
<1> QED
  BY <1>1, <1>2, <1>3, <1>4 DEF ObjInv

LEMMA ObjClientStep ==
    ASSUME TypeOK, FreshAreNowhere, ObjInv, NEW r \in Requests, Client(r)
    PROVE  ObjInv'
<1>0. CallTypes /\ QueueTypes /\ ConnTypes /\ TransportTypes /\ RepoTypes
  BY TypeParts
<1>1. ASSUME UNCHANGED <<state, peer, tce, handling, queue, link, byId, guids, task>>
      PROVE  ObjInv'
  <2>1. ObjectsHavePeers' /\ QueuedOnce'
    BY <1>1 DEF ObjInv, ObjectsHavePeers, QueuedOnce, Handled
  <2>2. TablesHaveTheirPeer' /\ OpenAreLinked' /\ ClosedAreTasks'
    BY <1>1 DEF ObjInv, TablesHaveTheirPeer, OpenAreLinked, ClosedAreTasks
  <2> QED
    BY <2>1, <2>2 DEF ObjInv
<1>2. CASE Factory(r) \/ ConnectClient(r)
  <2>1. Connect(r) /\ Fresh(r) /\ UNCHANGED <<state, peer, guids, byId>>
    BY <1>2 DEF Factory, ConnectClient, connVars, repoVars, Connect, Fresh
  <2>2. /\ handling = Nobody /\ handling' = handling
        /\ Range(queue') \subseteq Range(queue) \cup {r}
        /\ \A p \in Peers : link[p] = "linked" => link'[p] = "linked"
        /\ \A s \in Requests : tce'[s] = "set" <=> tce[s] = "set"
    BY <2>1, ConnectEffect
  <2>3. r \notin Range(queue) /\ state[r] = "none" /\ task[r] = "none"
    BY <2>1 DEF FreshAreNowhere, Fresh
  <2>4. \A i, j \in DOMAIN queue' : queue'[i] = queue'[j] => i = j
    BY <2>1, <2>3, ConnectEffect DEF ObjInv, QueuedOnce
  <2>5. \A s \in Range(queue') : state[s] = "none" /\ ~Handled(s)'
    BY <2>2, <2>3 DEF ObjInv, QueuedOnce, Handled, Nobody
  <2>6. \A o \in Conns : peer[o] \in Peers \cup {None}
    BY <1>0 DEF ConnTypes
  <2>7. \A s \in Requests : task[s] = "done" => task'[s] = "done"
    BY <1>0, <1>2, <2>3 DEF Factory, ConnectClient, CallTypes
  <2>8. handling'.do = "nothing"
    BY <2>2 DEF Nobody
  <2>9. \A s \in Requests : tce'[s] = "set" => tce[s] = "set"
    BY <2>2
  <2> QED
    BY <2>1, <2>2, <2>4, <2>5, <2>6, <2>7, <2>8, <2>9, Names, QuietObjects
<1>3. CASE TaskFails(r)
  <2>1. /\ UNCHANGED <<state, peer, tce, handling, queue, link, byId, guids>>
        /\ task[r] = "pending" /\ task' = [task EXCEPT ![r] = "failed"]
    BY <1>3 DEF TaskFails, transportVars, queueVars, connVars
  <2>2. ObjectsHavePeers' /\ QueuedOnce'
    BY <2>1 DEF ObjInv, ObjectsHavePeers, QueuedOnce, Handled
  <2>3. TablesHaveTheirPeer' /\ OpenAreLinked'
    BY <2>1 DEF ObjInv, TablesHaveTheirPeer, OpenAreLinked
  <2>4. ClosedAreTasks'
    BY <1>0, <2>1 DEF ObjInv, ClosedAreTasks, CallTypes
  <2> QED
    BY <2>2, <2>3, <2>4 DEF ObjInv
<1>4. CASE TaskSucceeds(r)
  <2>1. /\ UNCHANGED <<state, peer, tce, handling, queue, link, guids>>
        /\ tce[r] = "set" /\ task' = [task EXCEPT ![r] = "done"]
        /\ byId' = Emplace(byId, peer[r], r)
    BY <1>4 DEF TaskSucceeds, transportVars, queueVars, connVars
  <2>2. r \in Conns /\ peer[r] \in Peers
    BY <1>0, <2>1, Names DEF ObjInv, ObjectsHavePeers, ConnTypes
  <2>3. /\ \A p \in Peers : p # peer[r] => byId'[p] = byId[p]
        /\ \/ byId'[peer[r]] = r
           \/ byId'[peer[r]] = byId[peer[r]] /\ byId[peer[r]] # None
    BY <1>0, <2>1, <2>2, EmplaceById
  <2>4. ObjectsHavePeers' /\ QueuedOnce'
    BY <2>1 DEF ObjInv, ObjectsHavePeers, QueuedOnce, Handled
  <2>5. TablesHaveTheirPeer'
    BY <2>1, <2>2, <2>3 DEF ObjInv, TablesHaveTheirPeer
  <2>6. ClosedAreTasks'
    BY <1>0, <2>1, <2>2, <2>3 DEF ObjInv, ClosedAreTasks, CallTypes
  <2>7. \A o \in Conns : state[o] = "connected" => peer[o] \in Peers
    BY <1>0 DEF ObjInv, ObjectsHavePeers, ConnTypes
  <2>8. state[r] \in {"connected", "closed"}
    BY <1>0, <2>1, <2>2 DEF ObjInv, ObjectsHavePeers, ConnTypes
  <2>9. \A o \in Conns : state[o] = "connected" /\ peer[o] = peer[r] => o = r \/ state[r] = "closed"
    BY <2>2, <2>8 DEF ObjInv, OpenAreLinked
  <2>10. r # None
    BY DistinctNames
  <2>11. OpenAreLinked'
    BY <2>1, <2>3, <2>7, <2>9, <2>10 DEF ObjInv, OpenAreLinked
  <2> QED
    BY <2>4, <2>5, <2>6, <2>11 DEF ObjInv
<1>5. CASE \/ FactoryThrows(r) \/ StoreTask(r) \/ Cancel(r) \/ AddPendingConnection(r)
           \/ \E s \in Servers : GetServer(r, s)
           \/ \E q \in Remotes, what \in {"client", "host"} : ConnectPeer(r, q, what)
  BY <1>1, <1>5 DEF FactoryThrows, StoreTask, Cancel, AddPendingConnection, GetServer, ConnectPeer,
                    transportVars, queueVars, connVars, repoVars, tableVars
<1> QED
  BY <1>2, <1>3, <1>4, <1>5 DEF Client

LEMMA ObjTransportStep ==
    ASSUME TypeOK, ObjInv,
           \/ \E p \in Peers : \/ Accepted(p) \/ AttemptFailed(p) \/ Refused(p)
                               \/ ConnectionResult(p) \/ AdvertiseResponse(p)
           \/ \E q \in Remotes : AdvertiseRequest(q)
           \/ Advertise
    PROVE  ObjInv'
<1>0. /\ queue \in Seq(Requests) /\ link \in [Peers -> Links] /\ abandoned \in SUBSET Requests
      /\ tce \in [Requests -> {"unset", "failed", "set"}]
      /\ \A o \in Conns : peer[o] \in Peers \cup {None}
  BY TypeParts DEF QueueTypes, ConnTypes
<1>1. /\ \A i, j \in DOMAIN queue : queue[i] = queue[j] => i = j
      /\ \A r \in Range(queue) : state[r] = "none"
      /\ queue # << >> => /\ Head(queue) \in Range(queue) /\ Tail(queue) \in Seq(Requests)
                          /\ Range(Tail(queue)) \subseteq Range(queue)
                          /\ \A i, j \in DOMAIN Tail(queue) : Tail(queue)[i] = Tail(queue)[j] => i = j
                          /\ Head(queue) \notin Range(Tail(queue)) /\ Head(queue) \in Requests
  BY <1>0, RangeOfSeq, QueueOfTail DEF ObjInv, QueuedOnce
(* The queue shrinks; no handler is left, or one of a new attempt.         *)
<1>2. ASSUME UNCHANGED <<state, peer, guids, byId, task>>,
             \A i, j \in DOMAIN queue' : queue'[i] = queue'[j] => i = j,
             Range(queue') \subseteq Range(queue),
             \A r \in Requests : tce'[r] = "set" => tce[r] = "set",
             \A q \in Peers : link[q] = "linked" => link'[q] = "linked",
             \/ handling'.do = "nothing"
             \/ handling'.do = "advertise" /\ link'[handling'.peer] = "up"
      PROVE  ObjInv'
  <2>1. \A r \in Range(queue') : state[r] = "none" /\ ~Handled(r)'
    BY <1>1, <1>2 DEF Handled
  <2>2. handling'.do # "new" /\ (handling'.do = "advertise" => link'[handling'.peer] = "up")
    BY <1>2
  <2> QED
    BY <1>0, <1>2, <2>1, <2>2, QuietObjects, Names
(* A connection is about to be made.                                       *)
<1>3. ASSUME UNCHANGED <<state, peer, guids, byId, task, tce>>, NEW p \in Peers, NEW o \in Conns,
             \/ queue' = queue /\ o \notin Range(queue)
             \/ queue # << >> /\ queue' = Tail(queue) /\ o = Head(queue),
             o \in Remotes => o = p, state[o] = "none",
             link[p] # "linked", link' = [link EXCEPT ![p] = "linked"],
             handling' = [do |-> "new", peer |-> p, conn |-> o]
      PROVE  ObjInv'
  <2>1. /\ Range(queue') \subseteq Range(queue) /\ o \notin Range(queue')
        /\ \A i, j \in DOMAIN queue' : queue'[i] = queue'[j] => i = j
    BY <1>1, <1>3
  <2>2. handling'.do = "new" /\ handling'.peer = p /\ handling'.conn = o
    BY <1>3
  <2>3. \A r \in Range(queue') : state[r] = "none" /\ ~Handled(r)'
    BY <1>1, <2>1, <2>2 DEF Handled
  <2>4. link'[p] = "linked" /\ \A q \in Peers : link[q] = "linked" => link'[q] = "linked"
    BY <1>0, <1>3
  <2>5. \A q \in Remotes : handling'.conn = q => handling'.peer = q
    BY <1>3, <2>2
  <2> QED
    BY <1>0, <1>3, <2>1, <2>2, <2>3, <2>4, <2>5, QuietObjects, Names
<1>4. ASSUME NEW p \in Peers, Accepted(p) PROVE ObjInv'
  <2>1. /\ UNCHANGED <<state, peer, guids, byId, task, queue, tce>> /\ handling = Nobody
        /\ \E to \in {"down", "up"} : link' = [link EXCEPT ![p] = to] /\ link[p] = "connecting"
    BY <1>4 DEF Accepted, TransportIdle, connVars, repoVars, callVars
  <2>2. \A q \in Peers : link[q] = "linked" => link'[q] = "linked"
    BY <1>0, <2>1
  <2>3. \/ handling'.do = "nothing"
        \/ handling'.do = "advertise" /\ handling'.peer = p /\ link' = [link EXCEPT ![p] = "up"]
    BY <1>4, <2>1 DEF Accepted, Nobody
  <2>4. \/ handling'.do = "nothing"
        \/ handling'.do = "advertise" /\ link'[handling'.peer] = "up"
    BY <1>0, <2>3
  <2> QED
    BY <1>1, <1>2, <2>1, <2>2, <2>4
<1>5. ASSUME NEW p \in Peers, Refused(p) PROVE ObjInv'
  <2>1. /\ UNCHANGED <<state, peer, guids, byId, task, queue, tce>> /\ handling'.do = "nothing"
        /\ link' = [link EXCEPT ![p] = "down"] /\ link[p] = "connecting"
    BY <1>5 DEF Refused, TransportIdle, Nobody, connVars, repoVars, callVars
  <2>2. \A q \in Peers : link[q] = "linked" => link'[q] = "linked"
    BY <1>0, <2>1
  <2> QED
    BY <1>1, <1>2, <2>1, <2>2
<1>6. ASSUME NEW p \in Peers, AttemptFailed(p) PROVE ObjInv'
  <2> DEFINE l == [link EXCEPT ![p] = "down"]
             t == IF Head(queue) \in cancelled \/ tce[Head(queue)] # "unset"
                  THEN tce ELSE [tce EXCEPT ![Head(queue)] = "failed"]
  <2>1. UNCHANGED <<state, peer, guids, byId, task>> /\ handling'.do = "nothing"
    BY <1>6 DEF AttemptFailed, TransportIdle, Nobody, connVars, repoVars, callVars
  <2>2. /\ l \in [Peers -> Links] /\ t \in [Requests -> {"unset", "failed", "set"}]
        /\ \A q \in Peers : link[q] = "linked" => l[q] = "linked"
        /\ \A r \in Requests : t[r] = "set" => tce[r] = "set"
    BY <1>0, <1>6 DEF Links, AttemptFailed
  <2>3. CASE queue = << >>
    <3>1. UNCHANGED <<queue, tce>> /\ link' = l
      BY <1>6, <2>3 DEF AttemptFailed
    <3> QED
      BY <1>1, <1>2, <2>1, <2>2, <3>1
  <2>4. CASE queue # << >>
    <3>1. StartNext(Tail(queue), l, t, abandoned)
      BY <1>6, <2>4 DEF AttemptFailed
    <3> HIDE DEF l, t
    <3>2. /\ Range(queue') \subseteq Range(queue)
          /\ (\A i, j \in DOMAIN queue : queue[i] = queue[j] => i = j)
             => \A i, j \in DOMAIN queue' : queue'[i] = queue'[j] => i = j
          /\ \A q \in Peers : l[q] = "linked" => link'[q] = "linked"
          /\ \A r \in Requests : tce'[r] = "set" <=> t[r] = "set"
      BY <2>2, <2>4, <3>1, StartAfterHead
    <3> QED
      BY <1>1, <1>2, <2>1, <2>2, <3>2
  <2> QED
    BY <2>3, <2>4
<1>7. ASSUME NEW p \in Peers, ConnectionResult(p) PROVE ObjInv'
  <2>1. /\ UNCHANGED <<state, peer, guids, byId, task, tce>>
        /\ link' = [link EXCEPT ![p] = "linked"] /\ link[p] \in {"up", "advertised"}
    BY <1>7 DEF ConnectionResult, connVars, repoVars, callVars
  <2>2. CASE queue = << >>
    <3>1. UNCHANGED queue /\ handling'.do = "nothing"
      BY <1>7, <2>2 DEF ConnectionResult, TransportIdle, Nobody
    <3>2. \A q \in Peers : link[q] = "linked" => link'[q] = "linked"
      BY <1>0, <2>1
    <3> QED
      BY <1>1, <1>2, <2>1, <3>1, <3>2
  <2>3. CASE queue # << >>
    <3>1. queue' = Tail(queue) /\ handling' = [do |-> "new", peer |-> p, conn |-> Head(queue)]
      BY <1>7, <2>3 DEF ConnectionResult
    <3> QED
      BY <1>1, <1>3, <2>1, <2>3, <3>1, Names
  <2> QED
    BY <2>2, <2>3
<1>8. ASSUME NEW p \in Peers, AdvertiseResponse(p) PROVE ObjInv'
  <2>1. UNCHANGED <<state, peer, guids, byId, task>> /\ handling.do = "nothing" /\ link[p] = "advertised"
    BY <1>8 DEF AdvertiseResponse, TransportIdle, Nobody, connVars, repoVars, callVars
  <2>2. CASE UNCHANGED <<handling, queueVars>>
    BY <1>1, <1>2, <2>1, <2>2 DEF queueVars
  <2>3. CASE /\ queue # << >> /\ handling' = handling
             /\ StartNext(Tail(queue), [link EXCEPT ![p] = "down"], tce, abandoned)
    <3>1. PICK l \in [Peers -> Links] : /\ StartNext(Tail(queue), l, tce, abandoned)
                                        /\ \A q \in Peers : link[q] = "linked" => l[q] = "linked"
      BY <1>0, <2>1, <2>3 DEF Links
    <3>2. /\ Range(queue') \subseteq Range(queue)
          /\ (\A i, j \in DOMAIN queue : queue[i] = queue[j] => i = j)
             => \A i, j \in DOMAIN queue' : queue'[i] = queue'[j] => i = j
          /\ \A q \in Peers : l[q] = "linked" => link'[q] = "linked"
          /\ \A r \in Requests : tce'[r] = "set" <=> tce[r] = "set"
      BY <1>0, <2>3, <3>1, StartAfterHead
    <3> QED
      BY <1>1, <1>2, <2>1, <2>3, <3>1, <3>2
  <2>4. CASE /\ queue # << >> /\ link' = [link EXCEPT ![p] = "linked"] /\ tce' = tce
             /\ queue' = Tail(queue) /\ handling' = [do |-> "new", peer |-> p, conn |-> Head(queue)]
    BY <1>1, <1>3, <2>1, <2>4, Names
  <2> QED
    BY <1>8, <2>2, <2>3, <2>4 DEF AdvertiseResponse, HeadIsCancelled
<1>9. ASSUME NEW q \in Remotes, AdvertiseRequest(q) PROVE ObjInv'
  <2>1. /\ UNCHANGED <<state, peer, guids, byId, task, tce, queue>>
        /\ link[q] = "down" /\ state[q] = "none" /\ link' = [link EXCEPT ![q] = "linked"]
        /\ handling' = [do |-> "new", peer |-> q, conn |-> q]
    BY <1>9 DEF AdvertiseRequest, connVars, repoVars, callVars
  <2>2. q \in Peers /\ q \in Conns /\ q \notin Range(queue)
    BY <1>0, RangeOfSeq, Names
  <2> QED
    BY <1>3, <2>1, <2>2
<1>10. CASE Advertise
  <2>1. /\ UNCHANGED <<state, peer, guids, byId, task, tce, queue>> /\ handling'.do = "nothing"
        /\ link' = [link EXCEPT ![handling.peer] = "advertised"] /\ link[handling.peer] = "up"
    BY <1>10 DEF Advertise, Nobody, connVars, repoVars, callVars, ObjInv, QueuedOnce
  <2>2. \A q \in Peers : link[q] = "linked" => link'[q] = "linked"
    BY <1>0, <2>1
  <2> QED
    BY <1>1, <1>2, <2>1, <2>2
<1> QED
  BY <1>4, <1>5, <1>6, <1>7, <1>8, <1>9, <1>10

(* A connection is made: of the request handled, or of the remote peer.    *)
LEMMA ObjNewConnection ==
    ASSUME TypeOK, ObjInv, NewConnection
    PROVE  ObjInv'
<1>0. /\ queue \in Seq(Requests) /\ link \in [Peers -> Links] /\ abandoned \in SUBSET Requests
      /\ tce \in [Requests -> {"unset", "failed", "set"}]
      /\ peer \in [Conns -> Peers \cup {None}] /\ state \in [Conns -> {"none", "connected", "closed"}]
      /\ guids \in [Peers -> Conns \cup {None}] /\ byId \in [Peers -> Conns \cup {None}] /\ RepoTypes
  BY TypeParts DEF QueueTypes, ConnTypes, TransportTypes, RepoTypes
<1>1. PICK p \in Peers, o \in Conns : p = handling.peer /\ o = handling.conn
  BY HandlerFields DEF NewConnection
<1> DEFINE t == IF tce[o] = "unset" THEN [tce EXCEPT ![o] = "set"] ELSE tce
<1>2. /\ handling.do = "new" /\ handling'.do = "nothing" /\ task' = task
      /\ guids' = [guids EXCEPT ![p] = o] /\ byId' = Emplace(byId, p, o)
      /\ peer' = [peer EXCEPT ![o] = p] /\ state' = [state EXCEPT ![o] = "connected"]
      /\ IF o \in Requests THEN StartNext(queue, link, t, abandoned) ELSE UNCHANGED queueVars
  BY <1>1 DEF NewConnection, Nobody, callVars
<1>3. /\ t \in [Requests -> {"unset", "failed", "set"}]
      /\ \A r \in Requests : t[r] = "set" => tce[r] = "set" \/ r = o
  BY <1>0
<1> HIDE DEF t
<1>4. /\ o \notin Range(queue) /\ state[o] = "none" /\ link[p] = "linked" /\ peer[o] = None
      /\ o \in Remotes => o = p
  BY <1>1, <1>2 DEF ObjInv, QueuedOnce, ObjectsHavePeers, Handled
<1>5. /\ Range(queue') \subseteq Range(queue)
      /\ \A i, j \in DOMAIN queue' : queue'[i] = queue'[j] => i = j
      /\ \A q \in Peers : link[q] = "linked" => link'[q] = "linked"
      /\ \A r \in Requests : tce'[r] = "set" => tce[r] = "set" \/ r = o
  <2>1. \A i, j \in DOMAIN queue : queue[i] = queue[j] => i = j
    BY DEF ObjInv, QueuedOnce
  <2>2. CASE UNCHANGED queueVars
    BY <2>1, <2>2 DEF queueVars
  <2>3. CASE StartNext(queue, link, t, abandoned)
    <3>1. Range(queue') \subseteq Range(queue)
      BY <1>0, <1>3, <2>3, StartNextQueue
    <3>2. \A i, j \in DOMAIN queue' : queue'[i] = queue'[j] => i = j
      BY <1>0, <1>3, <2>1, <2>3, StartNextQueue
    <3>3. \A q \in Peers : link[q] = "linked" => link'[q] = "linked"
      BY <1>0, <1>3, <2>3, StartNextQueue
    <3>4. \A r \in Requests : tce'[r] = "set" <=> t[r] = "set"
      BY <1>0, <1>3, <2>3, StartNextQueue
    <3> QED
      BY <1>3, <3>1, <3>2, <3>3, <3>4
  <2> QED
    BY <1>2, <2>2, <2>3
<1>6. /\ peer'[o] = p /\ state'[o] = "connected" /\ guids'[p] = o
      /\ \A x \in Conns : x # o => peer'[x] = peer[x] /\ state'[x] = state[x]
      /\ \A q \in Peers : q # p => guids'[q] = guids[q]
  BY <1>0, <1>2
<1>7. /\ \A q \in Peers : q # p => byId'[q] = byId[q]
      /\ byId'[p] = o \/ (byId'[p] = byId[p] /\ byId[p] # None)
  <2>1. RepoTypes /\ byId' = Emplace(byId, p, o)
    BY <1>0, <1>2
  <2> QED
    BY <2>1, EmplaceById
<1>8. p # None /\ o # None
  BY Names
<1>9. \A q \in Peers : byId[q] # None => byId[q] \in Conns /\ byId[q] # o
  BY <1>0, <1>4, Names DEF ObjInv, TablesHaveTheirPeer
<1>10. ObjectsHavePeers'
  <2>1. \A x \in Conns : state'[x] = "none" <=> peer'[x] = None
    BY <1>6, <1>8 DEF ObjInv, ObjectsHavePeers
  <2>2. \A q \in Remotes : peer'[q] \in {None, q}
    BY <1>4, <1>6, Names DEF ObjInv, ObjectsHavePeers
  <2>3. \A r \in Requests : tce'[r] = "set" => state'[r] # "none"
    BY <1>5, <1>6, Names DEF ObjInv, ObjectsHavePeers
  <2>4. \A q : ~Handled(q)'
    BY <1>2 DEF Handled
  <2> QED
    BY <2>1, <2>2, <2>3, <2>4 DEF ObjectsHavePeers
<1>11. QueuedOnce'
  <2>1. Range(queue) \subseteq Conns
    BY <1>0, RangeOfSeq, Names
  <2>2. \A r \in Range(queue') : state'[r] = "none"
    BY <1>4, <1>5, <1>6, <2>1 DEF ObjInv, QueuedOnce
  <2> QED
    BY <1>2, <1>5, <2>2 DEF QueuedOnce
<1>12. TablesHaveTheirPeer'
  <2>1. \A q \in Peers : guids[q] # None => guids[q] \in Conns /\ guids[q] # o
    BY <1>0, <1>4, <1>8, Names DEF ObjInv, TablesHaveTheirPeer
  <2>2. \A q \in Peers : byId'[q] # None => peer'[byId'[q]] = q
    BY <1>6, <1>7, <1>9 DEF ObjInv, TablesHaveTheirPeer
  <2>3. \A q \in Peers : guids'[q] # None => peer'[guids'[q]] = q
    BY <1>6, <2>1 DEF ObjInv, TablesHaveTheirPeer
  <2> QED
    BY <2>2, <2>3 DEF TablesHaveTheirPeer
<1>13. byId[p] # None => state[byId[p]] = "closed"
  <2> SUFFICES ASSUME byId[p] # None PROVE state[byId[p]] = "closed"
    OBVIOUS
  <2>1. byId[p] \in Conns /\ peer[byId[p]] = p
    BY <1>9 DEF ObjInv, TablesHaveTheirPeer
  <2>2. state[byId[p]] # "none"
    BY <1>8, <2>1 DEF ObjInv, ObjectsHavePeers
  <2>3. state[byId[p]] # "connected"
    BY <1>1, <1>2, <2>1 DEF ObjInv, OpenAreLinked
  <2> QED
    BY <1>0, <2>1, <2>2, <2>3
<1>14. OpenAreLinked'
  <2> SUFFICES ASSUME NEW x \in Conns, state'[x] = "connected"
               PROVE  /\ guids'[peer'[x]] = x /\ link'[peer'[x]] = "linked"
                      /\ byId'[peer'[x]] # None
                      /\ byId'[peer'[x]] = x \/ state'[byId'[peer'[x]]] = "closed"
    BY <1>2 DEF OpenAreLinked
  <2>1. CASE x = o
    BY <1>4, <1>5, <1>6, <1>7, <1>8, <1>9, <1>13, <2>1
  <2>2. CASE x # o
    <3>1. state[x] = "connected" /\ peer'[x] = peer[x] /\ peer[x] \in Peers
      BY <1>0, <1>6, <2>2 DEF ObjInv, ObjectsHavePeers
    <3>2. /\ guids[peer[x]] = x /\ link[peer[x]] = "linked" /\ peer[x] # p
          /\ byId[peer[x]] # None
          /\ byId[peer[x]] = x \/ state[byId[peer[x]]] = "closed"
      BY <1>1, <1>2, <3>1 DEF ObjInv, OpenAreLinked
    <3>3. byId'[peer[x]] = byId[peer[x]] /\ guids'[peer[x]] = guids[peer[x]] /\ link'[peer[x]] = "linked"
      BY <1>5, <1>6, <1>7, <3>1, <3>2
    <3>4. byId[peer[x]] \in Conns /\ byId[peer[x]] # o
      BY <1>9, <3>1, <3>2, <1>0, <1>7
    <3> QED
      BY <1>6, <3>1, <3>2, <3>3, <3>4
  <2> QED
    BY <2>1, <2>2
<1>15. ClosedAreTasks'
  <2> SUFFICES ASSUME NEW q \in Peers, byId'[q] # None, state'[byId'[q]] = "closed"
               PROVE  byId'[q] \in Requests /\ task[byId'[q]] = "done"
    BY <1>2 DEF ClosedAreTasks
  <2>1. byId'[q] = byId[q] /\ state[byId[q]] = "closed"
    BY <1>6, <1>7, <1>9
  <2> QED
    BY <2>1 DEF ObjInv, ClosedAreTasks
<1> QED
  BY <1>10, <1>11, <1>12, <1>14, <1>15 DEF ObjInv

(* A connection is closed: c, the one with p.                              *)
LEMMA ObjClosed ==
    ASSUME TypeOK, ObjInv, NEW p \in Peers, NEW c \in Conns, peer[c] = p,
           UNCHANGED <<peer, task, queue, tce, handling>>,
           guids[p] \in {c, None}, guids' \in {guids, [guids EXCEPT ![p] = None]},
           state' = [state EXCEPT ![c] = "closed"],
           link' = [link EXCEPT ![p] = "down"], byId' = [byId EXCEPT ![p] = None],
           handling # Nobody => handling.peer # p
    PROVE  ObjInv'
<1>0. /\ queue \in Seq(Requests) /\ link \in [Peers -> Links]
      /\ peer \in [Conns -> Peers \cup {None}] /\ state \in [Conns -> {"none", "connected", "closed"}]
      /\ guids \in [Peers -> Conns \cup {None}] /\ byId \in [Peers -> Conns \cup {None}]
  BY TypeParts DEF QueueTypes, ConnTypes, TransportTypes, RepoTypes
<1>1. /\ state'[c] = "closed" /\ byId'[p] = None /\ state[c] # "none"
      /\ \A x \in Conns : x # c => state'[x] = state[x]
      /\ \A q \in Peers : q # p => link'[q] = link[q] /\ byId'[q] = byId[q] /\ guids'[q] = guids[q]
      /\ guids'[p] \in {guids[p], None}
  BY <1>0, Names DEF ObjInv, ObjectsHavePeers
<1>2. handling # Nobody => handling.peer \in Peers /\ handling.conn \in Conns /\ handling.peer # p
  BY HandlerFields
<1>3. handling.do = "nothing" <=> handling = Nobody
  BY HandlerFields
<1>4. ObjectsHavePeers'
  <2>1. \A x \in Conns : state'[x] = "none" <=> state[x] = "none"
    BY <1>1
  <2>2. \A x \in Conns : state[x] = "none" <=> peer[x] = None
    BY DEF ObjInv, ObjectsHavePeers
  <2> QED
    BY <2>1, <2>2, Names DEF ObjInv, ObjectsHavePeers, Handled
<1>5. QueuedOnce'
  <2>1. \A r \in Range(queue) : state'[r] = "none"
    BY <1>0, <1>1, RangeOfSeq, Names DEF ObjInv, QueuedOnce
  <2>2. handling.do = "new" => state'[handling.conn] = "none" /\ link'[handling.peer] = "linked"
    BY <1>1, <1>2, <1>3 DEF ObjInv, QueuedOnce
  <2>3. handling.do = "advertise" => link'[handling.peer] = "up"
    BY <1>1, <1>2, <1>3 DEF ObjInv, QueuedOnce
  <2> QED
    BY <2>1, <2>2, <2>3 DEF ObjInv, QueuedOnce
<1>6. TablesHaveTheirPeer'
  BY <1>1 DEF ObjInv, TablesHaveTheirPeer
<1>7. OpenAreLinked'
  <2> SUFFICES ASSUME NEW x \in Conns, state'[x] = "connected"
               PROVE  /\ guids'[peer[x]] = x /\ link'[peer[x]] = "linked"
                      /\ ~(handling.do = "new" /\ handling.peer = peer[x])
                      /\ byId'[peer[x]] # None
                      /\ byId'[peer[x]] = x \/ state'[byId'[peer[x]]] = "closed"
    BY DEF OpenAreLinked
  <2>1. x # c /\ state[x] = "connected" /\ peer[x] \in Peers
    BY <1>0, <1>1 DEF ObjInv, ObjectsHavePeers
  <2>2. /\ guids[peer[x]] = x /\ link[peer[x]] = "linked"
        /\ ~(handling.do = "new" /\ handling.peer = peer[x])
        /\ byId[peer[x]] # None
        /\ byId[peer[x]] = x \/ state[byId[peer[x]]] = "closed"
    BY <2>1 DEF ObjInv, OpenAreLinked
  <2>3. peer[x] # p
    BY <2>1, <2>2, Names
  <2>4. byId[peer[x]] \in Conns
    BY <1>0, <2>1, <2>2
  <2> QED
    BY <1>1, <2>1, <2>2, <2>3, <2>4
<1>8. ClosedAreTasks'
  <2> SUFFICES ASSUME NEW q \in Peers, byId'[q] # None, state'[byId'[q]] = "closed"
               PROVE  byId'[q] \in Requests /\ task[byId'[q]] = "done"
    BY DEF ClosedAreTasks
  <2>1. q # p /\ byId'[q] = byId[q] /\ byId[q] \in Conns
    BY <1>0, <1>1
  <2>2. byId[q] # c
    BY <2>1 DEF ObjInv, TablesHaveTheirPeer
  <2> QED
    BY <1>1, <2>1, <2>2 DEF ObjInv, ClosedAreTasks
<1> QED
  BY <1>4, <1>5, <1>6, <1>7, <1>8 DEF ObjInv

LEMMA ObjStep ==
    ASSUME TypeOK, FreshAreNowhere, ObjInv, Next
    PROVE  ObjInv'
<1>0. /\ guids \in [Peers -> Conns \cup {None}] /\ byId \in [Peers -> Conns \cup {None}]
      /\ link \in [Peers -> Links]
  BY TypeParts DEF QueueTypes, TransportTypes, RepoTypes
<1>1. ASSUME NEW p \in Peers, Lost(p) PROVE ObjInv'
  <2>1. /\ UNCHANGED <<peer, task, queue, tce, handling>> /\ handling = Nobody
        /\ link' = [link EXCEPT ![p] = "down"] /\ guids' = [guids EXCEPT ![p] = None]
    BY <1>1 DEF Lost, TransportIdle, callVars
  <2>2. CASE guids[p] # None
    <3>1. PICK c \in Conns : c = guids[p]
      BY <1>0, <2>2
    <3>2. peer[c] = p
      BY <2>2, <3>1 DEF ObjInv, TablesHaveTheirPeer
    <3>3. state' = [state EXCEPT ![c] = "closed"] /\ byId' = [byId EXCEPT ![p] = None]
      BY <1>1, <2>2, <3>1 DEF Lost
    <3> QED
      BY <2>1, <3>1, <3>2, <3>3, ObjClosed
  <2>3. CASE guids[p] = None
    <3>1. /\ UNCHANGED <<state, byId>> /\ handling.do = "nothing"
          /\ \A q \in Peers : guids'[q] = guids[q]
          /\ \A q \in Peers : q # p => link'[q] = link[q]
      BY <1>0, <1>1, <2>1, <2>3 DEF Lost, Nobody
    <3>2. ObjectsHavePeers' /\ QueuedOnce' /\ ClosedAreTasks' /\ TablesHaveTheirPeer'
      BY <2>1, <3>1 DEF ObjInv, ObjectsHavePeers, QueuedOnce, ClosedAreTasks, TablesHaveTheirPeer, Handled
    <3>3. \A x \in Conns : state[x] = "connected" => peer[x] \in Peers /\ peer[x] # p /\ x # None
      BY <2>3, TypeParts, Names DEF ObjInv, ObjectsHavePeers, OpenAreLinked, ConnTypes
    <3>4. OpenAreLinked'
      BY <2>1, <3>1, <3>3 DEF ObjInv, OpenAreLinked
    <3> QED
      BY <3>2, <3>4 DEF ObjInv
  <2> QED
    BY <2>2, <2>3
<1>2. ASSUME NEW p \in Peers, Close(p) PROVE ObjInv'
  <2>1. /\ UNCHANGED <<peer, task, queue, tce, handling, guids>> /\ byId[p] # None
        /\ state[byId[p]] = "connected" /\ state' = [state EXCEPT ![byId[p]] = "closed"]
        /\ link' = [link EXCEPT ![p] = "down"] /\ byId' = [byId EXCEPT ![p] = None]
    BY <1>2 DEF Close, callVars
  <2>2. PICK c \in Conns : c = byId[p]
    BY <1>0, <2>1
  <2>3. peer[c] = p /\ state[c] = "connected"
    BY <2>1, <2>2 DEF ObjInv, TablesHaveTheirPeer
  <2>4. guids[p] = c /\ link[p] = "linked" /\ ~(handling.do = "new" /\ handling.peer = p)
    BY <2>3 DEF ObjInv, OpenAreLinked
  <2>5. handling # Nobody => handling.peer # p
    BY <2>4, HandlerFields DEF ObjInv, QueuedOnce
  <2> QED
    BY <2>1, <2>2, <2>3, <2>4, <2>5, ObjClosed
<1> QED
  BY <1>1, <1>2, ObjClientStep, ObjTransportStep, ObjNewConnection DEF Next, Transport
-----------------------------------------------------------------------------
(* The attempt of the head of the queue.                                   *)
HeadInv == HeadStaysServed /\ AttemptIsOfHead

LEMMA StartServes ==
    ASSUME TypeOK, NEW q \in Seq(Requests), \A r \in Range(q) : target[r] \in Peers,
           NEW l \in [Peers -> Links], NEW t \in [Requests -> {"unset", "failed", "set"}],
           StartNext(q, l, t, abandoned)
    PROVE  /\ queue' # << >> => \/ Head(queue') \in abandoned'
                                \/ link'[target[Head(queue')]] = "connecting"
           /\ cancelled = {} => queue' = q
           /\ cancelled = {} => \A p \in Peers : link'[p] # l[p] => q # << >> /\ p = target[Head(q)]
<1>1. abandoned \in SUBSET Requests
  BY DEF TypeOK
<1>2. queue' \in Seq(Requests)
  BY <1>1, StartNextEffect
<1>3. Range(queue') \subseteq Range(q)
  BY <1>1, StartNextQueue
<1>4. queue' # << >> => target[Head(queue')] \in Peers
  <2>1. PICK s \in Seq(Requests) : s = queue'
    BY <1>2
  <2>2. s # << >> => Head(s) \in Range(s)
    BY RangeOfSeq
  <2> QED
    BY <1>3, <2>1, <2>2
<1>5. queue' # << >> => \/ Head(queue') \in abandoned'
                        \/ target[Head(queue')] \in Peers => link'[target[Head(queue')]] = "connecting"
  BY <1>1, StartNextEffect
<1>6. cancelled = {} => queue' = q
  BY <1>1, StartNextEffect
<1>7. cancelled = {} => \A p \in Peers : link'[p] # l[p] => q # << >> /\ p = target[Head(q)]
  BY <1>1, StartNextEffect
<1> QED
  BY <1>4, <1>5, <1>6, <1>7

(* The requests of the queue have a peer, which stays theirs.              *)
LEMMA QueuedHavePeers ==
    ASSUME TypeOK, CallInv, FreshAreNowhere
    PROVE  /\ \A r \in Range(queue) : r \in Requests /\ target[r] \in Peers
           /\ queue # << >> => /\ Head(queue) \in Range(queue) /\ Tail(queue) \in Seq(Requests)
                               /\ \A r \in Range(Tail(queue)) : target[r] \in Peers
<1>1. Range(queue) \subseteq Requests
  BY RangeOfSeq DEF TypeOK
<1>2. queue # << >> => /\ Head(queue) \in Range(queue) /\ Tail(queue) \in Seq(Requests)
                       /\ Range(Tail(queue)) \subseteq Range(queue)
  BY RangeOfSeq DEF TypeOK
<1>3. \A r \in Range(queue) : pc[r] # "idle"
  BY <1>1 DEF FreshAreNowhere
<1> QED
  BY <1>1, <1>2, <1>3 DEF CallInv, StartedHavePeers

LEMMA HeadClientStep ==
    ASSUME TypeOK, CallInv, FreshAreNowhere, ObjInv, HeadInv, NEW r \in Requests, Client(r)
    PROVE  HeadInv'
<1>0. /\ link \in [Peers -> Links] /\ tce \in [Requests -> {"unset", "failed", "set"}]
      /\ target \in [Requests -> Peers \cup {None}] /\ queue \in Seq(Requests)
  BY TypeParts DEF QueueTypes, CallTypes
<1>6. /\ \A s \in Range(queue) : s \in Requests /\ target[s] \in Peers
      /\ queue # << >> => Head(queue) \in Range(queue)
  BY QueuedHavePeers
(* The request that starts is not in the queue yet.                        *)
<1>1. ASSUME UNCHANGED <<queue, handling, link, abandoned, undefined, peer, cancelled>>,
             \A s \in Requests : target'[s] = target[s] \/ pc[s] = "idle"
      PROVE  HeadInv'
  <2>1. \A s \in Requests : pc[s] = "idle" =>
          s \notin Range(queue) /\ ~Handled(s) /\ peer[s] = None
    BY Names DEF FreshAreNowhere, ObjInv, ObjectsHavePeers
  <2>2. queue # << >> => target'[Head(queue)] = target[Head(queue)]
    BY <1>6, <1>1, <2>1
  <2>3. Popped => target'[handling.conn] = target[handling.conn]
    BY <1>1, <2>1 DEF Popped, Handled
  <2>4. HeadStaysServed'
    BY <1>1, <2>2 DEF HeadInv, HeadStaysServed, Popped, Active
  <2>5. AttemptIsOfHead'
    <3> SUFFICES ASSUME cancelled = {}
                 PROVE  /\ \A p \in Peers : Active(p) =>
                             queue # << >> /\ target'[Head(queue)] = p /\ ~Popped
                        /\ Popped => target'[handling.conn] = handling.peer
                        /\ ~undefined
                        /\ \A s \in Requests : peer[s] \in {None, target'[s]}
      BY <1>1 DEF AttemptIsOfHead, Active, Popped
    <3>1. \A s \in Requests : peer[s] \in {None, target'[s]}
      BY <1>1, <2>1 DEF HeadInv, AttemptIsOfHead
    <3> QED
      BY <2>2, <2>3, <3>1 DEF HeadInv, AttemptIsOfHead
  <2> QED
    BY <2>4, <2>5 DEF HeadInv
<1>2. CASE Factory(r) \/ ConnectClient(r)
  <2>1. /\ Connect(r) /\ UNCHANGED <<target, cancelled, peer>> /\ pc[r] # "idle"
        /\ handling = Nobody /\ handling' = Nobody /\ undefined' = undefined
    BY <1>2, ConnectEffect DEF Factory, ConnectClient, connVars
  <2>2. target[r] \in Peers
    BY <2>1 DEF CallInv, StartedHavePeers
  <2>3. ~Popped /\ ~Popped'
    BY <2>1 DEF Popped, Nobody
  <2>4. CASE queue = << >>
    <3>1. PICK q \in Seq(Requests) : q = <<r>> /\ Range(q) = {r} /\ Head(q) = r
      BY QueueOfOne
    <3>2. StartNext(q, link, tce, abandoned)
      BY <2>1, <2>4, <3>1 DEF Connect
    <3>3. queue' # << >> => \/ Head(queue') \in abandoned'
                            \/ link'[target[Head(queue')]] = "connecting"
      BY <1>0, <2>2, <3>1, <3>2, StartServes
    <3>4. cancelled = {} => queue' = q
      BY <1>0, <2>2, <3>1, <3>2, StartServes
    <3>5. cancelled = {} => \A p \in Peers : link'[p] # link[p] => q # << >> /\ p = target[Head(q)]
      BY <1>0, <2>2, <3>1, <3>2, StartServes
    <3>6. HeadStaysServed'
      BY <2>1, <3>3 DEF HeadStaysServed, Active
    <3>7. AttemptIsOfHead'
      BY <2>1, <2>3, <2>4, <3>4, <3>5 DEF HeadInv, AttemptIsOfHead, Active
    <3> QED
      BY <3>6, <3>7 DEF HeadInv
  <2>5. CASE queue # << >>
    <3>1. /\ UNCHANGED <<link, abandoned>> /\ queue' # << >> /\ Head(queue') = Head(queue)
      BY <1>0, <2>1, <2>5, QueueOfAppend DEF Connect
    <3>2. HeadStaysServed'
      BY <2>1, <2>3, <2>5, <3>1 DEF HeadInv, HeadStaysServed, Active
    <3>3. AttemptIsOfHead'
      BY <2>1, <2>3, <2>5, <3>1 DEF HeadInv, AttemptIsOfHead, Active
    <3> QED
      BY <3>2, <3>3 DEF HeadInv
  <2> QED
    BY <2>4, <2>5
<1>3. CASE Cancel(r)
  <2>1. cancelled' # {} /\ UNCHANGED <<queue, handling, link, abandoned, target>>
    BY <1>3 DEF Cancel, transportVars, queueVars
  <2> QED
    BY <2>1 DEF HeadInv, HeadStaysServed, AttemptIsOfHead, Popped, Active
<1>4. CASE (\E s \in Servers : GetServer(r, s))
           \/ \E q \in Remotes, what \in {"client", "host"} : ConnectPeer(r, q, what)
  <2>1. /\ UNCHANGED <<queue, handling, link, abandoned, undefined, peer, cancelled>>
        /\ pc[r] = "idle" /\ \E p : target' = [target EXCEPT ![r] = p]
    BY <1>4 DEF GetServer, ConnectPeer, transportVars, queueVars, connVars
  <2>2. \A s \in Requests : target'[s] = target[s] \/ pc[s] = "idle"
    BY <1>0, <2>1
  <2> QED
    BY <1>1, <2>1, <2>2
<1>5. CASE \/ FactoryThrows(r) \/ StoreTask(r) \/ TaskFails(r) \/ TaskSucceeds(r)
           \/ AddPendingConnection(r)
  BY <1>1, <1>5 DEF FactoryThrows, StoreTask, TaskFails, TaskSucceeds, AddPendingConnection,
                    transportVars, queueVars, connVars
<1> QED
  BY <1>2, <1>3, <1>4, <1>5 DEF Client

LEMMA HeadTransportStep ==
    ASSUME TypeOK, CallInv, FreshAreNowhere, ObjInv, HeadInv,
           \/ \E p \in Peers : Transport(p) \/ Close(p)
           \/ \E q \in Remotes : AdvertiseRequest(q)
           \/ Advertise
    PROVE  HeadInv'
<1>0. /\ link \in [Peers -> Links] /\ tce \in [Requests -> {"unset", "failed", "set"}]
      /\ target \in [Requests -> Peers \cup {None}] /\ queue \in Seq(Requests)
  BY TypeParts DEF QueueTypes, CallTypes
<1>1. /\ \A s \in Range(queue) : s \in Requests /\ target[s] \in Peers
      /\ queue # << >> => /\ Head(queue) \in Range(queue) /\ Tail(queue) \in Seq(Requests)
                          /\ \A s \in Range(Tail(queue)) : target[s] \in Peers
  BY QueuedHavePeers
(* An attempt ends, and the queue stays as it is.                          *)
<1>2. ASSUME NEW p \in Peers, NEW to \in Links, UNCHANGED <<queue, target, peer, cancelled, undefined>>,
             link' = [link EXCEPT ![p] = to], ~Popped, ~Popped',
             Active(p)' => Active(p),
             abandoned \subseteq abandoned',
             Active(p) /\ ~Active(p)' /\ queue # << >> /\ target[Head(queue)] = p
             => Head(queue) \in abandoned'
      PROVE  HeadInv'
  <2>1. \A x \in Peers : x # p => link'[x] = link[x]
    BY <1>0, <1>2
  <2>2. \A x \in Peers : Active(x)' => Active(x)
    BY <1>2, <2>1 DEF Active
  <2>3. HeadStaysServed'
    <3> SUFFICES ASSUME queue # << >>, Head(queue) \notin abandoned'
                 PROVE  Active(target[Head(queue)])'
      BY <1>2 DEF HeadStaysServed, Active
    <3>1. target[Head(queue)] \in Peers /\ Active(target[Head(queue)])
      BY <1>1, <1>2 DEF HeadInv, HeadStaysServed
    <3> QED
      BY <1>2, <2>1, <3>1 DEF Active
  <2>4. AttemptIsOfHead'
    BY <1>2, <2>2 DEF HeadInv, AttemptIsOfHead
  <2> QED
    BY <2>3, <2>4 DEF HeadInv
(* The head is removed, and the next request started.                      *)
<1>3. ASSUME NEW p \in Peers, Active(p), queue # << >>, ~Popped, ~Popped',
             NEW t \in [Requests -> {"unset", "failed", "set"}],
             StartNext(Tail(queue), [link EXCEPT ![p] = "down"], t, abandoned),
             UNCHANGED <<target, peer, cancelled, undefined>>
      PROVE  HeadInv'
  <2>1. PICK q \in Seq(Requests), l \in [Peers -> Links] :
          /\ q = Tail(queue) /\ l = [link EXCEPT ![p] = "down"]
          /\ StartNext(q, l, t, abandoned) /\ \A s \in Range(q) : target[s] \in Peers
    BY <1>0, <1>1, <1>3 DEF Links
  <2>2. StartNext(q, l, t, abandoned) /\ \A s \in Range(q) : target[s] \in Peers
    BY <2>1
  <2>3. queue' # << >> => \/ Head(queue') \in abandoned'
                          \/ link'[target[Head(queue')]] = "connecting"
    BY <2>2, StartServes
  <2>4. cancelled = {} => queue' = q
    BY <2>2, StartServes
  <2>5. cancelled = {} => \A x \in Peers : link'[x] # l[x] => q # << >> /\ x = target[Head(q)]
    BY <2>2, StartServes
  <2>6. cancelled = {} => \A x \in Peers : l[x] \notin {"connecting", "up", "advertised"}
    BY <1>0, <1>3, <2>1 DEF HeadInv, AttemptIsOfHead, Active
  <2>7. HeadStaysServed'
    BY <1>3, <2>3 DEF HeadStaysServed, Active
  <2>8. AttemptIsOfHead'
    BY <1>3, <2>4, <2>5, <2>6 DEF HeadInv, AttemptIsOfHead, Active
  <2> QED
    BY <2>7, <2>8 DEF HeadInv
(* The head is removed, and its connection about to be made.               *)
<1>4. ASSUME NEW p \in Peers, Active(p), queue # << >>, ~Popped,
             UNCHANGED <<target, peer, cancelled, undefined>>, link' = [link EXCEPT ![p] = "linked"],
             handling' = [do |-> "new", peer |-> p, conn |-> Head(queue)]
      PROVE  HeadInv'
  <2>1. Popped' /\ handling'.conn = Head(queue) /\ handling'.peer = p
    BY <1>1, <1>4 DEF Popped
  <2>2. HeadStaysServed'
    BY <2>1 DEF HeadStaysServed
  <2>3. cancelled = {} => \A x \in Peers : ~Active(x)'
    BY <1>0, <1>4 DEF HeadInv, AttemptIsOfHead, Active
  <2>4. cancelled = {} => target[Head(queue)] = p
    BY <1>4 DEF HeadInv, AttemptIsOfHead
  <2>5. AttemptIsOfHead'
    BY <1>4, <2>1, <2>3, <2>4 DEF HeadInv, AttemptIsOfHead
  <2> QED
    BY <2>2, <2>5 DEF HeadInv
<1>5. TransportIdle => ~Popped
  BY DEF TransportIdle, Popped, Nobody
<1>6. ASSUME NEW p \in Peers, Accepted(p) PROVE HeadInv'
  <2>1. /\ UNCHANGED <<queue, target, peer, cancelled, undefined>> /\ Active(p) /\ ~Popped /\ ~Popped'
    BY <1>5, <1>6 DEF Accepted, Active, Popped, connVars, callVars, TransportIdle, Nobody
  <2>2. CASE link' = [link EXCEPT ![p] = "down"] /\ abandoned' = abandoned \cup {Head(queue)}
    BY <1>2, <2>1, <2>2 DEF Links, Active
  <2>3. CASE link' = [link EXCEPT ![p] = "up"] /\ abandoned' = abandoned
    <3>1. Active(p)'
      BY <1>0, <2>3 DEF Active
    <3> QED
      BY <1>2, <2>1, <2>3, <3>1 DEF Links
  <2> QED
    BY <1>6, <2>2, <2>3 DEF Accepted
<1>7. ASSUME NEW p \in Peers, Refused(p) PROVE HeadInv'
  <2>1. /\ UNCHANGED <<queue, target, peer, cancelled, undefined>> /\ Active(p) /\ ~Popped /\ ~Popped'
        /\ link' = [link EXCEPT ![p] = "down"] /\ abandoned' = abandoned \cup Left(p)
    BY <1>5, <1>7 DEF Refused, Active, Popped, connVars, callVars
  <2> QED
    BY <1>2, <2>1 DEF Links, Left
<1>8. ASSUME NEW p \in Peers, AttemptFailed(p) PROVE HeadInv'
  <2>1. /\ UNCHANGED <<target, peer, cancelled, undefined>> /\ Active(p) /\ ~Popped /\ ~Popped'
    BY <1>5, <1>8 DEF AttemptFailed, Active, Popped, connVars, callVars
  <2>2. CASE queue = << >>
    <3>1. link' = [link EXCEPT ![p] = "down"] /\ UNCHANGED <<queue, abandoned>>
      BY <1>8, <2>2 DEF AttemptFailed
    <3> QED
      BY <1>2, <2>1, <2>2, <3>1 DEF Links
  <2>3. CASE queue # << >>
    <3>1. PICK t \in [Requests -> {"unset", "failed", "set"}] :
            StartNext(Tail(queue), [link EXCEPT ![p] = "down"], t, abandoned)
      BY <1>0, <1>8, <2>3 DEF AttemptFailed
    <3> QED
      BY <1>3, <2>1, <2>3, <3>1
  <2> QED
    BY <2>2, <2>3
<1>9. ASSUME NEW p \in Peers, ConnectionResult(p) PROVE HeadInv'
  <2>1. /\ UNCHANGED <<target, peer, cancelled, undefined, abandoned>> /\ Active(p) /\ ~Popped
        /\ link' = [link EXCEPT ![p] = "linked"]
    BY <1>5, <1>9 DEF ConnectionResult, Active, connVars, callVars
  <2>2. CASE queue = << >>
    <3>1. UNCHANGED <<queue, handling>>
      BY <1>9, <2>2 DEF ConnectionResult
    <3>2. ~Popped' /\ ~Active(p)'
      BY <1>0, <2>1, <3>1 DEF Popped, Active
    <3> QED
      BY <1>2, <2>1, <2>2, <3>1, <3>2 DEF Links
  <2>3. CASE queue # << >>
    <3>1. handling' = [do |-> "new", peer |-> p, conn |-> Head(queue)]
      BY <1>9, <2>3 DEF ConnectionResult
    <3> QED
      BY <1>4, <2>1, <2>3, <3>1
  <2> QED
    BY <2>2, <2>3
<1>10. ASSUME NEW p \in Peers, AdvertiseResponse(p) PROVE HeadInv'
  <2>1. /\ UNCHANGED <<target, peer, cancelled>> /\ Active(p) /\ ~Popped
    BY <1>5, <1>10 DEF AdvertiseResponse, Active, connVars, callVars
  <2>2. CASE queue = << >> /\ UNCHANGED <<handling, queueVars>>
    <3>1. UNCHANGED <<handling, link, abandoned, queue>>
      BY <2>2 DEF queueVars
    <3>2. cancelled # {}
      BY <2>1, <2>2 DEF HeadInv, AttemptIsOfHead
    <3> QED
      BY <2>1, <2>2, <3>1, <3>2 DEF HeadInv, HeadStaysServed, AttemptIsOfHead
  <2>3. CASE /\ queue # << >> /\ UNCHANGED <<handling, undefined>>
             /\ StartNext(Tail(queue), [link EXCEPT ![p] = "down"], tce, abandoned)
    <3>1. ~Popped'
      BY <2>1, <2>3 DEF Popped
    <3> QED
      BY <1>0, <1>3, <2>1, <2>3, <3>1
  <2>4. CASE /\ queue # << >> /\ link' = [link EXCEPT ![p] = "linked"] /\ undefined' = undefined
             /\ handling' = [do |-> "new", peer |-> p, conn |-> Head(queue)]
    BY <1>4, <2>1, <2>4
  <2> QED
    BY <1>10, <2>2, <2>3, <2>4 DEF AdvertiseResponse, HeadIsCancelled
<1>11. ASSUME NEW q \in Remotes, AdvertiseRequest(q) PROVE HeadInv'
  <2>1. /\ UNCHANGED <<queue, target, peer, cancelled, undefined, abandoned>> /\ ~Popped
        /\ link[q] = "down" /\ link' = [link EXCEPT ![q] = "linked"] /\ handling'.conn = q
        /\ q \in Peers /\ q \notin Requests
    BY <1>5, <1>11, Names DEF AdvertiseRequest, connVars, callVars
  <2>2. ~Popped' /\ ~Active(q)' /\ ~Active(q)
    BY <1>0, <2>1 DEF Popped, Active
  <2> QED
    BY <1>2, <2>1, <2>2 DEF Links
<1>12. CASE Advertise
  <2>1. /\ UNCHANGED <<queue, target, peer, cancelled, undefined, abandoned>> /\ ~Popped /\ ~Popped'
        /\ link' = [link EXCEPT ![handling.peer] = "advertised"]
        /\ handling.peer \in Peers /\ link[handling.peer] = "up"
    BY <1>12, HandlerFields DEF Advertise, Nobody, Popped, connVars, callVars, ObjInv, QueuedOnce
  <2>2. PICK p \in Peers : p = handling.peer
    BY <2>1
  <2>3. Active(p) /\ Active(p)'
    BY <1>0, <2>1, <2>2 DEF Active
  <2> QED
    BY <1>2, <2>1, <2>2, <2>3 DEF Links
<1>13. ASSUME NEW p \in Peers, Lost(p) PROVE HeadInv'
  <2>1. /\ UNCHANGED <<queue, target, peer, cancelled, undefined>> /\ ~Popped /\ ~Popped'
        /\ link' = [link EXCEPT ![p] = "down"]
        /\ abandoned' = IF link[p] = "linked" THEN abandoned ELSE abandoned \cup Left(p)
    BY <1>5, <1>13 DEF Lost, Popped, callVars
  <2>2. ~Active(p)'
    BY <1>0, <2>1 DEF Active
  <2> QED
    BY <1>2, <2>1, <2>2 DEF Links, Left, Active
<1>14. ASSUME NEW p \in Peers, Close(p) PROVE HeadInv'
  <2>1. /\ UNCHANGED <<queue, target, peer, cancelled, undefined, handling, abandoned>>
        /\ link' = [link EXCEPT ![p] = "down"] /\ byId[p] \in Conns
        /\ state[byId[p]] = "connected" /\ byId[p] # None
    BY <1>14 DEF Close, callVars, TypeOK
  <2>2. link[p] = "linked"
    BY <2>1 DEF ObjInv, TablesHaveTheirPeer, OpenAreLinked
  <2>3. \A x \in Peers : Active(x)' <=> Active(x)
    BY <1>0, <2>1, <2>2 DEF Active
  <2>4. HeadStaysServed'
    BY <1>1, <2>1, <2>3 DEF HeadInv, HeadStaysServed, Popped
  <2>5. AttemptIsOfHead'
    BY <2>1, <2>3 DEF HeadInv, AttemptIsOfHead, Popped
  <2> QED
    BY <2>4, <2>5 DEF HeadInv
<1> QED
  BY <1>6, <1>7, <1>8, <1>9, <1>10, <1>11, <1>12, <1>13, <1>14 DEF Transport

LEMMA HeadNewConnection ==
    ASSUME TypeOK, CallInv, FreshAreNowhere, HeadInv, NewConnection
    PROVE  HeadInv'
<1>0. /\ link \in [Peers -> Links] /\ tce \in [Requests -> {"unset", "failed", "set"}]
      /\ queue \in Seq(Requests) /\ peer \in [Conns -> Peers \cup {None}]
      /\ \A s \in Range(queue) : target[s] \in Peers
  BY TypeParts, QueuedHavePeers DEF QueueTypes, ConnTypes
<1>1. PICK p \in Peers, o \in Conns : p = handling.peer /\ o = handling.conn
  BY HandlerFields DEF NewConnection
<1> DEFINE t == IF tce[o] = "unset" THEN [tce EXCEPT ![o] = "set"] ELSE tce
<1>2. /\ handling.do = "new" /\ ~Popped' /\ UNCHANGED <<target, cancelled, undefined>>
      /\ peer' = [peer EXCEPT ![o] = p]
      /\ o \in Requests => StartNext(queue, link, t, abandoned)
      /\ o \notin Requests => UNCHANGED queueVars
  BY <1>1 DEF NewConnection, Nobody, Popped, callVars
<1>3. t \in [Requests -> {"unset", "failed", "set"}]
  BY <1>0
<1> HIDE DEF t
<1>4. cancelled = {} => \A s \in Requests : peer'[s] \in {None, target[s]}
  BY <1>0, <1>1, <1>2, Names DEF HeadInv, AttemptIsOfHead, Popped
<1>5. CASE o \in Requests
  <2>1. StartNext(queue, link, t, abandoned) /\ Popped
    BY <1>1, <1>2, <1>5 DEF Popped
  <2>2. queue' # << >> => \/ Head(queue') \in abandoned'
                          \/ link'[target[Head(queue')]] = "connecting"
    BY <1>0, <1>3, <2>1, StartServes
  <2>3. cancelled = {} => queue' = queue
    BY <1>0, <1>3, <2>1, StartServes
  <2>4. cancelled = {} => \A x \in Peers : link'[x] # link[x] => queue # << >> /\ x = target[Head(queue)]
    BY <1>0, <1>3, <2>1, StartServes
  <2>5. HeadStaysServed'
    BY <1>2, <2>2 DEF HeadStaysServed, Active
  <2>6. AttemptIsOfHead'
    BY <1>2, <1>4, <2>1, <2>3, <2>4 DEF HeadInv, AttemptIsOfHead, Active
  <2> QED
    BY <2>5, <2>6 DEF HeadInv
<1>6. CASE o \notin Requests
  <2>1. UNCHANGED <<queue, link, abandoned>> /\ ~Popped
    BY <1>1, <1>2, <1>6 DEF queueVars, Popped
  <2> QED
    BY <1>2, <1>4, <2>1 DEF HeadInv, HeadStaysServed, AttemptIsOfHead, Active
<1> QED
  BY <1>5, <1>6

LEMMA HeadStep ==
    ASSUME TypeOK, CallInv, FreshAreNowhere, ObjInv, HeadInv, Next
    PROVE  HeadInv'
  BY HeadClientStep, HeadTransportStep, HeadNewConnection DEF Next
-----------------------------------------------------------------------------
LEMMA IInvParts ==
    /\ IInv <=> TypeOK /\ CallInv /\ FreshAreNowhere /\ ObjInv /\ HeadInv
    /\ IInv' <=> TypeOK' /\ CallInv' /\ FreshAreNowhere' /\ ObjInv' /\ HeadInv'
  BY DEF IInv, CallInv, ObjInv, HeadInv

LEMMA IInvInit ==
    ASSUME Init
    PROVE  IInv
<1>1. TypeOK
  <2>1. << >> \in Seq(Requests)
    OBVIOUS
  <2> QED
    BY <2>1, MakeEntry DEF Init, TypeOK, Handlers
<1>2. CallInv
  BY DEF Init, CallInv, StartedHavePeers, TasksHaveTheirKey, EarlyBeforeStored, WaitersAreP2P,
         PendingIsRemembered, NoEntry
<1>3. Range(queue) = {} /\ DOMAIN queue = {} /\ handling.do = "nothing"
  BY RangeOfSeq DEF Init, Nobody, Range
<1>4. FreshAreNowhere
  BY <1>3, Names DEF Init, FreshAreNowhere, Handled
<1>5. ObjInv
  BY <1>3, Names DEF Init, ObjInv, ObjectsHavePeers, QueuedOnce, TablesHaveTheirPeer, OpenAreLinked,
              ClosedAreTasks, Handled
<1>6. HeadInv
  BY <1>3, Names DEF Init, HeadInv, HeadStaysServed, AttemptIsOfHead, Active, Popped
<1> QED
  BY <1>1, <1>2, <1>4, <1>5, <1>6, IInvParts

LEMMA IInvStutter ==
    ASSUME IInv, UNCHANGED vars
    PROVE  IInv'
<1>1. /\ UNCHANGED <<repoLock, byKey, byId, pendingP2P, waiters>>
      /\ UNCHANGED <<queue, link, tce, abandoned, handling, guids, undefined>>
      /\ UNCHANGED <<op, target, pc, cancelled, task, early, peer, state>>
  BY DEF vars, repoVars, transportVars, queueVars, callVars, connVars
<1>2. TypeOK'
  BY <1>1 DEF IInv, TypeOK
<1>3. CallInv'
  BY <1>1 DEF IInv, CallInv, StartedHavePeers, TasksHaveTheirKey, EarlyBeforeStored, WaitersAreP2P,
              PendingIsRemembered
<1>4. FreshAreNowhere'
  BY <1>1 DEF IInv, FreshAreNowhere, Handled
<1>5. ObjectsHavePeers' /\ QueuedOnce'
  BY <1>1 DEF IInv, ObjectsHavePeers, QueuedOnce, Handled
<1>6. TablesHaveTheirPeer' /\ OpenAreLinked' /\ ClosedAreTasks'
  BY <1>1 DEF IInv, TablesHaveTheirPeer, OpenAreLinked, ClosedAreTasks
<1>7. HeadInv'
  BY <1>1 DEF IInv, HeadInv, HeadStaysServed, AttemptIsOfHead, Active, Popped
<1> QED
  BY <1>2, <1>3, <1>4, <1>5, <1>6, <1>7, IInvParts DEF ObjInv

LEMMA IInvStep ==
    ASSUME IInv, [Next]_vars
    PROVE  IInv'
<1>1. ASSUME Next PROVE IInv'
  <2>1. TypeOK /\ CallInv /\ FreshAreNowhere /\ ObjInv /\ HeadInv
    BY IInvParts
  <2>2. TypeOK' /\ CallInv'
    BY <1>1, <2>1, TypeStep, CallStep
  <2>3. FreshAreNowhere'
    BY <1>1, <2>1, FreshStep DEF ObjInv
  <2>4. ObjInv' /\ HeadInv'
    BY <1>1, <2>1, ObjStep, HeadStep
  <2> QED
    BY <2>2, <2>3, <2>4, IInvParts
<1> QED
  BY <1>1, IInvStutter

LEMMA Inductive == Spec => []IInv
  BY IInvInit, IInvStep, PTL DEF Spec

(* The variables of Connections keep their types, whatever the queue, the  *)
(* tables and the transport do.                                            *)
THEOREM ConnectionsTypes == Spec => []TypeOK
<1>1. IInv => TypeOK
  BY DEF IInv
<1> QED
  BY <1>1, Inductive, PTL

(* As long as no request was cancelled, the head of the queue is the one   *)
(* whose result comes: a connection is given to the request that asked for *)
(* its peer (RakNetTransport.cpp:336, :373), the queue is not empty when   *)
(* an answer comes, and one attempt is under way at a time.                *)
THEOREM ResultsGoRight == Spec => []RightPeer
<1>1. IInv => RightPeer
  BY DEF IInv, AttemptIsOfHead, Active, RightPeer
<1> QED
  BY <1>1, Inductive, PTL

(* The head of the queue has its attempt under way, or its attempt is over *)
(* and blocks the queue (RakNetTransport.cpp:537).                         *)
THEOREM HeadServed == Spec => []HeadIsServed
<1>1. IInv => HeadIsServed
  <2> SUFFICES ASSUME HeadStaysServed, queue # << >>, handling = Nobody
               PROVE  \/ link[target[Head(queue)]] \in {"connecting", "up", "advertised"}
                      \/ Head(queue) \in abandoned
    BY DEF IInv, HeadIsServed
  <2> QED
    BY DEF HeadStaysServed, Popped, Nobody, Active
<1> QED
  BY <1>1, Inductive, PTL

(* The tables of the repository: an open connection known by its key is    *)
(* known by its id, unless a closed one is there, which only a finished    *)
(* task of a factory put there (ConnectionsRepository.cpp:170).            *)
THEOREM TablesAgreed == Spec => []TablesAgree
<1>1. ASSUME IInv PROVE TablesAgree
  <2>1. \A k \in Keys : byKey[k].of # None => byKey[k].of \in Conns
    BY <1>1, Names DEF IInv, TypeOK, Entries, NoEntry
  <2>2. \A k \in Keys : byKey[k].of # None /\ state[byKey[k].of] = "connected" =>
          /\ byId[peer[byKey[k].of]] # None
          /\ byId[peer[byKey[k].of]] = byKey[k].of \/ state[byId[peer[byKey[k].of]]] = "closed"
    BY <1>1, <2>1 DEF IInv, OpenAreLinked
  <2> QED
    BY <1>1, <2>2 DEF IInv, ClosedAreTasks, TablesAgree
<1> QED
  BY <1>1, Inductive, PTL

(* A failed attempt is forgotten unless it failed before it was stored     *)
(* (ConnectionsRepository.cpp:184), and a handler that waits for a peer is *)
(* remembered unless there is another one (ConnectionsRepository.cpp:18).  *)
THEOREM PendingRemembered == Spec => []PendingIsRemembered
<1>1. IInv => PendingIsRemembered
  BY DEF IInv
<1> QED
  BY <1>1, Inductive, PTL
=============================================================================

----------------------------- MODULE Connections -----------------------------
(***************************************************************************)
(* How a client gets its connections: RakNetTransport.cpp with its queue   *)
(* of pending connections, ConnectionsRepository.cpp with its tables, and  *)
(* the three operations that ask for one: ensureConnectedToServer of       *)
(* Client.cpp and the handlers of P2P_CONNECT_CLIENT and P2P_CONNECT_HOST  *)
(* of P2PRequestModule.cpp.  Each element of Requests is one call of one   *)
(* of them.  RakNet, the servers and the remote peers are the environment. *)
(*                                                                         *)
(* A connection object is named after what it was made for: the request at *)
(* the head of the queue, or the remote peer that connected to this one.   *)
(***************************************************************************)
EXTENDS Integers, Sequences, Functions

CONSTANTS Requests,
          Servers,  \* one per cluster id, which is the key of its connection
          Remotes,  \* peers of P2P connections
          None

Peers == Servers \cup Remotes
Conns == Requests \cup Remotes
Keys == Servers \cup Conns

ASSUME DistinctNames ==
    /\ Requests \cap Peers = {} /\ Servers \cap Remotes = {}
    /\ None \notin Requests \cup Peers

VARIABLES
    \* ConnectionsRepository
    repoLock,   \* the request whose factory runs under _mutex
    byKey,      \* _connectionsByKey: tasks of factories, or of known connections
    byId,       \* _connections
    pendingP2P, \* _pendingP2PConnections: the request whose event is stored
    waiters,    \* the requests whose event of addPendingConnection is not set
    \* RakNetTransport
    queue,      \* _pendingConnections
    handling,   \* the packet handler that holds _pendingConnection_mtx
    guids,      \* _connections, by the guid of the peer
    link,       \* RakNet's connection with each peer
    undefined,  \* front() of an empty queue was used
    \* the requests
    op, target, pc,
    tce,        \* ConnectionRequest::tce
    cancelled,  \* ConnectionRequest::cancellationToken is cancelled
    task,       \* the task of the factory that getConnection stores
    early,      \* history: its continuation ran before the task was stored
    abandoned,  \* history: its attempt ended and it stayed in the queue
    \* the connection objects
    peer, state

repoVars == <<repoLock, byKey, byId, pendingP2P, waiters>>
tableVars == <<byKey, byId, pendingP2P, waiters>>
queueVars == <<queue, link, tce, abandoned>>
transportVars == <<handling, guids, undefined, queueVars>>
callVars == <<op, target, pc, cancelled, task, early>>
connVars == <<peer, state>>
vars == <<repoVars, transportVars, callVars, connVars>>

Nobody == [do |-> "nothing", peer |-> None, conn |-> None]
Handlers == [do : {"advertise", "new"}, peer : Peers, conn : Conns] \cup {Nobody}

NoEntry == [kind |-> "none", of |-> None]
Entries == [kind : {"task"}, of : Requests] \cup [kind : {"connection"}, of : Conns]
           \cup {NoEntry}

TypeOK ==
    /\ repoLock \in Requests \cup {None}
    /\ byKey \in [Keys -> Entries]
    /\ byId \in [Peers -> Conns \cup {None}]
    /\ pendingP2P \in [Peers -> Requests \cup {None}]
    /\ waiters \in SUBSET Requests
    /\ queue \in Seq(Requests)
    /\ handling \in Handlers
    /\ guids \in [Peers -> Conns \cup {None}]
    /\ link \in [Peers -> {"down", "connecting", "up", "advertised", "linked"}]
    /\ undefined \in BOOLEAN
    /\ op \in [Requests -> {"none", "server", "client", "host"}]
    /\ target \in [Requests -> Peers \cup {None}]
    /\ pc \in [Requests -> {"idle", "factory", "insert", "add", "connect", "over"}]
    /\ tce \in [Requests -> {"unset", "failed", "set"}]
    /\ cancelled \in SUBSET Requests
    /\ task \in [Requests -> {"none", "pending", "done", "failed"}]
    /\ early \in SUBSET Requests /\ abandoned \in SUBSET Requests
    /\ peer \in [Conns -> Peers \cup {None}]
    /\ state \in [Conns -> {"none", "connected", "closed"}]

Init ==
    /\ repoLock = None
    /\ byKey = [k \in Keys |-> NoEntry] /\ byId = [p \in Peers |-> None]
    /\ pendingP2P = [p \in Peers |-> None] /\ waiters = {}
    /\ queue = << >> /\ handling = Nobody /\ undefined = FALSE
    /\ guids = [p \in Peers |-> None] /\ link = [p \in Peers |-> "down"]
    /\ op = [r \in Requests |-> "none"] /\ target = [r \in Requests |-> None]
    /\ pc = [r \in Requests |-> "idle"] /\ tce = [r \in Requests |-> "unset"]
    /\ cancelled = {} /\ early = {} /\ abandoned = {}
    /\ task = [r \in Requests |-> "none"]
    /\ peer = [o \in Conns |-> None] /\ state = [o \in Conns |-> "none"]

\* IConnection::key: the cluster of a server, the session of a P2P connection.
Key(o) == IF o \in Requests /\ op[o] = "server" THEN target[o] ELSE o

\* unordered_map::emplace keeps what is there.
Emplace(table, k, v) == IF table[k] \in {None, NoEntry} THEN [table EXCEPT ![k] = v] ELSE table

-----------------------------------------------------------------------------
(***************************************************************************)
(* The queue of pending connections.                                       *)
(***************************************************************************)
\* The first request of q that is not cancelled, Len(q) + 1 if there is none.
FirstLive(q) ==
    CHOOSE i \in 1 .. Len(q) + 1 :
        /\ \A j \in 1 .. i - 1 : q[j] \in cancelled
        /\ i <= Len(q) => q[i] \notin cancelled

\* startNextPendingConnections, with the queue q, the links l and the events t:
\* cancelled requests are popped, and once the recursive calls are over they
\* are started like the one that follows them.  RakNet starts no second attempt
\* to a peer; it may refuse any (bad endpoint, name not resolved, no peer).  The
\* request whose attempt did not start gets its exception and stays where it is.
StartNext(q, l, t, a) ==
    LET n == FirstLive(q)
        called == {q[i] : i \in (1 .. n) \cap DOMAIN q}
    IN \E started \in SUBSET called :
        /\ \A r \in started : l[target[r]] = "down"
        /\ \A r, s \in started : target[r] = target[s] => r = s
        /\ queue' = SubSeq(q, n, Len(q))
        /\ link' = [p \in Peers |-> IF \E r \in started : target[r] = p
                                    THEN "connecting" ELSE l[p]]
        /\ tce' = [r \in Requests |-> IF r \in called \ started /\ t[r] = "unset"
                                      THEN "failed" ELSE t[r]]
        /\ abandoned' = a \cup ((called \ started) \cap Range(queue'))

\* Mutation of Connect: the request is started at once, whatever is pending.
ConnectAtOnce(r) ==
    /\ handling = Nobody
    /\ queue' = Append(queue, r)
    /\ link' = IF link[target[r]] = "down" THEN [link EXCEPT ![target[r]] = "connecting"] ELSE link
    /\ UNCHANGED <<tce, abandoned, handling, guids, undefined>>

\* RakNetTransport::connect takes _pendingConnection_mtx.
Connect(r) ==
    /\ handling = Nobody
    /\ IF queue = << >>
         THEN StartNext(<<r>>, link, tce, abandoned)
         ELSE queue' = Append(queue, r) /\ UNCHANGED <<link, tce, abandoned>>
    /\ UNCHANGED <<handling, guids, undefined>>

-----------------------------------------------------------------------------
(***************************************************************************)
(* ensureConnectedToServer: getConnection(key, factory) runs the factory,  *)
(* attaches its continuation and stores the task under _mutex.             *)
(***************************************************************************)
GetServer(r, s) ==
    /\ pc[r] = "idle" /\ repoLock = None
    /\ op' = [op EXCEPT ![r] = "server"] /\ target' = [target EXCEPT ![r] = s]
    /\ IF byKey[s] # NoEntry
         THEN pc' = [pc EXCEPT ![r] = "over"] /\ UNCHANGED repoLock
         ELSE pc' = [pc EXCEPT ![r] = "factory"] /\ repoLock' = r
    /\ UNCHANGED <<tableVars, transportVars, cancelled, task, early, connVars>>

\* Mutation of FactoryThrows: the exception leaves _mutex locked.
FactoryThrowsLocked(r) ==
    /\ pc[r] = "factory"
    /\ pc' = [pc EXCEPT ![r] = "over"]
    /\ UNCHANGED <<repoVars, transportVars, op, target, cancelled, task, early, connVars>>

\* The factory throws when the server has no endpoint for this transport.
FactoryThrows(r) ==
    /\ pc[r] = "factory"
    /\ pc' = [pc EXCEPT ![r] = "over"] /\ repoLock' = None
    /\ UNCHANGED <<tableVars, transportVars, op, target, cancelled, task, early, connVars>>

Factory(r) ==
    /\ pc[r] = "factory"
    /\ Connect(r)
    /\ pc' = [pc EXCEPT ![r] = "insert"] /\ task' = [task EXCEPT ![r] = "pending"]
    /\ UNCHANGED <<repoVars, op, target, cancelled, early, connVars>>

StoreTask(r) ==
    /\ pc[r] = "insert"
    /\ byKey' = Emplace(byKey, target[r], [kind |-> "task", of |-> r])
    /\ pc' = [pc EXCEPT ![r] = "over"] /\ repoLock' = None
    /\ UNCHANGED <<byId, pendingP2P, waiters, transportVars, op, target, cancelled, task,
                   early, connVars>>

\* Mutation of TaskFails: the continuation erases nothing.
TaskFailsKept(r) ==
    /\ task[r] = "pending"
    /\ tce[r] # "unset" \/ r \in cancelled
    /\ task' = [task EXCEPT ![r] = "failed"]
    /\ early' = IF pc[r] = "insert" THEN early \cup {r} ELSE early
    /\ UNCHANGED <<repoVars, transportVars, op, target, pc, cancelled, connVars>>

\* The continuation runs on any thread, without _mutex.  It fails when connect
\* failed or was cancelled, or when the metadata or the session was refused.
TaskFails(r) ==
    /\ task[r] = "pending"
    /\ tce[r] # "unset" \/ r \in cancelled
    /\ task' = [task EXCEPT ![r] = "failed"]
    /\ byKey' = [byKey EXCEPT ![target[r]] = NoEntry]
    /\ early' = IF pc[r] = "insert" THEN early \cup {r} ELSE early
    /\ UNCHANGED <<repoLock, byId, pendingP2P, waiters, transportVars, op, target, pc,
                   cancelled, connVars>>

\* It subscribes to onClose and stores the connection by id.
TaskSucceeds(r) ==
    /\ task[r] = "pending" /\ tce[r] = "set"
    /\ task' = [task EXCEPT ![r] = "done"]
    /\ byId' = Emplace(byId, peer[r], r)
    /\ UNCHANGED <<repoLock, byKey, pendingP2P, waiters, transportVars, op, target, pc,
                   cancelled, early, connVars>>

\* Mutation of Cancel: the token of the peer, not of the request.
CancelTarget(r) ==
    /\ r \notin cancelled
    /\ pc[r] = "factory" \/ task[r] = "pending"
    /\ cancelled' = cancelled \cup {target[r]}
    /\ UNCHANGED <<repoVars, transportVars, op, target, pc, task, early, connVars>>


Cancel(r) ==
    /\ r \notin cancelled
    /\ pc[r] = "factory" \/ task[r] = "pending"
    /\ cancelled' = cancelled \cup {r}
    /\ UNCHANGED <<repoVars, transportVars, op, target, pc, task, early, connVars>>

-----------------------------------------------------------------------------
(***************************************************************************)
(* P2P_CONNECT_CLIENT and P2P_CONNECT_HOST.  The dispatcher runs one       *)
(* handler at a time; between the look-up and addPendingConnection, and    *)
(* before connect, it holds no mutex.                                      *)
(***************************************************************************)
DispatcherIdle == \A r \in Requests : pc[r] \notin {"add", "connect"}

ConnectPeer(r, q, what) ==
    /\ pc[r] = "idle" /\ DispatcherIdle /\ repoLock = None
    /\ op' = [op EXCEPT ![r] = what] /\ target' = [target EXCEPT ![r] = q]
    /\ pc' = [pc EXCEPT ![r] = IF byId[q] # None /\ state[byId[q]] = "connected"
                               THEN "over" ELSE "add"]
    /\ UNCHANGED <<repoVars, transportVars, cancelled, task, early, connVars>>

AddPendingConnection(r) ==
    /\ pc[r] = "add" /\ repoLock = None
    /\ pendingP2P' = Emplace(pendingP2P, target[r], r)
    /\ waiters' = waiters \cup {r}
    /\ pc' = [pc EXCEPT ![r] = IF op[r] = "client" THEN "connect" ELSE "over"]
    /\ UNCHANGED <<repoLock, byKey, byId, transportVars, op, target, cancelled, task, early,
                   connVars>>

ConnectClient(r) ==
    /\ pc[r] = "connect"
    /\ Connect(r)
    /\ pc' = [pc EXCEPT ![r] = "over"]
    /\ UNCHANGED <<repoVars, op, target, cancelled, task, early, connVars>>

-----------------------------------------------------------------------------
(***************************************************************************)
(* RakNetTransport::run, one packet at a time.  The handlers of a          *)
(* connection hold _pendingConnection_mtx while they call the repository.  *)
(***************************************************************************)
TransportIdle == handling = Nobody /\ ~undefined

HeadIsCancelled == queue # << >> /\ Head(queue) \in cancelled
HeadIsP2P == queue # << >> /\ op[Head(queue)] # "server"

\* ID_CONNECTION_REQUEST_ACCEPTED.  A cancelled request is closed, not popped.
Accepted(p) ==
    /\ TransportIdle /\ link[p] = "connecting"
    /\ \/ /\ HeadIsCancelled
          /\ link' = [link EXCEPT ![p] = "down"]
          /\ abandoned' = abandoned \cup {Head(queue)}
          /\ UNCHANGED handling
       \/ /\ ~HeadIsCancelled
          /\ link' = [link EXCEPT ![p] = "up"]
          /\ handling' = IF HeadIsP2P
                         THEN [do |-> "advertise", peer |-> p, conn |-> Head(queue)]
                         ELSE Nobody
          /\ UNCHANGED abandoned
    /\ UNCHANGED <<repoVars, guids, undefined, queue, tce, callVars, connVars>>

\* It sends ID_ADVERTISE_PEERID with the id of the parent connection, for which
\* it asks the repository.
Advertise ==
    /\ handling.do = "advertise" /\ repoLock = None
    /\ link' = [link EXCEPT ![handling.peer] = "advertised"]
    /\ handling' = Nobody
    /\ UNCHANGED <<repoVars, guids, undefined, queue, tce, abandoned, callVars, connVars>>

\* Mutation of AttemptFailed: the head gets its exception and is not popped.
AttemptFailedKept(p) ==
    /\ TransportIdle /\ link[p] = "connecting"
    /\ link' = [link EXCEPT ![p] = "down"]
    /\ tce' = IF queue # << >> /\ tce[Head(queue)] = "unset"
              THEN [tce EXCEPT ![Head(queue)] = "failed"] ELSE tce
    /\ UNCHANGED <<repoVars, handling, guids, undefined, queue, abandoned, callVars, connVars>>

\* ID_CONNECTION_ATTEMPT_FAILED, ID_NO_FREE_INCOMING_CONNECTIONS.
AttemptFailed(p) ==
    /\ TransportIdle /\ link[p] = "connecting"
    /\ LET l == [link EXCEPT ![p] = "down"] IN
       IF queue = << >>
         THEN link' = l /\ UNCHANGED <<queue, tce, abandoned>>
         ELSE StartNext(Tail(queue), l,
                        IF Head(queue) \in cancelled \/ tce[Head(queue)] # "unset"
                        THEN tce ELSE [tce EXCEPT ![Head(queue)] = "failed"],
                        abandoned)
    /\ UNCHANGED <<repoVars, handling, guids, undefined, callVars, connVars>>

\* The head of the queue when its attempt, to p, ends and nothing pops it.
Left(p) == IF queue # << >> /\ target[Head(queue)] = p THEN {Head(queue)} ELSE {}

\* ID_ALREADY_CONNECTED, ID_CONNECTION_BANNED, ID_INVALID_PASSWORD,
\* ID_IP_RECENTLY_CONNECTED: they are logged.
Refused(p) ==
    /\ TransportIdle /\ link[p] = "connecting"
    /\ link' = [link EXCEPT ![p] = "down"]
    /\ abandoned' = abandoned \cup Left(p)
    /\ UNCHANGED <<repoVars, handling, guids, undefined, queue, tce, callVars, connVars>>

\* ID_CONNECTION_RESULT of a server goes to the head of the queue.
ConnectionResult(p) ==
    /\ TransportIdle /\ p \in Servers /\ link[p] \in {"up", "advertised"}
    /\ link' = [link EXCEPT ![p] = "linked"]
    /\ IF queue = << >>
         THEN UNCHANGED <<queue, handling>>
         ELSE /\ queue' = Tail(queue)
              /\ handling' = [do |-> "new", peer |-> p, conn |-> Head(queue)]
    /\ UNCHANGED <<repoVars, guids, undefined, tce, abandoned, callVars, connVars>>

\* ID_ADVERTISE_PEERID in answer to ours goes to the head of the queue too.
AdvertiseResponse(p) ==
    /\ TransportIdle /\ p \in Remotes /\ link[p] = "advertised"
    /\ \/ /\ queue = << >>
          /\ undefined' = TRUE
          /\ UNCHANGED <<handling, queueVars>>
       \/ /\ HeadIsCancelled
          /\ StartNext(Tail(queue), [link EXCEPT ![p] = "down"], tce, abandoned)
          /\ UNCHANGED <<handling, undefined>>
       \/ /\ queue # << >> /\ ~HeadIsCancelled
          /\ link' = [link EXCEPT ![p] = "linked"]
          /\ queue' = Tail(queue)
          /\ handling' = [do |-> "new", peer |-> p, conn |-> Head(queue)]
          /\ UNCHANGED <<undefined, tce, abandoned>>
    /\ UNCHANGED <<repoVars, guids, callVars, connVars>>

\* ID_ADVERTISE_PEERID of a remote peer that connected to this one.
AdvertiseRequest(q) ==
    /\ TransportIdle /\ link[q] = "down" /\ state[q] = "none"
    /\ link' = [link EXCEPT ![q] = "linked"]
    /\ handling' = [do |-> "new", peer |-> q, conn |-> q]
    /\ UNCHANGED <<repoVars, guids, undefined, queue, tce, abandoned, callVars, connVars>>

\* Mutation of NewConnection: the next pending connection is not started.
NewConnectionAlone ==
    /\ handling.do = "new" /\ repoLock = None
    /\ LET p == handling.peer
           o == handling.conn
       IN /\ guids' = [guids EXCEPT ![p] = o]
          /\ peer' = [peer EXCEPT ![o] = p] /\ state' = [state EXCEPT ![o] = "connected"]
          /\ byId' = Emplace(byId, p, o)
          /\ byKey' = Emplace(byKey, Key(o), [kind |-> "connection", of |-> o])
          /\ pendingP2P' = [pendingP2P EXCEPT ![p] = None]
          /\ waiters' = waiters \ {pendingP2P[p]}
          /\ tce' = IF o \in Requests /\ tce[o] = "unset" THEN [tce EXCEPT ![o] = "set"] ELSE tce
    /\ handling' = Nobody
    /\ UNCHANGED <<repoLock, undefined, queue, link, abandoned, callVars>>

\* onConnection: newConnection of the repository under its _mutex, then the
\* event of the request and the next pending connection.
NewConnection ==
    /\ handling.do = "new" /\ repoLock = None
    /\ LET p == handling.peer
           o == handling.conn
       IN /\ guids' = [guids EXCEPT ![p] = o]
          /\ peer' = [peer EXCEPT ![o] = p] /\ state' = [state EXCEPT ![o] = "connected"]
          /\ byId' = Emplace(byId, p, o)
          /\ byKey' = Emplace(byKey, Key(o), [kind |-> "connection", of |-> o])
          /\ pendingP2P' = [pendingP2P EXCEPT ![p] = None]
          /\ waiters' = waiters \ {pendingP2P[p]}
          /\ IF o \in Requests
               THEN StartNext(queue, link,
                              IF tce[o] = "unset" THEN [tce EXCEPT ![o] = "set"] ELSE tce,
                              abandoned)
               ELSE UNCHANGED queueVars
    /\ handling' = Nobody
    /\ UNCHANGED <<repoLock, undefined, callVars>>

\* ID_DISCONNECTION_NOTIFICATION, ID_CONNECTION_LOST: onDisconnection, which has
\* the repository and then the handlers of onClose erase by id and by key.
Lost(p) ==
    /\ TransportIdle /\ link[p] \in {"up", "advertised", "linked"}
    /\ guids[p] # None => repoLock = None
    /\ link' = [link EXCEPT ![p] = "down"]
    /\ guids' = [guids EXCEPT ![p] = None]
    /\ abandoned' = IF link[p] = "linked" THEN abandoned ELSE abandoned \cup Left(p)
    /\ IF guids[p] = None
         THEN UNCHANGED <<byId, byKey, state>>
         ELSE /\ byId' = [byId EXCEPT ![p] = None]
              /\ byKey' = [byKey EXCEPT ![Key(guids[p])] = NoEntry]
              /\ state' = [state EXCEPT ![guids[p]] = "closed"]
    /\ UNCHANGED <<repoLock, pendingP2P, waiters, handling, undefined, queue, tce, callVars,
                   peer>>

\* Mutation of Close: the tables forget a connection that goes on.
CloseById(p) ==
    /\ repoLock = None /\ byId[p] # None /\ state[byId[p]] = "connected"
    /\ byId' = [byId EXCEPT ![p] = None]
    /\ UNCHANGED <<repoLock, byKey, pendingP2P, waiters, transportVars, callVars, connVars>>

\* RakNetConnection::close, from closeAllConnections or the end of a session:
\* the handlers of onClose close the link and erase by id and by key.
Close(p) ==
    /\ repoLock = None /\ byId[p] # None /\ state[byId[p]] = "connected"
    /\ state' = [state EXCEPT ![byId[p]] = "closed"]
    /\ link' = [link EXCEPT ![p] = "down"]
    /\ byKey' = [byKey EXCEPT ![Key(byId[p])] = NoEntry]
    /\ byId' = [byId EXCEPT ![p] = None]
    /\ UNCHANGED <<repoLock, pendingP2P, waiters, handling, guids, undefined, queue, tce,
                   abandoned, callVars, peer>>

-----------------------------------------------------------------------------
Client(r) ==
    \/ \E s \in Servers : GetServer(r, s)
    \/ FactoryThrows(r) \/ Factory(r) \/ StoreTask(r)
    \/ TaskFails(r) \/ TaskSucceeds(r) \/ Cancel(r)
    \/ \E q \in Remotes, what \in {"client", "host"} : ConnectPeer(r, q, what)
    \/ AddPendingConnection(r) \/ ConnectClient(r)

Transport(p) ==
    \/ Accepted(p) \/ AttemptFailed(p) \/ Refused(p) \/ Lost(p)
    \/ ConnectionResult(p) \/ AdvertiseResponse(p)

Next ==
    \/ \E r \in Requests : Client(r)
    \/ \E p \in Peers : Transport(p) \/ Close(p)
    \/ \E q \in Remotes : AdvertiseRequest(q)
    \/ Advertise \/ NewConnection

Spec == Init /\ [][Next]_vars

\* A thread goes on as long as no mutex stops it, and RakNet ends each attempt;
\* what it accepted the peer answers, unless the connection is lost.
Answer(p) ==
    \/ Accepted(p) \/ AttemptFailed(p) \/ Refused(p)
    \/ ConnectionResult(p) \/ AdvertiseResponse(p)

Fairness ==
    /\ \A r \in Requests :
         /\ WF_vars(Factory(r)) /\ WF_vars(StoreTask(r))
         /\ WF_vars(AddPendingConnection(r)) /\ WF_vars(ConnectClient(r))
    /\ \A p \in Peers : WF_vars(Answer(p))
    /\ WF_vars(Advertise) /\ WF_vars(NewConnection)

FairSpec == Spec /\ Fairness

-----------------------------------------------------------------------------
(***************************************************************************)
(* Properties.                                                             *)
(***************************************************************************)
\* The result of a connection is given to the request at the head of the queue
\* (RakNetTransport.cpp:336, :373), whichever peer sends it.  That is its own
\* peer as long as no pending request was cancelled, the queue is then never
\* empty when an answer to ours comes, and one attempt is under way at a time:
\* startNext makes more only of cancelled requests (RakNetTransport.cpp:546).
RightPeer ==
    cancelled = {} =>
        /\ \A r \in Requests : peer[r] \in {None, target[r]}
        /\ ~undefined
        /\ \A p1, p2 \in Peers :
             {link[p1], link[p2]} \subseteq {"connecting", "up", "advertised"} => p1 = p2

\* Nothing starts the next pending connection but the end of the one at the head
\* (RakNetTransport.cpp:537): the attempt of the head is under way, or it ended
\* and left the head in place, which then blocks all others.
HeadIsServed ==
    queue # << >> /\ handling = Nobody =>
        \/ link[target[Head(queue)]] \in {"connecting", "up", "advertised"}
        \/ Head(queue) \in abandoned

\* Every table that holds an open connection by key has it by id, unless a closed
\* one took the place (ConnectionsRepository.cpp:53).  A closed connection is in
\* the tables only if the continuation of the factory put it there, whose
\* subscription to onClose came too late (ConnectionsRepository.cpp:170).
TablesAgree ==
    /\ \A k \in Keys : LET o == byKey[k].of IN
         o # None /\ state[o] = "connected" =>
             /\ byId[peer[o]] # None
             /\ byId[peer[o]] = o \/ state[byId[peer[o]]] = "closed"
    /\ \A p \in Peers : LET o == byId[p] IN
         o # None /\ state[o] = "closed" => o \in Requests /\ task[o] = "done"

\* A failed attempt to connect to a server is forgotten, so that it can be made
\* again, unless it failed before the task was stored (ConnectionsRepository.cpp:184).
\* A handler that waits for a peer is remembered unless another came first:
\* addPendingConnection keeps the first event (ConnectionsRepository.cpp:18).
PendingIsRemembered ==
    /\ \A k \in Keys : byKey[k].kind = "task" /\ task[byKey[k].of] = "failed" =>
         byKey[k].of \in early
    /\ \A r \in waiters :
         \/ pendingP2P[target[r]] = r
         \/ \E s \in Requests \ {r} : op[s] \in {"client", "host"} /\ target[s] = target[r]

\* getConnection takes _pendingConnection_mtx with _mutex held, by the factory;
\* the handlers of packets take _mutex with _pendingConnection_mtx held.
Deadlocked == repoLock # None /\ pc[repoLock] = "factory" /\ handling # Nobody

\* The two mutexes are given back, unless a factory and the handler of a packet
\* wait for each other (ConnectionsRepository.cpp:148, RakNetTransport.cpp:331).
LocksAreFreed ==
    /\ (repoLock # None) ~> (repoLock = None \/ Deadlocked)
    /\ (handling # Nobody) ~> (handling = Nobody \/ Deadlocked)

\* A pending connection gets a result, unless a request whose attempt is over
\* blocks the queue (RakNetTransport.cpp:555) or the mutexes block everything.
PendingConnectionsEnd ==
    \A r \in Requests :
        r \in Range(queue) ~>
            \/ r \notin Range(queue)
            \/ Range(queue) \cap abandoned # {}
            \/ Deadlocked \/ undefined
=============================================================================

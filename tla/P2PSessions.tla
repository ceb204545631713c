------------------------------ MODULE P2PSessions ------------------------------
(***************************************************************************)
(* One client and one remote peer: the P2P sessions the server creates     *)
(* between them (P2PSessions.cpp and its handlers in P2PRequestModule.cpp), *)
(* the connections made for them, direct or relayed by the server, and the *)
(* entry of the peer in a scene (Scene.cpp, P2PScenePeer.cpp).             *)
(*                                                                         *)
(* Connections are numbered; how one is made is the matter of Connections. *)
(* The server, the peer and the application are the environment.           *)
(***************************************************************************)
EXTENDS Integers, Sequences, FiniteSets

CONSTANTS Sessions,
          MaxConnections, \* bound: connections made with the peer
          MaxPeers,       \* bound: entries made for the peer in the scene
          MaxJoins,       \* bound: times each side joins the other in the scene
          None

ASSUME SessionsAssumption ==
    /\ None \notin Sessions
    /\ MaxConnections \in Nat /\ MaxPeers \in Nat /\ MaxJoins \in Nat

Conns == 1 .. MaxConnections
Entries == 1 .. MaxPeers
Sides == {"ours", "theirs"} \* who called openP2PConnection

VARIABLES
    \* P2PSessions
    sessions,  \* _sessions: "none" before, "closed" after the entry exists
    watched,   \* onConnectionCloseSubscription: the connection, or 0
    stuck,     \* the session whose closing waits for _sessionsMutex, which it holds
    dangling,  \* an erased session was written to
    \* the handlers of P2P_CONNECT_HOST and P2P_CONNECT_CLIENT, by session
    pc, via,
    \* the connections
    pending,   \* the session whose event newConnection will set
    current,   \* the connection with the peer in the repository, or 0
    conn, relay,
    toNotify,  \* handlers of onClose still to be run, by session
    \* the scene
    peer,      \* _connectedPeers: the number of the entry, or 0
    made,      \* entries made: the connection of each
    joins,     \* joins of each side so far
    join, over,
    posted,    \* actions posted to the dispatcher
    late       \* history: sessions and entries that came after the end of their connection

sessionVars == <<sessions, watched, stuck, dangling, pc, via>>
connVars == <<pending, current, conn, relay, toNotify>>
sceneVars == <<peer, made, joins, join, over, posted>>
vars == <<sessionVars, connVars, sceneVars, late>>

TypeOK ==
    /\ sessions \in [Sessions -> {"none", "unknown", "connected", "closed"}]
    /\ watched \in [Sessions -> Conns \cup {0}]
    /\ stuck \in Sessions \cup {None} /\ dangling \in BOOLEAN
    /\ pc \in [Sessions -> {"idle", "waiting", "forgotten", "update", "attach", "over"}]
    /\ via \in [Sessions -> Conns \cup {0}]
    /\ pending \in Sessions \cup {None} /\ current \in Conns \cup {0}
    /\ conn \in [Conns -> {"none", "open", "closing", "closed", "blocked"}]
    /\ relay \in SUBSET Conns /\ toNotify \in [Conns -> SUBSET Sessions]
    /\ made \in Seq(Conns) /\ Len(made) <= MaxPeers /\ peer \in 0 .. Len(made)
    /\ joins \in [Sides -> 0 .. MaxJoins]
    /\ join \in [Sides -> {"no", "asked", "announced", "added"}]
    /\ over \in [Sides -> Conns \cup {0}]
    /\ posted \in Seq([do : {"connected", "disconnected"}, of : Entries])
    /\ late \in SUBSET (Sessions \cup Entries)

Init ==
    /\ sessions = [s \in Sessions |-> "none"] /\ watched = [s \in Sessions |-> 0]
    /\ stuck = None /\ dangling = FALSE
    /\ pc = [s \in Sessions |-> "idle"] /\ via = [s \in Sessions |-> 0]
    /\ pending = None /\ current = 0
    /\ conn = [g \in Conns |-> "none"] /\ relay = {}
    /\ toNotify = [g \in Conns |-> {}]
    /\ peer = 0 /\ made = << >>
    /\ joins = [i \in Sides |-> 0] /\ join = [i \in Sides |-> "no"]
    /\ over = [i \in Sides |-> 0] /\ posted = << >> /\ late = {}

InTable(s) == sessions[s] \in {"unknown", "connected"}
Watchers(g) == {s \in Sessions : InTable(s) /\ watched[s] = g}

-----------------------------------------------------------------------------
(***************************************************************************)
(* The scene.                                                              *)
(***************************************************************************)
\* Mutation of RaisePeerDisconnected: it is not tested that the peer was found.
RaisePeerDisconnectedBlind ==
    /\ peer' = 0
    /\ posted' = Append(posted, [do |-> "disconnected", of |-> peer])

\* Mutation of RaisePeerDisconnected: the peer is not erased.
RaisePeerDisconnectedKept ==
    /\ posted' = IF peer = 0 THEN posted
                 ELSE Append(posted, [do |-> "disconnected", of |-> peer])
    /\ UNCHANGED peer

\* raisePeerDisconnected: erases the peer by its session id and tells it later.
RaisePeerDisconnected ==
    IF peer = 0
      THEN UNCHANGED <<peer, posted>>
      ELSE /\ peer' = 0
           /\ posted' = Append(posted, [do |-> "disconnected", of |-> peer])

\* Mutation of TellPeers: the subscription is not kept.
TellNobody(g) == UNCHANGED sceneVars

\* The peers subscribed to the state of the connection g: the one in the table,
\* or an earlier one to which the application kept a pointer.
TellPeers(g) ==
    /\ \/ /\ \E e \in 1 .. Len(made) : made[e] = g
          /\ RaisePeerDisconnected
       \/ /\ peer # 0 => made[peer] # g
          /\ UNCHANGED <<peer, posted>>
    /\ UNCHANGED <<made, joins, join, over>>

\* openP2PConnection here, or there: CONNECT_TO_SCENE is sent.
StartJoin(i) ==
    /\ join[i] = "no" /\ joins[i] < MaxJoins
    /\ current # 0 /\ conn[current] = "open"
    /\ join' = [join EXCEPT ![i] = "asked"] /\ over' = [over EXCEPT ![i] = current]
    /\ joins' = [joins EXCEPT ![i] = @ + 1]
    /\ UNCHANGED <<sessionVars, connVars, peer, made, posted, late>>

\* It is refused, or not answered.
JoinFails(i) ==
    /\ join[i] = "asked"
    /\ join' = [join EXCEPT ![i] = "no"]
    /\ UNCHANGED <<sessionVars, connVars, peer, made, joins, over, posted, late>>

\* peerConnected, in the continuation of the request or in its handler, which
\* has answered by then.  The peer that is in the table is kept.
AddPeer(i) ==
    /\ join[i] \in {"asked", "announced"}
    /\ join' = [join EXCEPT ![i] = IF @ = "asked" THEN "added" ELSE "no"]
    /\ IF peer # 0
         THEN UNCHANGED <<peer, made, late>>
         ELSE /\ Len(made) < MaxPeers
              /\ made' = Append(made, over[i]) /\ peer' = Len(made')
              /\ late' = IF conn[over[i]] = "closed" THEN late \cup {peer'} ELSE late
    /\ UNCHANGED <<sessionVars, connVars, joins, over, posted>>

\* raisePeerConnected, when CONNECTED_TO_SCENE was answered, or received.  The
\* action that is posted keeps an iterator to the entry.
Announce(i) ==
    /\ join[i] = "added" \/ (i = "theirs" /\ join[i] = "asked")
    /\ join' = [join EXCEPT ![i] = IF @ = "added" THEN "no" ELSE "announced"]
    /\ posted' = IF peer = 0 THEN posted
                 ELSE Append(posted, [do |-> "connected", of |-> peer])
    /\ UNCHANGED <<sessionVars, connVars, peer, made, joins, over, late>>

\* P2PScenePeer::disconnect, or DISCONNECT_FROM_SCENE of the peer.
PeerLeaves ==
    /\ peer # 0
    /\ RaisePeerDisconnected
    /\ UNCHANGED <<sessionVars, connVars, made, joins, join, over, late>>

RunPosted ==
    /\ posted # << >>
    /\ posted' = Tail(posted)
    /\ dangling' = (dangling \/ (Head(posted).do = "connected" /\ Head(posted).of # peer))
    /\ UNCHANGED <<sessions, watched, stuck, pc, via, connVars, peer, made, joins, join, over,
                   late>>

-----------------------------------------------------------------------------
(***************************************************************************)
(* The connections.                                                        *)
(***************************************************************************)
\* newConnection: what is in the repository stays there.
Register(g, isRelay) ==
    /\ conn' = [conn EXCEPT ![g] = "open"]
    /\ current' = IF current = 0 THEN g ELSE current
    /\ relay' = IF isRelay THEN relay \cup {g} ELSE relay
    /\ pending' = None

NextConn(g) == conn[g] = "none" /\ \A k \in 1 .. g - 1 : conn[k] # "none"

Told(s, g) ==
    IF s = None THEN UNCHANGED <<pc, via>>
    ELSE pc' = [pc EXCEPT ![s] = "update"] /\ via' = [via EXCEPT ![s] = g]

NewConnection(g) ==
    /\ NextConn(g) /\ current = 0
    /\ Register(g, FALSE)
    /\ Told(pending, g)
    /\ UNCHANGED <<sessions, watched, stuck, dangling, toNotify, sceneVars, late>>

\* Mutation of BeginClose: the state is set before onClose, which is not raised then.
BeginCloseSilently ==
    /\ current # 0 /\ current \notin relay /\ conn[current] = "open"
    /\ conn' = [conn EXCEPT ![current] = "closing"] /\ current' = 0
    /\ UNCHANGED <<sessionVars, pending, relay, toNotify, sceneVars, late>>

\* RakNetConnection::close of another thread, or onDisconnection of the transport:
\* the repository forgets the connection, then the handlers of the sessions run,
\* then the peers of the scene are told.
BeginClose ==
    /\ current # 0 /\ current \notin relay /\ conn[current] = "open"
    /\ conn' = [conn EXCEPT ![current] = "closing"] /\ current' = 0
    /\ toNotify' = [toNotify EXCEPT ![current] = Watchers(current)]
    /\ UNCHANGED <<sessionVars, pending, relay, sceneVars, late>>

EndClose(g) ==
    /\ conn[g] = "closing" /\ toNotify[g] = {}
    /\ conn' = [conn EXCEPT ![g] = "closed"]
    /\ TellPeers(g)
    /\ UNCHANGED <<sessionVars, pending, current, relay, toNotify, late>>

-----------------------------------------------------------------------------
(***************************************************************************)
(* The sessions.                                                           *)
(***************************************************************************)
CreateSession(s) ==
    /\ sessions[s] = "none" /\ stuck = None
    /\ sessions' = [sessions EXCEPT ![s] = "unknown"]
    /\ UNCHANGED <<watched, stuck, dangling, pc, via, connVars, sceneVars, late>>

Connected(s) == sessions' = [sessions EXCEPT ![s] = IF InTable(s) THEN "connected" ELSE @]

\* tryGetSession gives a reference to the session, used after the mutex.
LookUp(s) == IF InTable(s) /\ watched[s] = 0 THEN "attach" ELSE "over"

\* P2P_CONNECT_HOST, P2P_CONNECT_CLIENT.  addPendingConnection keeps the first
\* event for a peer.
ConnectPeer(s) ==
    /\ sessions[s] # "none" /\ pc[s] = "idle" /\ stuck = None
    /\ IF current # 0
         THEN /\ Connected(s)
              /\ pc' = [pc EXCEPT ![s] = LookUp(s)] /\ via' = [via EXCEPT ![s] = current]
              /\ UNCHANGED pending
         ELSE /\ pc' = [pc EXCEPT ![s] = IF pending = None THEN "waiting" ELSE "forgotten"]
              /\ pending' = IF pending = None THEN s ELSE pending
              /\ UNCHANGED <<sessions, via>>
    /\ UNCHANGED <<watched, stuck, dangling, current, conn, relay, toNotify, sceneVars, late>>

\* The continuation of addPendingConnection.
Update(s) ==
    /\ pc[s] = "update" /\ stuck = None
    /\ Connected(s)
    /\ pc' = [pc EXCEPT ![s] = LookUp(s)]
    /\ UNCHANGED <<watched, stuck, dangling, via, connVars, sceneVars, late>>

\* registerConnectionOnCloseSession subscribes to onClose.
Attach(s) ==
    /\ pc[s] = "attach"
    /\ pc' = [pc EXCEPT ![s] = "over"]
    /\ IF InTable(s)
         THEN /\ watched' = [watched EXCEPT ![s] = via[s]]
              /\ late' = IF conn[via[s]] # "open" THEN late \cup {s} ELSE late
              /\ UNCHANGED dangling
         ELSE dangling' = TRUE /\ UNCHANGED <<watched, late>>
    /\ UNCHANGED <<sessions, stuck, via, connVars, sceneVars>>

\* P2P_RELAY_OPEN.
OpenRelay(s, g) ==
    /\ InTable(s) /\ stuck = None /\ NextConn(g)
    /\ Register(g, TRUE)
    /\ sessions' = [sessions EXCEPT ![s] = "connected"]
    /\ Told(pending, g)
    /\ UNCHANGED <<watched, stuck, dangling, toNotify, sceneVars, late>>

\* Mutation of CloseSession: the connection is left open.
CloseSessionOnly(s) ==
    /\ stuck = None
    /\ sessions' = [sessions EXCEPT ![s] = IF InTable(s) THEN "closed" ELSE @]
    /\ watched' = [watched EXCEPT ![s] = 0]
    /\ UNCHANGED <<stuck, dangling, pc, pending, current, conn, relay, sceneVars, late>>

\* closeSession erases the session and closes the connection there is with the
\* peer, with _sessionsMutex held: a handler of onClose takes it again, for
\* another session.  close of a relay does nothing.
CloseSession(s) ==
    /\ stuck = None
    /\ IF ~InTable(s)
         THEN UNCHANGED <<sessions, watched, stuck, current, conn, sceneVars>>
         ELSE /\ sessions' = [sessions EXCEPT ![s] = "closed"]
              /\ watched' = [watched EXCEPT ![s] = 0]
              /\ IF current = 0 \/ current \in relay
                   THEN UNCHANGED <<stuck, current, conn, sceneVars>>
                   ELSE /\ current' = 0
                        /\ \/ /\ Watchers(current) \subseteq {s}
                              /\ conn' = [conn EXCEPT ![current] = "closed"]
                              /\ TellPeers(current)
                              /\ UNCHANGED stuck
                           \/ /\ ~(Watchers(current) \subseteq {s})
                              /\ stuck' = s
                              /\ conn' = [conn EXCEPT ![current] = "blocked"]
                              /\ UNCHANGED sceneVars
    /\ UNCHANGED <<dangling, pc, pending, relay, late>>

\* P2P_CLOSE_SESSION of the server.
CloseRequest(s) ==
    /\ InTable(s)
    /\ CloseSession(s)
    /\ UNCHANGED <<via, toNotify>>

\* The handler of onClose that the session subscribed.
OnClose(s, g) ==
    /\ s \in toNotify[g]
    /\ CloseSession(s)
    /\ toNotify' = [toNotify EXCEPT ![g] = @ \ {s}]
    /\ UNCHANGED via

-----------------------------------------------------------------------------
Next ==
    \/ \E s \in Sessions :
         \/ CreateSession(s) \/ ConnectPeer(s) \/ Update(s) \/ Attach(s) \/ CloseRequest(s)
         \/ \E g \in Conns : OpenRelay(s, g) \/ OnClose(s, g)
    \/ \E g \in Conns : NewConnection(g) \/ EndClose(g)
    \/ \E i \in Sides : StartJoin(i) \/ JoinFails(i) \/ AddPeer(i) \/ Announce(i)
    \/ BeginClose \/ PeerLeaves \/ RunPosted

Spec == Init /\ [][Next]_vars

-----------------------------------------------------------------------------
(***************************************************************************)
(* Properties.                                                             *)
(***************************************************************************)
\* A session does not outlive the connection it watches, unless it subscribed
\* to onClose after the event (P2PRequestModule.cpp:309).
SessionsEndWithTheirConnection ==
    \A s \in Sessions :
        InTable(s) /\ watched[s] # 0 /\ conn[watched[s]] = "closed" => s \in late

\* The end of a session ends the connection it watches, unless that is a relay,
\* which cannot be closed (RelayConnection.cpp:45) and stays in the repository.
SessionEndCloses ==
    \A s \in Sessions :
        InTable(s) /\ watched[s] # 0 /\ ~InTable(s)' =>
            conn'[watched[s]] # "open" \/ watched[s] \in relay

\* No step but such a one ends a session that watches a connection.
ConnectionsEndWithTheirSession == [][SessionEndCloses]_vars

\* A peer whose connection is closed is not in the scene, unless its entry was
\* made after that (P2PScenePeer.cpp:51).
PeersEndWithTheirConnection ==
    peer # 0 /\ conn[made[peer]] = "closed" => peer \in late

\* onPeerConnected is not raised for a peer after its onPeerDisconnected, and it
\* uses a dead iterator (Scene.cpp:814) only if the peer left before it was run.
PeerEventsInOrder ==
    \A i \in 1 .. Len(posted) : LET e == posted[i].of
                                    Behind(do) == \E j \in i + 1 .. Len(posted) :
                                                     posted[j] = [do |-> do, of |-> e]
                                IN
        IF posted[i].do = "disconnected" THEN ~Behind("connected") /\ e # peer
        ELSE e = peer \/ Behind("disconnected")
=============================================================================

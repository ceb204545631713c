--------------------------- MODULE P2PSessions_proofs ---------------------------
(***************************************************************************)
(* Proofs about P2PSessions, for any number of sessions, connections and   *)
(* entries of the peer in the scene.                                       *)
(***************************************************************************)
EXTENDS P2PSessions, TLAPS

(* Only sessions of the table watch a connection. *)
WatchersAreInTable == \A s \in Sessions : watched[s] # 0 => InTable(s)

(* While a connection closes, the sessions that watch it are still to be   *)
(* told, but for those that subscribed too late.                           *)
ClosingTellsSessions ==
    \A s \in Sessions :
        watched[s] # 0 /\ conn[watched[s]] = "closing" =>
            s \in toNotify[watched[s]] \cup late

(* An open connection that is not a relay is the one in the repository. *)
DirectIsCurrent == \A g \in Conns : conn[g] = "open" /\ g \notin relay => current = g

(* A peer is made of the connection over which it was asked for. *)
JoinsHaveConnections == \A i \in Sides : join[i] # "no" => over[i] # 0

(* The events to be raised are about entries that were made. *)
PostedEntriesExist == \A k \in 1 .. Len(posted) : posted[k].of <= Len(made)

IInv ==
    /\ TypeOK
    /\ WatchersAreInTable /\ ClosingTellsSessions /\ SessionsEndWithTheirConnection
    /\ DirectIsCurrent
    /\ JoinsHaveConnections /\ PeersEndWithTheirConnection
    /\ PostedEntriesExist /\ PeerEventsInOrder
-----------------------------------------------------------------------------
(* The closing of a session, and what its handlers do to the scene.        *)
LEMMA TellPeersTypes ==
    ASSUME TypeOK, NEW g \in Conns, TellPeers(g)
    PROVE  /\ made' = made /\ joins' = joins /\ join' = join /\ over' = over
           /\ \/ peer' = 0
              \/ peer' = peer /\ (peer # 0 => made[peer] # g)
           /\ \/ peer' = peer /\ posted' = posted
              \/ /\ peer # 0 /\ peer' = 0
                 /\ posted' = Append(posted, [do |-> "disconnected", of |-> peer])
  BY DEF TypeOK, TellPeers, RaisePeerDisconnected

(* What CloseSession does, in three cases. *)
LEMMA CloseSessionCases ==
    ASSUME TypeOK, NEW s \in Sessions, CloseSession(s)
    PROVE  /\ UNCHANGED <<dangling, pc, pending, relay, late>>
           /\ \/ ~InTable(s) /\ UNCHANGED <<sessions, watched, stuck, current, conn, sceneVars>>
              \/ /\ InTable(s)
                 /\ sessions' = [sessions EXCEPT ![s] = "closed"]
                 /\ watched' = [watched EXCEPT ![s] = 0]
                 /\ \/ /\ current = 0 \/ current \in relay
                       /\ UNCHANGED <<stuck, current, conn, sceneVars>>
                    \/ /\ current # 0 /\ current \notin relay /\ current' = 0
                       /\ \/ /\ Watchers(current) \subseteq {s}
                             /\ conn' = [conn EXCEPT ![current] = "closed"]
                             /\ TellPeers(current) /\ UNCHANGED stuck
                          \/ /\ stuck' = s
                             /\ conn' = [conn EXCEPT ![current] = "blocked"]
                             /\ UNCHANGED sceneVars
<1>1. CASE ~InTable(s)
  BY <1>1 DEF CloseSession
<1>2. CASE InTable(s) /\ (current = 0 \/ current \in relay)
  BY <1>2 DEF CloseSession
<1>3. CASE InTable(s) /\ ~(current = 0 \/ current \in relay)
  BY <1>3 DEF CloseSession
<1> QED
  BY <1>1, <1>2, <1>3

(* Both requests to close a session are steps of CloseSession. *)
Closes(s) ==
    /\ CloseSession(s) /\ via' = via
    /\ \/ InTable(s) /\ toNotify' = toNotify
       \/ \E g \in Conns : toNotify' = [toNotify EXCEPT ![g] = @ \ {s}]

(* The steps, by what they leave alone. *)
SceneSteps ==
    \/ \E i \in Sides : StartJoin(i) \/ JoinFails(i) \/ AddPeer(i) \/ Announce(i)
    \/ PeerLeaves

SessionSteps == \E s \in Sessions : CreateSession(s) \/ Update(s) \/ Attach(s)

LEMMA StepCases ==
    ASSUME Next
    PROVE  \/ SceneSteps \/ SessionSteps
           \/ \E s \in Sessions : ConnectPeer(s) \/ Closes(s) \/ \E g \in Conns : OpenRelay(s, g)
           \/ \E g \in Conns : NewConnection(g) \/ EndClose(g)
           \/ BeginClose \/ RunPosted
<1>1. ASSUME NEW s \in Sessions, NEW g \in Conns, OnClose(s, g)
      PROVE  Closes(s)
  BY <1>1 DEF OnClose, Closes
<1>2. ASSUME NEW s \in Sessions, CloseRequest(s) PROVE Closes(s)
  BY <1>2 DEF CloseRequest, Closes
<1> QED
  BY <1>1, <1>2 DEF Next, SceneSteps, SessionSteps

LEMMA SceneStepsKeep == SceneSteps => UNCHANGED <<sessionVars, connVars>>
<1>1. ASSUME NEW i \in Sides, StartJoin(i) \/ JoinFails(i) \/ AddPeer(i) \/ Announce(i)
      PROVE  UNCHANGED <<sessionVars, connVars>>
  BY <1>1 DEF StartJoin, JoinFails, AddPeer, Announce
<1>2. CASE PeerLeaves
  BY <1>2 DEF PeerLeaves
<1> QED
  BY <1>1, <1>2 DEF SceneSteps

LEMMA SessionStepsKeep == SessionSteps => UNCHANGED <<connVars, sceneVars>>
  BY DEF SessionSteps, CreateSession, Update, Attach

LEMMA ConnStepsKeep ==
    /\ \A s \in Sessions : ConnectPeer(s) => UNCHANGED <<sceneVars, late>>
    /\ \A s \in Sessions : \A g \in Conns : OpenRelay(s, g) => UNCHANGED <<sceneVars, late>>
    /\ \A g \in Conns : NewConnection(g) => UNCHANGED <<sceneVars, late>>
    /\ \A g \in Conns : EndClose(g) => UNCHANGED <<sessionVars, late>>
    /\ BeginClose => UNCHANGED <<sessionVars, sceneVars, late>>
    /\ RunPosted => UNCHANGED <<connVars, late>>
  BY DEF ConnectPeer, OpenRelay, NewConnection, EndClose, BeginClose, RunPosted

-----------------------------------------------------------------------------
(* Types. *)
SessionTypes ==
    /\ sessions \in [Sessions -> {"none", "unknown", "connected", "closed"}]
    /\ watched \in [Sessions -> Conns \cup {0}]
    /\ stuck \in Sessions \cup {None} /\ dangling \in BOOLEAN
    /\ pc \in [Sessions -> {"idle", "waiting", "forgotten", "update", "attach", "over"}]
    /\ via \in [Sessions -> Conns \cup {0}]

ConnTypes ==
    /\ pending \in Sessions \cup {None} /\ current \in Conns \cup {0}
    /\ conn \in [Conns -> {"none", "open", "closing", "closed", "blocked"}]
    /\ relay \in SUBSET Conns /\ toNotify \in [Conns -> SUBSET Sessions]

SceneTypes ==
    /\ made \in Seq(Conns) /\ Len(made) <= MaxPeers /\ peer \in 0 .. Len(made)
    /\ joins \in [Sides -> 0 .. MaxJoins]
    /\ join \in [Sides -> {"no", "asked", "announced", "added"}]
    /\ over \in [Sides -> Conns \cup {0}]
    /\ posted \in Seq([do : {"connected", "disconnected"}, of : Entries])

LateTypes == late \in SUBSET (Sessions \cup Entries)

LEMMA TypeParts == TypeOK <=> SessionTypes /\ ConnTypes /\ SceneTypes /\ LateTypes
  BY DEF TypeOK, SessionTypes, ConnTypes, SceneTypes, LateTypes

LEMMA LookUpTypes == \A s \in Sessions : LookUp(s) \in {"attach", "over"}
  BY DEF LookUp

LEMMA SessionTypeStep ==
    ASSUME TypeOK, Next
    PROVE  SessionTypes'
<1> USE DEF SessionTypes
<1>1. ASSUME NEW s \in Sessions, CreateSession(s) PROVE SessionTypes'
  BY <1>1 DEF TypeOK, CreateSession
<1>2. ASSUME NEW s \in Sessions, Connected(s)
      PROVE  sessions' \in [Sessions -> {"none", "unknown", "connected", "closed"}]
  BY <1>2 DEF TypeOK, Connected, InTable
<1>3. ASSUME NEW s \in Sessions, ConnectPeer(s) PROVE SessionTypes'
  <2>1. UNCHANGED <<watched, stuck, dangling>>
    BY <1>3 DEF ConnectPeer
  <2>2. CASE current # 0
    BY <1>2, <1>3, <2>1, <2>2, LookUpTypes DEF TypeOK, ConnectPeer
  <2>3. CASE current = 0
    BY <1>3, <2>1, <2>3 DEF TypeOK, ConnectPeer
  <2> QED
    BY <2>2, <2>3
<1>4. ASSUME NEW s \in Sessions, Update(s) PROVE SessionTypes'
  BY <1>2, <1>4, LookUpTypes DEF TypeOK, Update
<1>5. ASSUME NEW s \in Sessions, Attach(s) PROVE SessionTypes'
  BY <1>5 DEF TypeOK, Attach
<1>6. ASSUME NEW s \in Sessions, Closes(s) PROVE SessionTypes'
  <2>1. UNCHANGED <<dangling, pc, via>>
    BY <1>6, CloseSessionCases DEF Closes
  <2>2. /\ sessions' = sessions \/ sessions' = [sessions EXCEPT ![s] = "closed"]
        /\ watched' = watched \/ watched' = [watched EXCEPT ![s] = 0]
        /\ stuck' = stuck \/ stuck' = s
    BY <1>6, CloseSessionCases DEF Closes
  <2> QED
    BY <2>1, <2>2 DEF TypeOK
<1>7. ASSUME NEW g \in Conns, NEW s \in Sessions \cup {None}, Told(s, g)
      PROVE  /\ pc' \in [Sessions -> {"idle", "waiting", "forgotten", "update", "attach", "over"}]
             /\ via' \in [Sessions -> Conns \cup {0}]
  BY <1>7, SessionsAssumption DEF TypeOK, Told
<1>8. ASSUME NEW s \in Sessions, NEW g \in Conns, OpenRelay(s, g) PROVE SessionTypes'
  BY <1>7, <1>8 DEF TypeOK, OpenRelay
<1>9. ASSUME NEW g \in Conns, NewConnection(g) PROVE SessionTypes'
  BY <1>7, <1>9 DEF TypeOK, NewConnection
<1>10. CASE RunPosted
  BY <1>10 DEF TypeOK, RunPosted
<1>11. ASSUME UNCHANGED sessionVars PROVE SessionTypes'
  BY <1>11 DEF TypeOK, sessionVars
<1> QED
  BY <1>1, <1>3, <1>4, <1>5, <1>6, <1>8, <1>9, <1>10, <1>11, StepCases, SceneStepsKeep, ConnStepsKeep
     DEF SessionSteps

LEMMA ConnTypeStep ==
    ASSUME TypeOK, Next
    PROVE  ConnTypes'
<1> USE DEF ConnTypes
<1>1. ASSUME UNCHANGED connVars PROVE ConnTypes'
  BY <1>1 DEF TypeOK, connVars
<1>2. ASSUME NEW s \in Sessions, ConnectPeer(s) PROVE ConnTypes'
  BY <1>2 DEF TypeOK, ConnectPeer
<1>3. ASSUME NEW g \in Conns, NEW b \in BOOLEAN, Register(g, b), toNotify' = toNotify
      PROVE  ConnTypes'
  BY <1>3 DEF TypeOK, Register
<1>4. ASSUME NEW s \in Sessions, Closes(s) PROVE ConnTypes'
  <2>1. /\ UNCHANGED <<pending, relay>>
        /\ current' = current \/ current' = 0
        /\ \/ conn' = conn
           \/ \E to \in {"closed", "blocked"} : conn' = [conn EXCEPT ![current] = to]
    BY <1>4, CloseSessionCases DEF Closes
  <2>2. toNotify' \in [Conns -> SUBSET Sessions]
    BY <1>4 DEF TypeOK, Closes
  <2> QED
    BY <2>1, <2>2 DEF TypeOK
<1>5. CASE BeginClose
  <2>1. Watchers(current) \in SUBSET Sessions
    BY DEF Watchers
  <2> QED
    BY <1>5, <2>1 DEF TypeOK, BeginClose
<1>6. ASSUME NEW g \in Conns, EndClose(g) PROVE ConnTypes'
  BY <1>6 DEF TypeOK, EndClose
<1>7. ASSUME NEW g \in Conns, NewConnection(g) PROVE ConnTypes'
  BY <1>3, <1>7 DEF NewConnection
<1>8. ASSUME NEW s \in Sessions, NEW g \in Conns, OpenRelay(s, g) PROVE ConnTypes'
  BY <1>3, <1>8 DEF OpenRelay
<1> QED
  BY <1>1, <1>2, <1>4, <1>5, <1>6, <1>7, <1>8, StepCases, SceneStepsKeep, SessionStepsKeep,
     ConnStepsKeep

(* What is told of a peer is about an entry. *)
LEMMA PeerIsEntry ==
    ASSUME TypeOK, peer # 0
    PROVE  peer \in Entries
  BY SessionsAssumption DEF TypeOK, Entries

LEMMA AppendEvent ==
    ASSUME TypeOK, peer # 0, NEW do \in {"connected", "disconnected"}
    PROVE  Append(posted, [do |-> do, of |-> peer]) \in
               Seq([do : {"connected", "disconnected"}, of : Entries])
<1> DEFINE Event == [do : {"connected", "disconnected"}, of : Entries]
<1>1. [do |-> do, of |-> peer] \in Event
  BY PeerIsEntry
<1>2. posted \in Seq(Event)
  BY DEF TypeOK
<1> HIDE DEF Event
<1>3. Append(posted, [do |-> do, of |-> peer]) \in Seq(Event)
  BY <1>1, <1>2
<1> QED
  BY <1>3 DEF Event

LEMMA SceneTypeStep ==
    ASSUME TypeOK, JoinsHaveConnections, Next
    PROVE  SceneTypes'
<1> USE DEF SceneTypes
<1>1. ASSUME UNCHANGED sceneVars PROVE SceneTypes'
  BY <1>1 DEF TypeOK, sceneVars
<1>2. ASSUME UNCHANGED <<made, joins, join, over>>, peer' \in {0, peer},
             \/ posted' = posted
             \/ /\ peer # 0
                /\ \E do \in {"connected", "disconnected"} :
                     posted' = Append(posted, [do |-> do, of |-> peer])
      PROVE  SceneTypes'
  <2>1. peer' \in 0 .. Len(made)
    BY <1>2 DEF TypeOK
  <2>2. ASSUME peer # 0, NEW do \in {"connected", "disconnected"},
               posted' = Append(posted, [do |-> do, of |-> peer])
        PROVE  posted' \in Seq([do : {"connected", "disconnected"}, of : Entries])
    BY <2>2, AppendEvent
  <2>3. posted' \in Seq([do : {"connected", "disconnected"}, of : Entries])
    BY <1>2, <2>2 DEF TypeOK
  <2> QED
    BY <1>2, <2>1, <2>3 DEF TypeOK
<1>3. ASSUME NEW g \in Conns, TellPeers(g) PROVE SceneTypes'
  BY <1>2, <1>3, TellPeersTypes
<1>4. CASE PeerLeaves
  BY <1>2, <1>4 DEF PeerLeaves, RaisePeerDisconnected
<1>5. ASSUME NEW i \in Sides, StartJoin(i) PROVE SceneTypes'
  <2>1. joins' \in [Sides -> 0 .. MaxJoins]
    BY <1>5, SessionsAssumption DEF TypeOK, StartJoin
  <2> QED
    BY <1>5, <2>1 DEF TypeOK, StartJoin
<1>6. ASSUME NEW i \in Sides, JoinFails(i) PROVE SceneTypes'
  BY <1>6 DEF TypeOK, JoinFails
<1>7. ASSUME NEW i \in Sides, AddPeer(i) PROVE SceneTypes'
  <2>1. over[i] \in Conns
    BY <1>7 DEF TypeOK, JoinsHaveConnections, AddPeer
  <2>2. join' \in [Sides -> {"no", "asked", "announced", "added"}]
    BY <1>7 DEF TypeOK, AddPeer
  <2>3. CASE peer # 0
    BY <1>7, <2>2, <2>3 DEF TypeOK, AddPeer
  <2>4. CASE peer = 0
    <3>1. Len(made) < MaxPeers /\ made' = Append(made, over[i]) /\ peer' = Len(made')
      BY <1>7, <2>4 DEF AddPeer
    <3>2. made' \in Seq(Conns) /\ Len(made') = Len(made) + 1
      BY <2>1, <3>1 DEF TypeOK
    <3>3. Len(made') <= MaxPeers /\ peer' \in 0 .. Len(made')
      BY <3>1, <3>2, SessionsAssumption DEF TypeOK
    <3> QED
      BY <1>7, <2>2, <3>2, <3>3 DEF TypeOK, AddPeer
  <2> QED
    BY <2>3, <2>4
<1>8. ASSUME NEW i \in Sides, Announce(i) PROVE SceneTypes'
  <2>1. join' \in [Sides -> {"no", "asked", "announced", "added"}]
    BY <1>8 DEF TypeOK, Announce
  <2>2. posted' \in Seq([do : {"connected", "disconnected"}, of : Entries])
    BY <1>8, AppendEvent DEF TypeOK, Announce
  <2> QED
    BY <1>8, <2>1, <2>2 DEF TypeOK, Announce
<1>9. CASE RunPosted
  BY <1>9 DEF TypeOK, RunPosted
<1>10. ASSUME NEW s \in Sessions, Closes(s) PROVE SceneTypes'
  <2>1. UNCHANGED sceneVars \/ (current # 0 /\ TellPeers(current))
    BY <1>10, CloseSessionCases DEF Closes
  <2>2. current # 0 => current \in Conns
    BY DEF TypeOK
  <2> QED
    BY <1>1, <1>3, <2>1, <2>2
<1>11. ASSUME NEW g \in Conns, EndClose(g) PROVE SceneTypes'
  BY <1>3, <1>11 DEF EndClose
<1> QED
  BY <1>1, <1>4, <1>5, <1>6, <1>7, <1>8, <1>9, <1>10, <1>11, StepCases, SessionStepsKeep,
     ConnStepsKeep DEF SceneSteps

LEMMA LateTypeStep ==
    ASSUME TypeOK, Next
    PROVE  LateTypes' /\ late \subseteq late'
<1> USE DEF LateTypes
<1>1. ASSUME late' = late PROVE LateTypes' /\ late \subseteq late'
  BY <1>1 DEF TypeOK
<1>2. ASSUME NEW i \in Sides, AddPeer(i) PROVE LateTypes' /\ late \subseteq late'
  <2>1. CASE peer # 0
    BY <1>1, <1>2, <2>1 DEF AddPeer
  <2>2. CASE peer = 0
    <3>1. peer' = Len(made) + 1 /\ Len(made) < MaxPeers
      BY <1>2, <2>2 DEF TypeOK, AddPeer
    <3>2. peer' \in Entries
      BY <3>1, SessionsAssumption DEF TypeOK, Entries
    <3> QED
      BY <1>2, <2>2, <3>2 DEF TypeOK, AddPeer
  <2> QED
    BY <2>1, <2>2
<1>3. ASSUME NEW s \in Sessions, Attach(s) PROVE LateTypes' /\ late \subseteq late'
  BY <1>3 DEF TypeOK, Attach
<1>4. ASSUME NEW s \in Sessions, Closes(s) PROVE late' = late
  BY <1>4, CloseSessionCases DEF Closes
<1>5. /\ \A i \in Sides : StartJoin(i) \/ JoinFails(i) \/ Announce(i) => late' = late
      /\ PeerLeaves => late' = late
      /\ \A s \in Sessions : CreateSession(s) \/ Update(s) => late' = late
  BY DEF StartJoin, JoinFails, Announce, PeerLeaves, CreateSession, Update
<1> QED
  BY <1>1, <1>2, <1>3, <1>4, <1>5, StepCases, ConnStepsKeep DEF SceneSteps, SessionSteps

LEMMA TypeStep ==
    ASSUME TypeOK, JoinsHaveConnections, Next
    PROVE  TypeOK'
<1>1. (SessionTypes /\ ConnTypes /\ SceneTypes /\ LateTypes)'
  BY SessionTypeStep, ConnTypeStep, SceneTypeStep, LateTypeStep
<1> QED
  BY <1>1 DEF TypeOK, SessionTypes, ConnTypes, SceneTypes, LateTypes
-----------------------------------------------------------------------------
(* The table and the connections.                                          *)
TableInv == WatchersAreInTable /\ ClosingTellsSessions /\ SessionsEndWithTheirConnection

LEMMA TableUnchanged ==
    ASSUME TableInv, UNCHANGED <<sessions, watched, conn, toNotify>>, late \subseteq late'
    PROVE  TableInv'
  BY DEF TableInv, WatchersAreInTable, ClosingTellsSessions, SessionsEndWithTheirConnection, InTable

(* Steps that put sessions or connections, and end none.                   *)
LEMMA TableGrows ==
    ASSUME TypeOK, TableInv, UNCHANGED <<watched, toNotify>>, late \subseteq late',
           \A s \in Sessions : InTable(s) => InTable(s)',
           \A g \in Conns : conn'[g] \in {conn[g], "open"}
    PROVE  TableInv'
<1>1. WatchersAreInTable'
  BY DEF TableInv, WatchersAreInTable
<1>2. ASSUME NEW s \in Sessions, watched[s] # 0
      PROVE  InTable(s) /\ watched[s] \in Conns
  BY <1>2 DEF TableInv, WatchersAreInTable, TypeOK
<1>3. ClosingTellsSessions'
  BY <1>2 DEF TableInv, ClosingTellsSessions
<1>4. SessionsEndWithTheirConnection'
  BY <1>2 DEF TableInv, SessionsEndWithTheirConnection
<1> QED
  BY <1>1, <1>3, <1>4 DEF TableInv

LEMMA TableStep ==
    ASSUME TypeOK, TableInv, Next
    PROVE  TableInv'
<1>1. late \subseteq late'
  BY LateTypeStep
<1>2. ASSUME NEW s \in Sessions, Connected(s)
      PROVE  \A k \in Sessions : InTable(k) => InTable(k)'
  BY <1>2 DEF TypeOK, Connected, InTable
<1>3. ASSUME NEW s \in Sessions, CreateSession(s) \/ Update(s) PROVE TableInv'
  <2>1. \A k \in Sessions : InTable(k) => InTable(k)'
    <3>1. CASE CreateSession(s)
      BY <3>1 DEF TypeOK, CreateSession, InTable
    <3> QED
      BY <1>2, <1>3, <3>1 DEF Update
  <2> QED
    BY <1>1, <1>3, <2>1, TableGrows DEF CreateSession, Update, connVars
<1>4. ASSUME NEW s \in Sessions, ConnectPeer(s) PROVE TableInv'
  <2>1. UNCHANGED <<watched, conn, toNotify>>
    BY <1>4 DEF ConnectPeer
  <2>2. \A k \in Sessions : InTable(k) => InTable(k)'
    BY <1>2, <1>4 DEF ConnectPeer, InTable
  <2> QED
    BY <1>1, <2>1, <2>2, TableGrows
(* A session that subscribes after the event is in late.                   *)
<1>5. ASSUME NEW s \in Sessions, Attach(s) PROVE TableInv'
  <2>1. UNCHANGED <<sessions, connVars>>
    BY <1>5 DEF Attach
  <2>2. CASE ~InTable(s)
    BY <1>1, <1>5, <2>1, <2>2, TableUnchanged DEF Attach, connVars
  <2>3. CASE InTable(s)
    <3>1. /\ watched' = [watched EXCEPT ![s] = via[s]]
          /\ conn[via[s]] # "open" => s \in late'
      BY <1>5, <2>3 DEF Attach
    <3>2. watched'[s] = via[s] /\ \A k \in Sessions \ {s} : watched'[k] = watched[k]
      BY <3>1 DEF TypeOK
    <3>3. WatchersAreInTable'
      BY <2>1, <2>3, <3>2 DEF TableInv, WatchersAreInTable, InTable
    <3>4. ClosingTellsSessions'
      BY <1>1, <2>1, <3>1, <3>2 DEF TableInv, ClosingTellsSessions, connVars
    <3>5. SessionsEndWithTheirConnection'
      BY <1>1, <2>1, <3>1, <3>2 DEF TableInv, SessionsEndWithTheirConnection, InTable, connVars
    <3> QED
      BY <3>3, <3>4, <3>5 DEF TableInv
  <2> QED
    BY <2>2, <2>3
<1>6. ASSUME NEW g \in Conns, NewConnection(g) PROVE TableInv'
  <2>1. UNCHANGED <<sessions, watched, toNotify>> /\ conn' = [conn EXCEPT ![g] = "open"]
    BY <1>6 DEF NewConnection, Register
  <2>2. \A k \in Conns : conn'[k] \in {conn[k], "open"}
    BY <2>1 DEF TypeOK
  <2> QED
    BY <1>1, <2>1, <2>2, TableGrows DEF InTable
<1>7. ASSUME NEW s \in Sessions, NEW g \in Conns, OpenRelay(s, g) PROVE TableInv'
  <2>1. /\ UNCHANGED <<watched, toNotify>> /\ conn' = [conn EXCEPT ![g] = "open"]
        /\ sessions' = [sessions EXCEPT ![s] = "connected"]
    BY <1>7 DEF OpenRelay, Register
  <2>2. \A k \in Conns : conn'[k] \in {conn[k], "open"}
    BY <2>1 DEF TypeOK
  <2>3. \A k \in Sessions : InTable(k) => InTable(k)'
    BY <2>1 DEF TypeOK, InTable
  <2> QED
    BY <1>1, <2>1, <2>2, <2>3, TableGrows
(* All the sessions that watch the connection will be told.                *)
<1>8. CASE BeginClose
  <2>1. /\ current \in Conns /\ conn' = [conn EXCEPT ![current] = "closing"]
        /\ toNotify' = [toNotify EXCEPT ![current] = Watchers(current)]
        /\ UNCHANGED <<sessions, watched>>
    BY <1>8 DEF TypeOK, BeginClose, sessionVars
  <2>2. ASSUME NEW s \in Sessions, watched[s] # 0
        PROVE  /\ InTable(s) /\ watched[s] \in Conns
               /\ watched[s] = current => s \in Watchers(current)
    BY <2>2 DEF TypeOK, TableInv, WatchersAreInTable, Watchers
  <2>3. \A g \in Conns : /\ conn'[g] = IF g = current THEN "closing" ELSE conn[g]
                         /\ toNotify'[g] = IF g = current THEN Watchers(current) ELSE toNotify[g]
    BY <2>1 DEF TypeOK
  <2>4. WatchersAreInTable'
    BY <2>1 DEF TableInv, WatchersAreInTable, InTable
  <2>5. ClosingTellsSessions'
    BY <1>1, <2>1, <2>2, <2>3 DEF TableInv, ClosingTellsSessions
  <2>6. SessionsEndWithTheirConnection'
    BY <1>1, <2>1, <2>2, <2>3 DEF TableInv, SessionsEndWithTheirConnection
  <2> QED
    BY <2>4, <2>5, <2>6 DEF TableInv
(* All have been told when it is closed.                                   *)
<1>9. ASSUME NEW g \in Conns, EndClose(g) PROVE TableInv'
  <2>1. /\ conn[g] = "closing" /\ toNotify[g] = {} /\ conn' = [conn EXCEPT ![g] = "closed"]
        /\ UNCHANGED <<sessions, watched, toNotify>>
    BY <1>9 DEF EndClose, sessionVars
  <2>2. \A k \in Conns : conn'[k] = IF k = g THEN "closed" ELSE conn[k]
    BY <2>1 DEF TypeOK
  <2>3. ASSUME NEW s \in Sessions, watched[s] # 0
        PROVE  /\ InTable(s) /\ watched[s] \in Conns
               /\ watched[s] = g => s \in late
    BY <2>1, <2>3 DEF TypeOK, TableInv, WatchersAreInTable, ClosingTellsSessions
  <2>4. WatchersAreInTable'
    BY <2>1 DEF TableInv, WatchersAreInTable, InTable
  <2>5. ClosingTellsSessions'
    BY <1>1, <2>1, <2>2, <2>3 DEF TableInv, ClosingTellsSessions
  <2>6. SessionsEndWithTheirConnection'
    BY <1>1, <2>1, <2>2, <2>3 DEF TableInv, SessionsEndWithTheirConnection
  <2> QED
    BY <2>4, <2>5, <2>6 DEF TableInv
(* A session ends; so does the connection, which no other session watches. *)
<1>10. ASSUME NEW s \in Sessions, Closes(s) PROVE TableInv'
  <2>1. \A k \in Sessions : \A g \in Conns : k \in toNotify[g] /\ k # s => k \in toNotify'[g]
    BY <1>10 DEF TypeOK, Closes
  <2>2. watched'[s] = 0 /\ \A k \in Sessions \ {s} : watched'[k] = watched[k]
    BY <1>10, CloseSessionCases DEF TypeOK, Closes, TableInv, WatchersAreInTable
  <2>3. \A k \in Sessions \ {s} : InTable(k) => InTable(k)'
    BY <1>10, CloseSessionCases DEF TypeOK, Closes, InTable
  <2>4. \A g \in Conns : \/ conn'[g] = conn[g] \/ conn'[g] = "blocked"
                         \/ conn'[g] = "closed" /\ Watchers(g) \subseteq {s}
    <3>1. \/ conn' = conn \/ conn' = [conn EXCEPT ![current] = "blocked"]
          \/ conn' = [conn EXCEPT ![current] = "closed"] /\ Watchers(current) \subseteq {s}
      BY <1>10, CloseSessionCases DEF Closes
    <3>2. ASSUME NEW to, conn' = [conn EXCEPT ![current] = to]
          PROVE  \A g \in Conns : conn'[g] = IF g = current THEN to ELSE conn[g]
      BY <3>2 DEF TypeOK
    <3> QED
      BY <3>1, <3>2
  <2>5. ASSUME NEW k \in Sessions, watched'[k] # 0
        PROVE  /\ k # s /\ watched'[k] = watched[k] /\ InTable(k) /\ watched[k] \in Conns
               /\ conn'[watched[k]] \in {conn[watched[k]], "blocked"}
    <3>1. k # s /\ watched'[k] = watched[k]
      BY <2>2, <2>5
    <3>2. InTable(k) /\ watched[k] \in Conns
      BY <2>5, <3>1 DEF TypeOK, TableInv, WatchersAreInTable
    <3>3. k \in Watchers(watched[k])
      BY <3>2 DEF Watchers
    <3> QED
      BY <2>4, <3>1, <3>2, <3>3
  <2>6. WatchersAreInTable'
    BY <2>3, <2>5 DEF WatchersAreInTable
  <2>7. ClosingTellsSessions'
    BY <1>1, <2>1, <2>5 DEF TableInv, ClosingTellsSessions
  <2>8. SessionsEndWithTheirConnection'
    BY <1>1, <2>5 DEF TableInv, SessionsEndWithTheirConnection
  <2> QED
    BY <2>6, <2>7, <2>8 DEF TableInv
<1>11. CASE RunPosted
  BY <1>1, <1>11, TableUnchanged DEF RunPosted, connVars
<1>12. CASE SceneSteps
  BY <1>1, <1>12, SceneStepsKeep, TableUnchanged DEF connVars, sessionVars
<1> QED
  BY <1>3, <1>4, <1>5, <1>6, <1>7, <1>8, <1>9, <1>10, <1>11, <1>12, StepCases DEF SessionSteps

LEMMA DirectStep ==
    ASSUME TypeOK, DirectIsCurrent, Next
    PROVE  DirectIsCurrent'
<1>1. ASSUME UNCHANGED <<conn, relay, current>> PROVE DirectIsCurrent'
  BY <1>1 DEF DirectIsCurrent
<1>2. ASSUME NEW g \in Conns, NEW b \in BOOLEAN, Register(g, b), b \/ current = 0
      PROVE  DirectIsCurrent'
  <2>1. \A k \in Conns : conn'[k] = IF k = g THEN "open" ELSE conn[k]
    BY <1>2 DEF TypeOK, Register
  <2>2. current' = IF current = 0 THEN g ELSE current
    BY <1>2 DEF Register
  <2>3. relay \subseteq relay' /\ (b => g \in relay')
    BY <1>2 DEF Register
  <2>4. 0 \notin Conns
    BY DEF Conns
  <2>5. ASSUME NEW k \in Conns, conn'[k] = "open", k \notin relay'
        PROVE  current' = k
    <3>1. k = g => current = 0
      BY <1>2, <2>3, <2>5
    <3>2. k # g => current = k
      BY <2>1, <2>3, <2>5 DEF DirectIsCurrent
    <3> QED
      BY <2>2, <2>4, <3>1, <3>2
  <2> QED
    BY <2>5 DEF DirectIsCurrent
<1>3. ASSUME current \in Conns, current' = 0, relay' = relay,
             NEW to \in {"closing", "closed", "blocked"}, conn' = [conn EXCEPT ![current] = to]
      PROVE  DirectIsCurrent'
  <2>1. \A k \in Conns : conn'[k] = IF k = current THEN to ELSE conn[k]
    BY <1>3 DEF TypeOK
  <2> QED
    BY <1>3, <2>1 DEF DirectIsCurrent
<1>4. ASSUME NEW s \in Sessions, Closes(s) PROVE DirectIsCurrent'
  BY <1>1, <1>3, <1>4, CloseSessionCases DEF TypeOK, Closes
<1>5. CASE BeginClose
  BY <1>3, <1>5 DEF TypeOK, BeginClose
<1>6. ASSUME NEW g \in Conns, EndClose(g) PROVE DirectIsCurrent'
  <2>1. \A k \in Conns : conn'[k] = IF k = g THEN "closed" ELSE conn[k]
    BY <1>6 DEF TypeOK, EndClose
  <2> QED
    BY <1>6, <2>1 DEF DirectIsCurrent, EndClose
<1>7. ASSUME NEW g \in Conns, NewConnection(g) PROVE DirectIsCurrent'
  BY <1>2, <1>7 DEF NewConnection
<1>8. ASSUME NEW s \in Sessions, NEW g \in Conns, OpenRelay(s, g) PROVE DirectIsCurrent'
  BY <1>2, <1>8 DEF OpenRelay
<1>9. ASSUME NEW s \in Sessions, ConnectPeer(s) PROVE DirectIsCurrent'
  BY <1>1, <1>9 DEF ConnectPeer
<1>10. CASE SceneSteps \/ SessionSteps \/ RunPosted
  BY <1>1, <1>10, SceneStepsKeep, SessionStepsKeep, ConnStepsKeep DEF connVars
<1> QED
  BY <1>4, <1>5, <1>6, <1>7, <1>8, <1>9, <1>10, StepCases
-----------------------------------------------------------------------------
(* The order of the events in a queue q, when p is the entry of the peer.  *)
Event == [do : {"connected", "disconnected"}, of : Entries]

Behind(q, i, do) == \E j \in i + 1 .. Len(q) : q[j] = [do |-> do, of |-> q[i].of]

InOrder(q, p) ==
    \A i \in 1 .. Len(q) :
        IF q[i].do = "disconnected" THEN ~Behind(q, i, "connected") /\ q[i].of # p
        ELSE q[i].of = p \/ Behind(q, i, "disconnected")

LEMMA EventsAreInOrder ==
    /\ PeerEventsInOrder <=> InOrder(posted, peer)
    /\ PeerEventsInOrder' <=> InOrder(posted', peer')
  BY DEF PeerEventsInOrder, InOrder, Behind

LEMMA AppendFacts ==
    ASSUME NEW q \in Seq(Event), NEW e \in Event, NEW r, r = Append(q, e)
    PROVE  /\ r \in Seq(Event) /\ Len(r) = Len(q) + 1 /\ Len(q) \in Nat
           /\ \A i \in 1 .. Len(q) : r[i] = q[i] /\ q[i] \in Event
           /\ r[Len(q) + 1] = e
<1> HIDE DEF Event
<1> QED
  OBVIOUS

LEMMA AppendDisconnected ==
    ASSUME NEW q \in Seq(Event), NEW p \in Entries, InOrder(q, p)
    PROVE  InOrder(Append(q, [do |-> "disconnected", of |-> p]), 0)
<1> DEFINE e == [do |-> "disconnected", of |-> p]
           r == Append(q, e)
<1>1. e \in Event /\ e.do = "disconnected" /\ e.of = p
  BY DEF Event
<1> HIDE DEF e
<1>2. /\ Len(r) = Len(q) + 1 /\ Len(q) \in Nat
      /\ \A i \in 1 .. Len(q) : r[i] = q[i] /\ q[i] \in Event
      /\ r[Len(q) + 1] = e
  BY <1>1, AppendFacts
<1> HIDE DEF r
<1>3. ASSUME NEW i \in 1 .. Len(r), r[i].do = "disconnected"
      PROVE  ~Behind(r, i, "connected") /\ r[i].of # 0
  <2>1. r[i].of \in Entries
    BY <1>1, <1>2 DEF Event
  <2>2. ASSUME NEW j \in i + 1 .. Len(r), r[j] = [do |-> "connected", of |-> r[i].of]
        PROVE  FALSE
    <3>1. r[j].do = "connected"
      BY <2>2
    <3>2. i \in 1 .. Len(q) /\ j \in i + 1 .. Len(q)
      BY <1>1, <1>2, <3>1
    <3>3. q[i].do = "disconnected" /\ q[j] = [do |-> "connected", of |-> q[i].of]
      BY <1>2, <1>3, <2>2, <3>2
    <3>4. ~Behind(q, i, "connected")
      BY <3>2, <3>3 DEF InOrder
    <3> QED
      BY <3>2, <3>3, <3>4 DEF Behind
  <2> QED
    BY <2>1, <2>2 DEF Behind, Entries
<1>4. ASSUME NEW i \in 1 .. Len(r), r[i].do # "disconnected"
      PROVE  Behind(r, i, "disconnected")
  <2>1. i \in 1 .. Len(q) /\ r[i] = q[i]
    BY <1>1, <1>2, <1>4
  <2>2. q[i].of = p \/ Behind(q, i, "disconnected")
    BY <1>4, <2>1 DEF InOrder
  <2>3. CASE q[i].of = p
    <3>1. Len(q) + 1 \in i + 1 .. Len(r) /\ r[Len(q) + 1] = [do |-> "disconnected", of |-> r[i].of]
      BY <1>2, <2>1, <2>3 DEF e
    <3> QED
      BY <3>1 DEF Behind
  <2>4. CASE Behind(q, i, "disconnected")
    <3>1. PICK j \in i + 1 .. Len(q) : q[j] = [do |-> "disconnected", of |-> q[i].of]
      BY <2>4 DEF Behind
    <3>2. j \in i + 1 .. Len(r) /\ r[j] = [do |-> "disconnected", of |-> r[i].of]
      BY <1>2, <2>1, <3>1
    <3> QED
      BY <3>2 DEF Behind
  <2> QED
    BY <2>2, <2>3, <2>4
<1>5. InOrder(r, 0)
  BY <1>3, <1>4 DEF InOrder
<1> QED
  BY <1>5 DEF r, e

LEMMA AppendConnected ==
    ASSUME NEW q \in Seq(Event), NEW p \in Entries, InOrder(q, p)
    PROVE  InOrder(Append(q, [do |-> "connected", of |-> p]), p)
<1> DEFINE e == [do |-> "connected", of |-> p]
           r == Append(q, e)
<1>1. e \in Event /\ e.do = "connected" /\ e.of = p
  BY DEF Event
<1> HIDE DEF e
<1>2. /\ Len(r) = Len(q) + 1 /\ Len(q) \in Nat
      /\ \A i \in 1 .. Len(q) : r[i] = q[i] /\ q[i] \in Event
      /\ r[Len(q) + 1] = e
  BY <1>1, AppendFacts
<1> HIDE DEF r
<1>3. ASSUME NEW i \in 1 .. Len(r), r[i].do = "disconnected"
      PROVE  ~Behind(r, i, "connected") /\ r[i].of # p
  <2>1. i \in 1 .. Len(q) /\ r[i] = q[i]
    BY <1>1, <1>2, <1>3
  <2>2. ~Behind(q, i, "connected") /\ q[i].of # p
    BY <1>3, <2>1 DEF InOrder
  <2>3. ASSUME NEW j \in i + 1 .. Len(r), r[j] = [do |-> "connected", of |-> r[i].of]
        PROVE  FALSE
    <3>1. r[j].of = q[i].of
      BY <2>1, <2>3
    <3>2. j \in i + 1 .. Len(q)
      BY <1>1, <1>2, <2>1, <2>2, <3>1
    <3>3. q[j] = [do |-> "connected", of |-> q[i].of]
      BY <1>2, <2>1, <2>3, <3>2
    <3> QED
      BY <2>2, <3>2, <3>3 DEF Behind
  <2> QED
    BY <2>1, <2>2, <2>3 DEF Behind
<1>4. ASSUME NEW i \in 1 .. Len(r), r[i].do # "disconnected"
      PROVE  r[i].of = p \/ Behind(r, i, "disconnected")
  <2>1. CASE i = Len(q) + 1
    BY <1>1, <1>2, <2>1
  <2>2. CASE i \in 1 .. Len(q) /\ Behind(q, i, "disconnected")
    <3>1. PICK j \in i + 1 .. Len(q) : q[j] = [do |-> "disconnected", of |-> q[i].of]
      BY <2>2 DEF Behind
    <3>2. j \in i + 1 .. Len(r) /\ r[j] = [do |-> "disconnected", of |-> r[i].of]
      BY <1>2, <2>2, <3>1
    <3> QED
      BY <3>2 DEF Behind
  <2>3. CASE i \in 1 .. Len(q) /\ q[i].of = p
    BY <1>2, <2>3
  <2> QED
    BY <1>2, <1>4, <2>1, <2>2, <2>3 DEF InOrder
<1>5. InOrder(r, p)
  BY <1>3, <1>4 DEF InOrder
<1> QED
  BY <1>5 DEF r, e

LEMMA TailFacts ==
    ASSUME NEW q \in Seq(Event), q # << >>, NEW r, r = Tail(q)
    PROVE  /\ Len(q) \in Nat /\ Len(r) = Len(q) - 1
           /\ \A i \in 1 .. Len(r) : r[i] = q[i + 1]
<1> HIDE DEF Event
<1> QED
  OBVIOUS

LEMMA TailInOrder ==
    ASSUME NEW q \in Seq(Event), NEW p, q # << >>, InOrder(q, p)
    PROVE  InOrder(Tail(q), p)
<1> DEFINE r == Tail(q)
<1>1. /\ Len(q) \in Nat /\ Len(r) = Len(q) - 1
      /\ \A i \in 1 .. Len(r) : r[i] = q[i + 1]
  BY TailFacts
<1> HIDE DEF r
<1>2. ASSUME NEW i \in 1 .. Len(r), NEW do
      PROVE  Behind(r, i, do) <=> Behind(q, i + 1, do)
  <2>1. ASSUME NEW j \in i + 1 .. Len(r), r[j] = [do |-> do, of |-> r[i].of]
        PROVE  Behind(q, i + 1, do)
    <3>1. j + 1 \in (i + 1) + 1 .. Len(q) /\ q[j + 1] = [do |-> do, of |-> q[i + 1].of]
      BY <1>1, <2>1
    <3> QED
      BY <3>1 DEF Behind
  <2>2. ASSUME NEW j \in (i + 1) + 1 .. Len(q), q[j] = [do |-> do, of |-> q[i + 1].of]
        PROVE  Behind(r, i, do)
    <3>1. j - 1 \in i + 1 .. Len(r) /\ r[j - 1] = [do |-> do, of |-> r[i].of]
      BY <1>1, <2>2
    <3> QED
      BY <3>1 DEF Behind
  <2> QED
    BY <2>1, <2>2 DEF Behind
<1>3. ASSUME NEW i \in 1 .. Len(r)
      PROVE  i + 1 \in 1 .. Len(q) /\ r[i] = q[i + 1]
  BY <1>1
<1>4. InOrder(r, p)
  BY <1>2, <1>3 DEF InOrder
<1> QED
  BY <1>4 DEF r

(* A new entry: nothing was told of it. *)
LEMMA NewPeerInOrder ==
    ASSUME NEW q \in Seq(Event), NEW p, InOrder(q, 0), \A k \in 1 .. Len(q) : q[k].of # p
    PROVE  InOrder(q, p)
<1>1. \A k \in 1 .. Len(q) : q[k].of # 0
  <2>1. \A k \in 1 .. Len(q) : q[k] \in Event
    OBVIOUS
  <2> QED
    BY <2>1 DEF Event, Entries
<1> QED
  BY <1>1 DEF InOrder
-----------------------------------------------------------------------------
(* The scene. *)
LEMMA JoinStep ==
    ASSUME TypeOK, JoinsHaveConnections, Next
    PROVE  JoinsHaveConnections'
<1>1. ASSUME UNCHANGED <<join, over>> PROVE JoinsHaveConnections'
  BY <1>1 DEF JoinsHaveConnections
<1>2. ASSUME NEW i \in Sides, StartJoin(i) PROVE JoinsHaveConnections'
  BY <1>2 DEF TypeOK, JoinsHaveConnections, StartJoin
<1>3. ASSUME NEW i \in Sides, JoinFails(i) \/ AddPeer(i) \/ Announce(i) PROVE JoinsHaveConnections'
  <2>1. over' = over /\ join[i] # "no" /\ \A k \in Sides \ {i} : join'[k] = join[k]
    BY <1>3 DEF TypeOK, JoinFails, AddPeer, Announce
  <2> QED
    BY <2>1 DEF JoinsHaveConnections
<1>4. CASE PeerLeaves \/ RunPosted
  BY <1>1, <1>4 DEF PeerLeaves, RunPosted
<1>5. ASSUME NEW g \in Conns, TellPeers(g) PROVE JoinsHaveConnections'
  BY <1>1, <1>5 DEF TellPeers
<1>6. ASSUME NEW s \in Sessions, Closes(s) PROVE JoinsHaveConnections'
  <2>1. UNCHANGED sceneVars \/ (current \in Conns /\ TellPeers(current))
    BY <1>6, CloseSessionCases DEF TypeOK, Closes
  <2> QED
    BY <1>1, <1>5, <2>1 DEF sceneVars
<1>7. ASSUME NEW g \in Conns, EndClose(g) PROVE JoinsHaveConnections'
  BY <1>5, <1>7 DEF EndClose
<1>8. ASSUME UNCHANGED sceneVars PROVE JoinsHaveConnections'
  BY <1>1, <1>8 DEF sceneVars
<1> QED
  BY <1>2, <1>3, <1>4, <1>6, <1>7, <1>8, StepCases, SessionStepsKeep, ConnStepsKeep DEF SceneSteps

(* What becomes of the events when the peer of the table is told, or not.  *)
EventInv == PostedEntriesExist /\ PeerEventsInOrder

LEMMA EventUnchanged ==
    ASSUME EventInv, UNCHANGED <<posted, made, peer>>
    PROVE  EventInv'
<1>1. PostedEntriesExist'
  BY DEF EventInv, PostedEntriesExist
<1>2. PeerEventsInOrder'
  BY EventsAreInOrder DEF EventInv
<1> QED
  BY <1>1, <1>2 DEF EventInv

LEMMA EventAppended ==
    ASSUME TypeOK, EventInv, peer # 0, made' = made,
           \/ /\ posted' = Append(posted, [do |-> "disconnected", of |-> peer])
              /\ peer' = 0
           \/ /\ posted' = Append(posted, [do |-> "connected", of |-> peer])
              /\ peer' = peer
    PROVE  EventInv'
<1>1. posted \in Seq(Event) /\ peer \in Entries /\ peer <= Len(made)
  BY PeerIsEntry DEF TypeOK, Event
<1>2. InOrder(posted', peer')
  BY <1>1, EventsAreInOrder, AppendDisconnected, AppendConnected DEF EventInv
<1>3. ASSUME NEW e \in Event, e.of = peer, posted' = Append(posted, e) PROVE PostedEntriesExist'
  <2>1. /\ Len(posted') = Len(posted) + 1 /\ Len(posted) \in Nat
        /\ \A i \in 1 .. Len(posted) : posted'[i] = posted[i]
        /\ posted'[Len(posted) + 1] = e
    BY <1>1, <1>3, AppendFacts
  <2> QED
    BY <1>1, <1>3, <2>1 DEF EventInv, PostedEntriesExist
<1>4. PostedEntriesExist'
  <2>1. \A do \in {"connected", "disconnected"} :
          [do |-> do, of |-> peer] \in Event /\ [do |-> do, of |-> peer].of = peer
    BY <1>1 DEF Event
  <2> QED
    BY <1>3, <2>1
<1> QED
  BY <1>2, <1>4, EventsAreInOrder DEF EventInv

LEMMA EventStep ==
    ASSUME TypeOK, JoinsHaveConnections, EventInv, Next
    PROVE  EventInv'
<1>1. ASSUME NEW g \in Conns, TellPeers(g) PROVE EventInv'
  <2>1. \/ UNCHANGED <<posted, made, peer>>
        \/ /\ peer # 0 /\ peer' = 0 /\ made' = made
           /\ posted' = Append(posted, [do |-> "disconnected", of |-> peer])
    BY <1>1, TellPeersTypes DEF TypeOK, TellPeers, RaisePeerDisconnected
  <2> QED
    BY <2>1, EventUnchanged, EventAppended
<1>2. CASE PeerLeaves
  BY <1>2, EventAppended DEF PeerLeaves, RaisePeerDisconnected
<1>3. ASSUME NEW i \in Sides, StartJoin(i) \/ JoinFails(i) PROVE EventInv'
  BY <1>3, EventUnchanged DEF StartJoin, JoinFails
<1>4. ASSUME NEW i \in Sides, Announce(i) PROVE EventInv'
  BY <1>4, EventUnchanged, EventAppended DEF Announce
<1>5. ASSUME NEW i \in Sides, AddPeer(i) PROVE EventInv'
  <2>1. CASE peer # 0
    BY <1>5, <2>1, EventUnchanged DEF AddPeer
  <2>2. CASE peer = 0
    <3>1. over[i] \in Conns
      BY <1>5 DEF TypeOK, JoinsHaveConnections, AddPeer
    <3>2. /\ posted' = posted /\ peer' = Len(made') /\ Len(made') = Len(made) + 1
          /\ Len(made) \in Nat
      BY <1>5, <2>2, <3>1 DEF TypeOK, AddPeer
    <3>3. posted \in Seq(Event) /\ \A k \in 1 .. Len(posted) : posted[k].of \in Entries
      <4>1. posted \in Seq(Event)
        BY DEF TypeOK, Event
      <4>2. \A k \in 1 .. Len(posted) : posted[k] \in Event
        BY <4>1
      <4> QED
        BY <4>1, <4>2 DEF Event
    <3>4. \A k \in 1 .. Len(posted) : posted[k].of <= Len(made) /\ posted[k].of \in Int
      BY <3>3 DEF EventInv, PostedEntriesExist, Entries
    <3>5. InOrder(posted, peer')
      BY <2>2, <3>2, <3>3, <3>4, EventsAreInOrder, NewPeerInOrder DEF EventInv
    <3>6. PostedEntriesExist'
      BY <3>2, <3>4 DEF PostedEntriesExist
    <3> QED
      BY <3>2, <3>5, <3>6, EventsAreInOrder DEF EventInv
  <2> QED
    BY <2>1, <2>2
<1>6. CASE RunPosted
  <2>1. posted \in Seq(Event)
    BY DEF TypeOK, Event
  <2>2. posted # << >> /\ posted' = Tail(posted) /\ UNCHANGED <<peer, made>>
    BY <1>6 DEF RunPosted
  <2>3. PeerEventsInOrder'
    BY <2>1, <2>2, TailInOrder, EventsAreInOrder DEF EventInv
  <2>4. PostedEntriesExist'
    <3>1. /\ Len(posted) \in Nat /\ Len(posted') = Len(posted) - 1
          /\ \A i \in 1 .. Len(posted') : posted'[i] = posted[i + 1]
      BY <2>1, <2>2, TailFacts
    <3> QED
      BY <2>2, <3>1 DEF EventInv, PostedEntriesExist
  <2> QED
    BY <2>3, <2>4 DEF EventInv
<1>7. ASSUME NEW s \in Sessions, Closes(s) PROVE EventInv'
  <2>1. UNCHANGED sceneVars \/ (current \in Conns /\ TellPeers(current))
    BY <1>7, CloseSessionCases DEF TypeOK, Closes
  <2> QED
    BY <1>1, <2>1, EventUnchanged DEF sceneVars
<1>8. ASSUME NEW g \in Conns, EndClose(g) PROVE EventInv'
  BY <1>1, <1>8 DEF EndClose
<1>9. ASSUME UNCHANGED sceneVars PROVE EventInv'
  BY <1>9, EventUnchanged DEF sceneVars
<1> QED
  BY <1>2, <1>3, <1>4, <1>5, <1>6, <1>7, <1>8, <1>9, StepCases, SessionStepsKeep, ConnStepsKeep
     DEF SceneSteps

(* The peer of a connection that is closed is told of it.                  *)
LEMMA PeerUnchanged ==
    ASSUME TypeOK, PeersEndWithTheirConnection, made' = made, peer' \in {peer, 0}, late \subseteq late',
           peer' # 0 => conn'[made[peer]] \in {conn[made[peer]], "open", "closing", "blocked"}
    PROVE  PeersEndWithTheirConnection'
<1>1. CASE peer' = 0
  BY <1>1 DEF PeersEndWithTheirConnection
<1>2. CASE peer' = peer /\ peer # 0
  BY <1>2 DEF PeersEndWithTheirConnection
<1> QED
  BY <1>1, <1>2

LEMMA PeerConnection ==
    ASSUME TypeOK, peer # 0
    PROVE  made[peer] \in Conns
  BY DEF TypeOK

LEMMA PeerStep ==
    ASSUME TypeOK, JoinsHaveConnections, PeersEndWithTheirConnection, Next
    PROVE  PeersEndWithTheirConnection'
<1>1. late \subseteq late'
  BY LateTypeStep
<1>2. ASSUME UNCHANGED <<made, conn>>, peer' \in {peer, 0} PROVE PeersEndWithTheirConnection'
  BY <1>1, <1>2, PeerUnchanged
<1>3. ASSUME UNCHANGED sceneVars, NEW g \in Conns, NEW to \in {"open", "closing", "blocked"},
             conn' = [conn EXCEPT ![g] = to]
      PROVE  PeersEndWithTheirConnection'
  <2>1. \A k \in Conns : conn'[k] \in {conn[k], "open", "closing", "blocked"}
    BY <1>3 DEF TypeOK
  <2> QED
    BY <1>1, <1>3, <2>1, PeerUnchanged, PeerConnection DEF sceneVars
<1>4. ASSUME NEW g \in Conns, TellPeers(g), conn' = [conn EXCEPT ![g] = "closed"]
      PROVE  PeersEndWithTheirConnection'
  <2>1. \A k \in Conns \ {g} : conn'[k] = conn[k]
    BY <1>4 DEF TypeOK
  <2>2. made' = made /\ (peer' = 0 \/ (peer' = peer /\ (peer # 0 => made[peer] # g)))
    BY <1>4, TellPeersTypes
  <2> QED
    BY <1>1, <2>1, <2>2, PeerUnchanged, PeerConnection
<1>5. ASSUME NEW s \in Sessions, Closes(s) PROVE PeersEndWithTheirConnection'
  <2>1. \/ UNCHANGED <<conn, sceneVars>>
        \/ /\ current \in Conns /\ conn' = [conn EXCEPT ![current] = "blocked"]
           /\ UNCHANGED sceneVars
        \/ /\ current \in Conns /\ conn' = [conn EXCEPT ![current] = "closed"]
           /\ TellPeers(current)
    BY <1>5, CloseSessionCases DEF TypeOK, Closes
  <2> QED
    BY <1>2, <1>3, <1>4, <2>1 DEF sceneVars
<1>6. ASSUME NEW g \in Conns, EndClose(g) PROVE PeersEndWithTheirConnection'
  BY <1>4, <1>6 DEF EndClose
<1>7. CASE BeginClose
  BY <1>3, <1>7 DEF TypeOK, BeginClose
<1>8. ASSUME NEW g \in Conns, NewConnection(g) PROVE PeersEndWithTheirConnection'
  BY <1>3, <1>8 DEF NewConnection, Register
<1>9. ASSUME NEW s \in Sessions, NEW g \in Conns, OpenRelay(s, g)
      PROVE  PeersEndWithTheirConnection'
  BY <1>3, <1>9 DEF OpenRelay, Register
<1>10. ASSUME NEW s \in Sessions, ConnectPeer(s) PROVE PeersEndWithTheirConnection'
  BY <1>2, <1>10 DEF ConnectPeer, sceneVars
<1>11. CASE SessionSteps
  BY <1>2, <1>11, SessionStepsKeep DEF connVars, sceneVars
<1>12. CASE RunPosted
  BY <1>2, <1>12 DEF RunPosted, connVars
<1>13. CASE PeerLeaves
  BY <1>2, <1>13 DEF PeerLeaves, RaisePeerDisconnected, connVars
<1>14. ASSUME NEW i \in Sides, StartJoin(i) \/ JoinFails(i) \/ Announce(i)
       PROVE  PeersEndWithTheirConnection'
  BY <1>2, <1>14 DEF StartJoin, JoinFails, Announce, connVars
<1>15. ASSUME NEW i \in Sides, AddPeer(i) PROVE PeersEndWithTheirConnection'
  <2>1. CASE peer # 0
    BY <1>2, <1>15, <2>1 DEF AddPeer, connVars
  <2>2. CASE peer = 0
    <3>1. over[i] \in Conns
      BY <1>15 DEF TypeOK, JoinsHaveConnections, AddPeer
    <3>2. made' = Append(made, over[i]) /\ peer' = Len(made') /\ conn' = conn
      BY <1>15, <2>2 DEF AddPeer, connVars
    <3>3. made'[peer'] = over[i]
      BY <3>1, <3>2 DEF TypeOK
    <3>4. conn[over[i]] = "closed" => peer' \in late'
      BY <1>15, <2>2 DEF AddPeer
    <3> QED
      BY <3>2, <3>3, <3>4 DEF PeersEndWithTheirConnection
  <2> QED
    BY <2>1, <2>2
<1> QED
  BY <1>5, <1>6, <1>7, <1>8, <1>9, <1>10, <1>11, <1>12, <1>13, <1>14, <1>15, StepCases
     DEF SceneSteps
-----------------------------------------------------------------------------
(* Every step keeps the invariant. *)
LEMMA IInvStep == IInv /\ [Next]_vars => IInv'
<1> SUFFICES ASSUME IInv, [Next]_vars PROVE IInv'
  OBVIOUS
<1>1. CASE Next
  <2>1. TypeOK'
    BY <1>1, TypeStep DEF IInv
  <2>2. TableInv'
    BY <1>1, TableStep DEF IInv, TableInv
  <2>3. DirectIsCurrent'
    BY <1>1, DirectStep DEF IInv
  <2>4. JoinsHaveConnections'
    BY <1>1, JoinStep DEF IInv
  <2>5. PeersEndWithTheirConnection'
    BY <1>1, PeerStep DEF IInv
  <2>6. EventInv'
    BY <1>1, EventStep DEF IInv, EventInv
  <2> QED
    BY <2>1, <2>2, <2>3, <2>4, <2>5, <2>6 DEF IInv, TableInv, EventInv
<1>2. CASE UNCHANGED vars
  <2>1. UNCHANGED <<sessionVars, connVars, sceneVars, late>>
    BY <1>2 DEF vars
  <2>2. TypeOK'
    <3>1. SessionTypes'
      BY <2>1 DEF IInv, TypeOK, SessionTypes, sessionVars
    <3>2. ConnTypes'
      BY <2>1 DEF IInv, TypeOK, ConnTypes, connVars
    <3>3. SceneTypes'
      BY <2>1 DEF IInv, TypeOK, SceneTypes, sceneVars
    <3>4. LateTypes'
      BY <2>1 DEF IInv, TypeOK, LateTypes
    <3> QED
      BY <3>1, <3>2, <3>3, <3>4 DEF TypeOK, SessionTypes, ConnTypes, SceneTypes, LateTypes
  <2>3. TableInv'
    BY <2>1, TableUnchanged DEF IInv, TableInv, sessionVars, connVars
  <2>4. DirectIsCurrent' /\ JoinsHaveConnections' /\ PeersEndWithTheirConnection'
    BY <2>1 DEF IInv, DirectIsCurrent, JoinsHaveConnections, PeersEndWithTheirConnection,
                connVars, sceneVars
  <2>5. EventInv'
    BY <2>1, EventUnchanged DEF IInv, EventInv, sceneVars
  <2> QED
    BY <2>2, <2>3, <2>4, <2>5 DEF IInv, TableInv, EventInv
<1> QED
  BY <1>1, <1>2

LEMMA IInvInit == Init => IInv
<1> SUFFICES ASSUME Init PROVE IInv
  OBVIOUS
<1>1. TypeOK
  <2>1. SessionTypes
    BY DEF Init, SessionTypes
  <2>2. ConnTypes
    BY DEF Init, ConnTypes
  <2>3. SceneTypes
    <3>1. peer \in 0 .. Len(made) /\ made \in Seq(Conns) /\ Len(made) <= MaxPeers
      BY SessionsAssumption DEF Init
    <3>2. posted \in Seq([do : {"connected", "disconnected"}, of : Entries])
      BY DEF Init
    <3>3. joins \in [Sides -> 0 .. MaxJoins]
      BY SessionsAssumption DEF Init
    <3> QED
      BY <3>1, <3>2, <3>3 DEF Init, SceneTypes
  <2>4. LateTypes
    BY DEF Init, LateTypes
  <2> QED
    BY <2>1, <2>2, <2>3, <2>4, TypeParts
<1>2. WatchersAreInTable /\ ClosingTellsSessions /\ SessionsEndWithTheirConnection
  BY DEF Init, WatchersAreInTable, ClosingTellsSessions, SessionsEndWithTheirConnection
<1>3. DirectIsCurrent /\ JoinsHaveConnections /\ PeersEndWithTheirConnection
  BY DEF Init, DirectIsCurrent, JoinsHaveConnections, PeersEndWithTheirConnection
<1>4. posted = << >> /\ Len(posted) = 0
  BY DEF Init
<1>5. PostedEntriesExist /\ PeerEventsInOrder
  BY <1>4 DEF PostedEntriesExist, PeerEventsInOrder
<1> QED
  BY <1>1, <1>2, <1>3, <1>5 DEF IInv

LEMMA Inductive == Spec => []IInv
  BY IInvInit, IInvStep, PTL DEF Spec

(* Every variable keeps its type. *)
THEOREM SessionsTypes == Spec => []TypeOK
  BY Inductive, PTL DEF IInv

(* A session that watches a connection ends with it, and the entry of the  *)
(* peer in the scene too, unless they came after its end.                  *)
THEOREM SessionsEnd == Spec => []SessionsEndWithTheirConnection
  BY Inductive, PTL DEF IInv

(* The entry of the peer in the scene ends with the connection of the      *)
(* peer, unless it was made after that.                                    *)
THEOREM PeersEnd == Spec => []PeersEndWithTheirConnection
  BY Inductive, PTL DEF IInv

(* onPeerDisconnected is the last event raised for an entry, and a handler *)
(* of onPeerConnected is run for an entry that is there, or was until then. *)
THEOREM EventsInOrder == Spec => []PeerEventsInOrder
  BY Inductive, PTL DEF IInv

(* closeSession, the only step that ends a session, closes the connection  *)
(* with the peer, which is the one the session watches if that is open and *)
(* not a relay.                                                            *)
THEOREM EndOfSessionCloses == Spec => ConnectionsEndWithTheirSession
<1>1. IInv /\ [Next]_vars => [SessionEndCloses]_vars
  <2> SUFFICES ASSUME IInv, Next, NEW s \in Sessions, InTable(s), watched[s] # 0, ~InTable(s)'
               PROVE  conn'[watched[s]] # "open" \/ watched[s] \in relay
    BY DEF SessionEndCloses
  <2>1. ASSUME NEW k \in Sessions, Connected(k) PROVE FALSE
    BY <2>1 DEF IInv, TypeOK, Connected, InTable
  <2>2. ASSUME sessions' = sessions PROVE FALSE
    BY <2>2 DEF InTable
  <2>3. ASSUME NEW k \in Sessions, CreateSession(k) PROVE FALSE
    BY <2>3 DEF IInv, TypeOK, CreateSession, InTable
  <2>4. ASSUME NEW k \in Sessions, Update(k) \/ Attach(k) PROVE FALSE
    BY <2>1, <2>2, <2>4 DEF Update, Attach
  <2>5. ASSUME NEW k \in Sessions, ConnectPeer(k) PROVE FALSE
    BY <2>1, <2>2, <2>5 DEF ConnectPeer
  <2>6. ASSUME NEW k \in Sessions, NEW g \in Conns, OpenRelay(k, g) PROVE FALSE
    BY <2>6 DEF IInv, TypeOK, OpenRelay, InTable
  <2>7. CASE SceneSteps
    BY <2>2, <2>7, SceneStepsKeep DEF sessionVars
  <2>8. CASE BeginClose \/ RunPosted \/ \E g \in Conns : NewConnection(g) \/ EndClose(g)
    BY <2>2, <2>8 DEF BeginClose, RunPosted, NewConnection, EndClose, sessionVars
  <2>9. ASSUME NEW k \in Sessions, Closes(k)
        PROVE  conn'[watched[s]] # "open" \/ watched[s] \in relay
    <3>1. k = s
      BY <2>2, <2>9, CloseSessionCases DEF IInv, TypeOK, Closes, InTable
    <3>2. watched[s] \in Conns
      BY DEF IInv, TypeOK
    <3>3. CASE conn[watched[s]] = "open" /\ watched[s] \notin relay
      <4>1. current = watched[s] /\ current # 0 /\ current \notin relay
        BY <3>2, <3>3 DEF IInv, DirectIsCurrent
      <4>2. \E to \in {"closed", "blocked"} : conn' = [conn EXCEPT ![current] = to]
        BY <2>9, <3>1, <4>1, CloseSessionCases DEF IInv, Closes
      <4> QED
        BY <3>2, <4>1, <4>2 DEF IInv, TypeOK
    <3>4. CASE conn[watched[s]] # "open"
      <4>1. \/ conn' = conn
            \/ \E to \in {"closed", "blocked"} : conn' = [conn EXCEPT ![current] = to]
        BY <2>9, CloseSessionCases DEF IInv, Closes
      <4> QED
        BY <3>2, <3>4, <4>1 DEF IInv, TypeOK
    <3> QED
      BY <3>3, <3>4
  <2> QED
    BY <2>3, <2>4, <2>5, <2>6, <2>7, <2>8, <2>9, StepCases DEF SessionSteps
<1> QED
  BY <1>1, Inductive, PTL DEF Spec, ConnectionsEndWithTheirSession
=============================================================================

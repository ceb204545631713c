------------------------ MODULE SceneLifecycle_proofs ------------------------
(***************************************************************************)
(* Proofs about SceneLifecycle, for any number of scenes of the uri and of *)
(* handles.  Each group of variables has its invariant, each invariant a   *)
(* lemma for the steps that hardly touch it and one for each other step.   *)
(***************************************************************************)
EXTENDS SceneLifecycle, SequenceTheorems, TLAPS

(***************************************************************************)
(* Types.  The last conjunct is what TypeOK needs to be inductive.         *)
(***************************************************************************)
Items == [scene : Scenes, to : States, by : Closers \cup ByConnection \cup {"host", "hostLost"}]

Types ==
    /\ entry \in Scenes \cup {None} /\ entryWatch \in Scenes \cup {None}
    /\ toClose \in Scenes \cup {None} /\ clientClosing \in {"no", "waiting", "closing", "closed"}
    /\ watching \subseteq Scenes /\ evicted \subseteq Scenes
    /\ userCts \subseteq Scenes /\ cts \subseteq Scenes
    /\ completed \subseteq Scenes /\ followUp \subseteq Scenes /\ calls \subseteq Scenes
    /\ pc \in [Scenes -> {"none", "asked", "created", "connecting", "ready", "requested",
                          "opening", "opened", "attached", "failed", "gone"}]
    /\ state \in [Scenes -> States]
    /\ queue \in Seq(Items)
    /\ host \in {"Connected", "Disconnecting", "Disconnected"}
    /\ hostSeen \in [Scenes -> {"none", "Connected", "Disconnecting", "Disconnected"}]
    /\ handle \in [Scenes -> Handles \cup {None}]
    /\ handles \in [Handles -> Scenes \cup {None}]
    /\ server \in [Handles -> Scenes \cup {None}]
    /\ leaving \in [Scenes -> {"no", "calling", "closing", "waiting", "waitsForItself",
                               "done", "failed"}]
    /\ closer \in [Scenes -> [Closers -> {"no", "posted", "ran", "asked", "ending", "done"}]]
    /\ answers \in [Scenes -> Handles \cup {None, Refused}]
    /\ byes \subseteq Scenes \X Closers
    /\ clientClosing # "no" => toClose \in Scenes

(***************************************************************************)
(* Where a scene is in its life.                                           *)
(***************************************************************************)
Early == {"none", "asked", "created", "connecting"}
Opened == {"opening", "opened", "attached"}
Ending == {"Disconnecting", "Disconnected"}
Unclosed(s) == \A who \in Closers : closer[s][who] = "no"

(* An answer is kept for who waits for it.  The handle comes with it, and  *)
(* who fails afterwards was cancelled by its caller.                       *)
HandleComesWithAnswer(s) ==
    /\ answers[s] # None => pc[s] = "requested"
    /\ handle[s] \in Handles \/ pc[s] \notin Opened
    /\ handle[s] # None => pc[s] \in Opened \/ (pc[s] \in {"failed", "gone"} /\ s \in userCts)

(* The state of a scene says how far its connection went.                  *)
StateFollows(s) ==
    /\ pc[s] \in Early => state[s] = "Disconnected" /\ s \notin completed \cup followUp
    /\ state[s] = "Connected" => handle[s] # None /\ pc[s] # "opening"
    /\ s \in completed => state[s] = "Disconnected"
    /\ s \in watching => pc[s] = "attached"

(* Who closes a scene, and what becomes of the entry of the scene.         *)
ClosedWhenConnected(s) ==
    \A who \in Closers :
        /\ closer[s][who] # "no" => handle[s] # None /\ pc[s] # "opening" /\ entry # s
        /\ closer[s][who] \in {"ran", "asked", "ending", "done"} => state[s] \in Ending
        /\ <<s, who>> \in byes => closer[s][who] \in {"asked", "ending", "done"}

(* Each of the closers closes once.                                        *)
ClosesOnce(s) ==
    /\ closer[s]["scene"] # "no" => leaving[s] = "closing"
    /\ closer[s]["client"] # "no" => clientClosing \in {"closing", "closed"}

(* Before the connection with the server is lost, scenes end by a closer.  *)
EndedByCloser(s) ==
    host = "Connected" => /\ s \notin followUp
                          /\ hostSeen[s] \in {"none", "Connected"}
                          /\ s \in completed => ~Unclosed(s)

(* The life of a scene, as far as it is about this scene only. *)
SceneInv(s) ==
    /\ HandleComesWithAnswer(s) /\ StateFollows(s)
    /\ ClosedWhenConnected(s) /\ ClosesOnce(s) /\ EndedByCloser(s)

----------------------------------------------------------------------------
(* What is posted on the dispatcher, by whom.                              *)
ItemOf(q) ==
    \/ q.by = "connect" /\ q.to = "Connecting" /\ pc[q.scene] = "connecting"
    \/ q.by = "open" /\ q.to = "Connected" /\ pc[q.scene] = "opening"
    \/ q.by \in Closers /\ q.to = "Disconnecting" /\ closer[q.scene][q.by] = "posted"
    \/ q.by \in Closers /\ q.to = "Disconnected" /\ closer[q.scene][q.by] = "ending"
    \/ q.by \in {"host", "hostLost"} /\ q.to \in Ending /\ host # "Connected"
       /\ pc[q.scene] \notin Early

CloseItem(s, who) == [scene |-> s, to |-> "Disconnecting", by |-> who]

QueueInv ==
    /\ \A i \in 1 .. Len(queue) : ItemOf(queue[i])
    /\ \A i, j \in 1 .. Len(queue) :
         i # j /\ queue[i].scene = queue[j].scene /\ queue[i].by = queue[j].by =>
             queue[i].by \in {"host", "hostLost"}
    /\ \A s \in Scenes, who \in Closers :
         closer[s][who] = "posted" => \E i \in 1 .. Len(queue) : queue[i] = CloseItem(s, who)

----------------------------------------------------------------------------
(* The entry of the uri is of the one scene that connects or is connected, *)
(* but for those that are being closed, those with the exceptions of       *)
(* OneSceneOfTheUri, and those that ended.                                 *)
Tainted == userCts \cup evicted
Owns(s) == pc[s] \notin {"none", "failed", "gone"} /\ s \notin Tainted /\ Unclosed(s)
Ended(s) == pc[s] = "attached" /\ state[s] \in Ending

(* While the end of the scene s is still to be applied, the next one is not *)
(* further than the posting of Connecting, which comes after it.           *)
Behind(t, s, who) ==
    \/ pc[t] \in {"asked", "created"} \/ Ended(t)
    \/ /\ pc[t] = "connecting"
       /\ \A i, j \in 1 .. Len(queue) :
            queue[i] = CloseItem(s, who) /\ queue[j].scene = t => i < j

EntryOf(t) == Owns(t) => entry = t \/ Ended(t)

BehindOf(t) ==
    \A s \in Scenes, who \in Closers :
        closer[s][who] = "posted" /\ t # s /\ Owns(t) => Behind(t, s, who)

OneIsClosed ==
    \A s, t \in Scenes, v, w \in Closers :
        closer[s][v] = "posted" /\ closer[t][w] = "posted" /\ s # t => {s, t} \cap Tainted # {}

EntryInv ==
    /\ \A t \in Scenes : EntryOf(t) /\ BehindOf(t)
    /\ OneIsClosed

----------------------------------------------------------------------------
(* The handle of a scene is its own from the answer of the server to the   *)
(* arrival of its DISCONNECT_FROM_SCENE, unless it was spoiled.            *)
Has(s, h) ==
    \/ answers[s] = h
    \/ /\ handle[s] = h
       /\ \A who \in Closers : closer[s][who] \in {"no", "posted", "ran"} \/ <<s, who>> \in byes
Spoiled(h) == \E d \in Scenes : ClosedTwice(d) /\ handle[d] = h

HandleInv ==
    host = "Connected" =>
        \A s \in Scenes, h \in Handles :
            ~Spoiled(h) =>
                /\ Has(s, h) => server[h] = s
                /\ handle[s] = h /\ (\A who \in Closers : closer[s][who] \in {"no", "posted", "ran"}) =>
                       handles[h] = s

(* What the invariants of the entry and of the handles rest on. *)
Base == Types /\ (\A s \in Scenes : SceneInv(s)) /\ QueueInv

IInv ==
    /\ Base
    /\ EntryInv
    /\ HandleInv
-----------------------------------------------------------------------------
(* What is posted comes last. *)
LEMMA PostedLast ==
    ASSUME Types, NEW s \in Scenes, NEW to \in States,
           NEW by \in Closers \cup ByConnection \cup {"host", "hostLost"},
           NEW q, q = Posted(s, to, by)
    PROVE  /\ q \in Seq(Items) /\ Len(q) = Len(queue) + 1 /\ Len(queue) \in Nat
           /\ q[Len(q)] = [scene |-> s, to |-> to, by |-> by]
           /\ \A i \in 1 .. Len(queue) : q[i] = queue[i]
<1>1. queue \in Seq(Items) /\ [scene |-> s, to |-> to, by |-> by] \in Items
  BY DEF Types, Items
<1> QED
  BY <1>1, AppendProperties DEF Posted

(* The dispatcher runs the first item. *)
LEMMA RunsFirst ==
    ASSUME Types, queue # << >>
    PROVE  /\ Tail(queue) \in Seq(Items) /\ Len(queue) \in Nat
           /\ Len(queue) = Len(Tail(queue)) + 1 /\ Len(Tail(queue)) \in Nat
           /\ Head(queue) = queue[1] /\ Head(queue) \in Items
           /\ \A i \in 1 .. Len(Tail(queue)) : Tail(queue)[i] = queue[i + 1]
<1>1. queue \in Seq(Items)
  BY DEF Types
<1> QED
  BY <1>1, HeadTailProperties
-----------------------------------------------------------------------------
(* Types. *)
ItemTypes ==
    /\ {"scene", "client", "connect", "open", "host", "hostLost"} =
           Closers \cup ByConnection \cup {"host", "hostLost"}
    /\ {"Disconnected", "Connecting", "Connected", "Disconnecting"} = States

LEMMA TypesAreOK == Types => TypeOK
  BY DEF Types, TypeOK, Items

LEMMA ItemTypesHold == ItemTypes
  BY DEF ItemTypes, Closers, ByConnection, States

LEMMA PostedType ==
    ASSUME Types, NEW s \in Scenes, NEW to \in {"Connecting", "Connected", "Disconnecting", "Disconnected"},
           NEW by \in {"scene", "client", "connect", "open", "host", "hostLost"}
    PROVE  Posted(s, to, by) \in Seq(Items)
  BY PostedLast, ItemTypesHold DEF ItemTypes

LEMMA ConnectionTypes ==
    ASSUME Types, NEW s \in Scenes,
           Ask(s) \/ ConnectStep(s) \/ CancelByCaller(s)
    PROVE  Types'
<1>1. queue \in Seq(Items) /\ Posted(s, "Connecting", "connect") \in Seq(Items)
      /\ Posted(s, "Connected", "open") \in Seq(Items)
  BY PostedType DEF Types
<1>2. CASE Ask(s)
  BY <1>2 DEF Ask, Types, sceneVars, hostVars, serverVars
<1>3. CASE CreateScene(s) \/ FactoryFails(s)
  BY <1>3 DEF CreateScene, FactoryFails, Types, clientVars, sceneVars, hostVars, serverVars
<1>4. CASE Connect(s)
  BY <1>1, <1>4 DEF Connect, Types, Items, clientVars, sceneVars, hostVars, serverVars
<1>5. CASE SendConnect(s) \/ SendConnectFails(s) \/ ConnectRefused(s)
  BY <1>5 DEF SendConnect, SendConnectFails, ConnectRefused, Types, clientVars, sceneVars,
              hostVars, serverVars
<1>6. CASE OpenScene(s)
  BY <1>1, <1>6 DEF OpenScene, Types, Items, clientVars, sceneVars, hostVars, serverVars
<1>7. CASE Attach(s)
  <2>1. watching' \subseteq Scenes /\ entryWatch' \in Scenes \cup {None}
    BY <1>7 DEF Attach, Types
  <2>2. pc' \in [Scenes -> {"none", "asked", "created", "connecting", "ready", "requested",
                           "opening", "opened", "attached", "failed", "gone"}]
    <3>1. \E to \in {"failed", "attached"} : pc' = [pc EXCEPT ![s] = to]
      BY <1>7 DEF Attach
    <3> QED
      BY <3>1 DEF Types
  <2> QED
    BY <1>7, <2>1, <2>2 DEF Attach, Types, sceneVars, hostVars, serverVars
<1>8. CASE Forget(s)
  BY <1>8 DEF Forget, EraseEntry, Types, sceneVars, hostVars, serverVars
<1>9. CASE CancelByCaller(s)
  BY <1>9 DEF CancelByCaller, CancelRequest, Types, clientVars, sceneVars, hostVars, serverVars
<1> QED
  BY <1>2, <1>3, <1>4, <1>5, <1>6, <1>7, <1>8, <1>9 DEF ConnectStep

LEMMA HostTypes ==
    ASSUME Types, CloseHost \/ HostDown \/ \E s \in Scenes : HostStep(s)
    PROVE  Types'
<1>1. CASE CloseHost \/ HostDown
  <2>1. answers' \in [Scenes -> Handles \cup {None, Refused}]
    BY <1>1 DEF CloseHost, HostDown, Types, serverVars
  <2>2. byes' \subseteq Scenes \X Closers /\ calls' \subseteq Scenes
        /\ host' \in {"Connected", "Disconnecting", "Disconnected"}
    BY <1>1 DEF CloseHost, HostDown, Types, serverVars
  <2> QED
    BY <1>1, <2>1, <2>2 DEF CloseHost, HostDown, Types, clientVars, sceneVars, serverVars
<1>2. ASSUME NEW s \in Scenes, HostStep(s) PROVE Types'
  <2>1. queue \in Seq(Items) /\ Posted(s, "Disconnecting", "host") \in Seq(Items)
        /\ Posted(s, "Disconnecting", "hostLost") \in Seq(Items)
        /\ Posted(s, "Disconnected", "host") \in Seq(Items)
    BY PostedType DEF Types
  <2>2. CASE SeeHostDisconnecting(s)
    BY <2>1, <2>2 DEF SeeHostDisconnecting, Types, Items, clientVars, serverVars
  <2>3. CASE SeeHostDisconnected(s)
    <3>1. queue' \in Seq(Items) /\ followUp' \subseteq Scenes
      BY <2>1, <2>3 DEF SeeHostDisconnected, Types
    <3> QED
      BY <2>3, <3>1 DEF SeeHostDisconnected, Types, Items, clientVars, serverVars
  <2>4. CASE FollowUp(s)
    BY <2>1, <2>4 DEF FollowUp, Types, Items, clientVars, hostVars, serverVars
  <2> QED
    BY <1>2, <2>2, <2>3, <2>4 DEF HostStep
<1> QED
  BY <1>1, <1>2

LEMMA StartClosingTypes ==
    ASSUME Types, NEW s \in Scenes, NEW who \in Closers, StartClosing(s, who)
    PROVE  /\ queue' \in Seq(Items)
           /\ closer' \in [Scenes -> [Closers -> {"no", "posted", "ran", "asked", "ending", "done"}]]
           /\ entry' \in Scenes \cup {None} /\ entryWatch' \in Scenes \cup {None}
           /\ watching' \subseteq Scenes /\ evicted' \subseteq Scenes
<1>1. Posted(s, "Disconnecting", who) \in Seq(Items) /\ queue \in Seq(Items)
  BY PostedType DEF Types, Closers
<1> QED
  <2>1. CASE state[s] = "Connected"
    <3>1. /\ closer' = [closer EXCEPT ![s][who] = "posted"] /\ queue' = Posted(s, "Disconnecting", who)
          /\ entry' = None /\ entryWatch' = None /\ watching' = watching \ {entryWatch}
          /\ evicted' = evicted \cup ({entry} \ {s, None})
      BY <2>1 DEF StartClosing, EraseEntry
    <3>2. watching' \subseteq watching /\ evicted' \subseteq Scenes
      BY <3>1 DEF Types
    <3> QED
      BY <1>1, <3>1, <3>2 DEF Types
  <2>2. CASE state[s] # "Connected"
    BY <2>2 DEF StartClosing, Types
  <2> QED
    BY <2>1, <2>2

LEMMA ClosingTypes ==
    ASSUME Types, NEW s \in Scenes,
           Disconnect(s) \/ DisconnectStep(s) \/ CloserStep(s) \/ ServerStep(s)
    PROVE  Types'
<1>1. CASE Disconnect(s)
  BY <1>1 DEF Disconnect, CancelRequest, Types, clientVars, sceneVars, hostVars
<1>2. CASE CallClient(s)
  <2>1. "scene" \in Closers /\ StartClosing(s, "scene")
    BY <1>2 DEF CallClient, Closers
  <2>2. /\ queue' \in Seq(Items)
        /\ closer' \in [Scenes -> [Closers -> {"no", "posted", "ran", "asked", "ending", "done"}]]
        /\ entry' \in Scenes \cup {None} /\ entryWatch' \in Scenes \cup {None}
        /\ watching' \subseteq Scenes /\ evicted' \subseteq Scenes
    BY <2>1, StartClosingTypes
  <2>3. leaving' \in [Scenes -> {"no", "calling", "closing", "waiting", "waitsForItself",
                               "done", "failed"}]
    BY <1>2 DEF CallClient, Types
  <2> QED
    BY <1>2, <2>2, <2>3 DEF CallClient, Types, Items, hostVars, serverVars
<1>3. CASE ConnectTaskEnded(s)
  BY <1>3 DEF ConnectTaskEnded, Types, clientVars, sceneVars, hostVars, serverVars
<1>4. ASSUME NEW who \in Closers, LeaveServer(s, who) PROVE Types'
  BY <1>4 DEF LeaveServer, Types, clientVars, sceneVars, hostVars
<1>5. ASSUME NEW who \in Closers, EndClosing(s, who) PROVE Types'
  <2>1. Posted(s, "Disconnected", who) \in Seq(Items)
    BY PostedType DEF Closers
  <2> QED
    BY <1>5, <2>1 DEF EndClosing, Types, Items, clientVars, hostVars, serverVars
<1>6. ASSUME ServerStep(s) PROVE Types'
  <2>1. /\ server' \in [Handles -> Scenes \cup {None}] /\ calls' \subseteq Scenes
        /\ answers' \in [Scenes -> Handles \cup {None, Refused}]
        /\ byes' \subseteq Scenes \X Closers
    <3>1. CASE ServerAccepts(s)
      BY <3>1 DEF ServerAccepts, Answer, Types
    <3>2. CASE ServerRefuses(s)
      BY <3>2 DEF ServerRefuses, Answer, Types
    <3>3. ASSUME NEW who \in Closers, ServerReleases(s, who)
          PROVE  /\ server' \in [Handles -> Scenes \cup {None}] /\ calls' \subseteq Scenes
                 /\ answers' \in [Scenes -> Handles \cup {None, Refused}]
                 /\ byes' \subseteq Scenes \X Closers
      BY <3>3 DEF ServerReleases, Types
    <3> QED
      BY <1>6, <3>1, <3>2, <3>3 DEF ServerStep
  <2>2. UNCHANGED <<clientVars, pc, userCts, cts, sceneVars, hostVars, handle, handles, leaving,
                   closer>>
    BY <1>6 DEF ServerStep, ServerAccepts, ServerRefuses, ServerReleases
  <2> QED
    BY <2>1, <2>2 DEF Types, clientVars, sceneVars, hostVars
<1> QED
  BY <1>1, <1>2, <1>3, <1>4, <1>5, <1>6 DEF DisconnectStep, CloserStep

LEMMA ClientTypes ==
    ASSUME Types, DisconnectClient \/ ClientStep
    PROVE  Types'
<1>1. CASE DisconnectClient
  BY <1>1 DEF DisconnectClient, Types, sceneVars, hostVars, serverVars
<1>2. CASE DisconnectAllScenes
  <2>1. toClose \in Scenes /\ "client" \in Closers
    BY <1>2, NoneIsNoScene DEF DisconnectAllScenes, Types, Closers
  <2>2. /\ queue' \in Seq(Items)
        /\ closer' \in [Scenes -> [Closers -> {"no", "posted", "ran", "asked", "ending", "done"}]]
        /\ entry' \in Scenes \cup {None} /\ entryWatch' \in Scenes \cup {None}
        /\ watching' \subseteq Scenes /\ evicted' \subseteq Scenes
    BY <1>2, <2>1, StartClosingTypes DEF DisconnectAllScenes, Types, Items
  <2> QED
    BY <1>2, <2>2 DEF DisconnectAllScenes, Types, Items, hostVars, serverVars
<1>3. CASE CloseAllConnections
  BY <1>3 DEF CloseAllConnections, Types, sceneVars
<1> QED
  BY <1>1, <1>2, <1>3 DEF ClientStep

LEMMA RunPostedTypes ==
    ASSUME Types, RunPosted
    PROVE  Types'
<1> DEFINE p == Head(queue)
           s == p.scene
<1>1. queue' \in Seq(Items) /\ s \in Scenes /\ p.to \in States
  BY RunsFirst DEF RunPosted, Items
<1>2. p \in Items
  BY RunsFirst DEF RunPosted
<1>3. /\ state' \in [Scenes -> States] /\ completed' \subseteq Scenes
      /\ entry' \in Scenes \cup {None} /\ entryWatch' \in Scenes \cup {None}
      /\ watching' \subseteq Scenes /\ evicted' \subseteq Scenes
  <2> HIDE DEF p, s
  <2>1. watching' \subseteq watching /\ evicted' \subseteq evicted \cup ({entry} \ {None})
    BY DEF RunPosted, p, s
  <2>2. entry' \in {entry, None} /\ entryWatch' \in {entryWatch, None}
    BY DEF RunPosted, p, s
  <2>3. completed' \subseteq completed \cup {s} /\ state' \in {state, [state EXCEPT ![s] = p.to]}
    BY DEF RunPosted, p, s
  <2> QED
    BY <1>1, <2>1, <2>2, <2>3 DEF Types
<1>4. pc' \in [Scenes -> {"none", "asked", "created", "connecting", "ready", "requested",
                           "opening", "opened", "attached", "failed", "gone"}]
  BY <1>1 DEF RunPosted, Types
<1>5. closer' \in [Scenes -> [Closers -> {"no", "posted", "ran", "asked", "ending", "done"}]]
  BY <1>1 DEF RunPosted, Types
<1>6. followUp' \subseteq Scenes
  BY <1>1 DEF RunPosted, Types
<1> QED
  BY <1>1, <1>3, <1>4, <1>5, <1>6 DEF RunPosted, Types, hostVars, serverVars
-----------------------------------------------------------------------------

(* What SceneInv(t) looks at, of another scene than the one that moves. *)
LeftAlone(t) ==
    /\ pc'[t] = pc[t] /\ answers'[t] = answers[t] /\ handle'[t] = handle[t]
    /\ state'[t] = state[t] /\ hostSeen'[t] = hostSeen[t] /\ closer'[t] = closer[t]
    /\ t \in userCts => t \in userCts'
    /\ t \in completed' <=> t \in completed
    /\ t \in followUp' => t \in followUp
    /\ t \in watching' => t \in watching
    /\ \A who \in Closers : <<t, who>> \in byes' => <<t, who>> \in byes
    /\ entry' = t => entry = t
    /\ host' = "Connected" => host = "Connected"
    /\ leaving[t] = "closing" => leaving'[t] = "closing"
    /\ clientClosing \in {"closing", "closed"} => clientClosing' \in {"closing", "closed"}

LEMMA AloneIsKept ==
    ASSUME NEW t \in Scenes, SceneInv(t), LeftAlone(t)
    PROVE  SceneInv(t)'
<1>1. Unclosed(t)' <=> Unclosed(t)
  BY DEF LeftAlone, Unclosed
<1>2. HandleComesWithAnswer(t)'
  BY DEF SceneInv, LeftAlone, HandleComesWithAnswer
<1>3. StateFollows(t)'
  BY DEF SceneInv, LeftAlone, StateFollows
<1>4. ClosedWhenConnected(t)'
  BY DEF SceneInv, LeftAlone, ClosedWhenConnected
<1>5. EndedByCloser(t)'
  BY <1>1 DEF SceneInv, LeftAlone, EndedByCloser
<1>6. ClosesOnce(t)'
  BY DEF SceneInv, LeftAlone, ClosesOnce
<1> QED
  BY <1>2, <1>3, <1>4, <1>5, <1>6 DEF SceneInv

LEMMA ConnectionOfAnother ==
    ASSUME Types, NEW s \in Scenes, NEW t \in Scenes \ {s},
           Ask(s) \/ ConnectStep(s) \/ CancelByCaller(s)
    PROVE  LeftAlone(t)
<1>1. CASE Ask(s)
  BY <1>1 DEF Ask, Types, LeftAlone, sceneVars, hostVars, serverVars
<1>2. CASE CreateScene(s) \/ FactoryFails(s) \/ Connect(s)
  BY <1>2 DEF CreateScene, FactoryFails, Connect, Types, LeftAlone, clientVars, sceneVars,
              hostVars, serverVars
<1>3. CASE SendConnect(s) \/ SendConnectFails(s) \/ ConnectRefused(s) \/ OpenScene(s)
  BY <1>3 DEF SendConnect, SendConnectFails, ConnectRefused, OpenScene, Types, LeftAlone, clientVars,
              sceneVars, hostVars, serverVars
<1>4. CASE Attach(s)
  BY <1>4 DEF Attach, Types, LeftAlone, sceneVars, hostVars, serverVars
<1>5. CASE Forget(s)
  BY <1>5, NoneIsNoScene DEF Forget, EraseEntry, Types, LeftAlone, sceneVars, hostVars, serverVars
<1>6. CASE CancelByCaller(s)
  BY <1>6 DEF CancelByCaller, CancelRequest, Types, LeftAlone, clientVars, sceneVars, hostVars, serverVars
<1> QED
  BY <1>1, <1>2, <1>3, <1>4, <1>5, <1>6 DEF ConnectStep

LEMMA ConnectionKeeps ==
    ASSUME Types, NEW s \in Scenes, SceneInv(s), Ask(s) \/ ConnectStep(s) \/ CancelByCaller(s)
    PROVE  SceneInv(s)'
<1> USE NoneIsNoScene
<1> USE DEF SceneInv, HandleComesWithAnswer, StateFollows, ClosedWhenConnected, EndedByCloser,
            ClosesOnce, Early, Opened, Ending
<1>1. CASE Ask(s)
  BY <1>1 DEF Ask, Types, Unclosed, sceneVars, hostVars, serverVars
<1>2. CASE CreateScene(s)
  BY <1>2 DEF CreateScene, Types, Unclosed, clientVars, sceneVars, hostVars, serverVars
<1>3. CASE FactoryFails(s)
  BY <1>3 DEF FactoryFails, Types, Unclosed, clientVars, sceneVars, hostVars, serverVars
<1>4. CASE Connect(s)
  BY <1>4 DEF Connect, Types, Unclosed, clientVars, sceneVars, hostVars, serverVars
<1>5. CASE SendConnect(s) \/ SendConnectFails(s) \/ ConnectRefused(s)
  BY <1>5 DEF SendConnect, SendConnectFails, ConnectRefused, Types, Unclosed, clientVars, sceneVars,
              hostVars, serverVars
<1>6. CASE OpenScene(s)
  BY <1>6 DEF OpenScene, Types, Unclosed, clientVars, sceneVars,
              hostVars, serverVars
<1>7. CASE Attach(s)
  BY <1>7 DEF Attach, Types, Unclosed, sceneVars, hostVars, serverVars
<1>8. CASE Forget(s)
  BY <1>8 DEF Forget, EraseEntry, Types, Unclosed, sceneVars, hostVars, serverVars
<1>9. CASE CancelByCaller(s)
  BY <1>9 DEF CancelByCaller, CancelRequest, Types, Unclosed, clientVars, sceneVars, hostVars, serverVars
<1> QED
  BY <1>1, <1>2, <1>3, <1>4, <1>5, <1>6, <1>7, <1>8, <1>9 DEF ConnectStep

LEMMA HostOfAnother ==
    ASSUME Types, NEW s \in Scenes, NEW t \in Scenes \ {s}, HostStep(s)
    PROVE  LeftAlone(t)
<1>1. CASE SeeHostDisconnecting(s)
  BY <1>1 DEF SeeHostDisconnecting, Types, LeftAlone, clientVars, serverVars
<1>2. CASE SeeHostDisconnected(s)
  <2>1. followUp' \subseteq followUp \cup {s}
    BY <1>2 DEF SeeHostDisconnected
  <2> QED
    BY <1>2, <2>1 DEF SeeHostDisconnected, Types, LeftAlone, clientVars, serverVars
<1>3. CASE FollowUp(s)
  BY <1>3 DEF FollowUp, Types, LeftAlone, clientVars, hostVars, serverVars
<1> QED
  BY <1>1, <1>2, <1>3 DEF HostStep

LEMMA HostKeeps ==
    ASSUME Types, NEW s \in Scenes, SceneInv(s), HostStep(s)
    PROVE  SceneInv(s)'
<1> USE DEF SceneInv, HandleComesWithAnswer, StateFollows, ClosedWhenConnected, EndedByCloser,
            ClosesOnce, Early, Ending
<1>1. CASE SeeHostDisconnecting(s)
  BY <1>1 DEF SeeHostDisconnecting, Types, Unclosed, clientVars, serverVars
<1>2. CASE SeeHostDisconnected(s)
  <2>1. host = "Disconnected" /\ (s \in followUp' /\ s \notin followUp => state[s] = "Disconnecting")
    BY <1>2 DEF SeeHostDisconnected
  <2> QED
    BY <1>2, <2>1 DEF SeeHostDisconnected, Types, Unclosed, clientVars, serverVars
<1>3. CASE FollowUp(s)
  BY <1>3 DEF FollowUp, Types, Unclosed, clientVars, hostVars, serverVars
<1> QED
  BY <1>1, <1>2, <1>3 DEF HostStep

LEMMA HostLost ==
    ASSUME Types, NEW t \in Scenes, SceneInv(t), CloseHost \/ HostDown \/ CloseAllConnections
    PROVE  SceneInv(t)'
<1>1. /\ UNCHANGED <<entry, watching, pc, userCts, sceneVars, handle, closer>>
      /\ answers' \in {answers, [s \in Scenes |-> None]} /\ byes' \subseteq byes
      /\ host' = "Connected" => host = "Connected"
      /\ hostSeen' = hostSeen /\ leaving' = leaving
      /\ clientClosing \in {"closing", "closed"} => clientClosing' \in {"closing", "closed"}
  BY DEF CloseHost, HostDown, CloseAllConnections, clientVars, hostVars, serverVars
<1> QED
  BY <1>1 DEF SceneInv, HandleComesWithAnswer, StateFollows, ClosedWhenConnected, EndedByCloser,
              ClosesOnce, Unclosed, sceneVars

LEMMA StartClosingOfAnother ==
    ASSUME Types, NEW s \in Scenes, NEW t \in Scenes \ {s}, NEW who \in Closers,
           StartClosing(s, who),
           leaving[t] = "closing" => leaving'[t] = "closing",
           clientClosing \in {"closing", "closed"} => clientClosing' \in {"closing", "closed"},
           UNCHANGED <<pc, userCts, state, completed, followUp, hostVars, handle, serverVars>>
    PROVE  LeftAlone(t)
<1>1. closer'[t] = closer[t] /\ watching' \subseteq watching /\ (entry' = t => entry = t)
  BY NoneIsNoScene DEF StartClosing, EraseEntry, Types
<1> QED
  BY <1>1 DEF LeftAlone, hostVars, serverVars

LEMMA StartClosingKeeps ==
    ASSUME Types, NEW s \in Scenes, NEW who \in Closers, SceneInv(s), StartClosing(s, who),
           ClosesOnce(s)',
           UNCHANGED <<pc, userCts, state, completed, followUp, hostVars, handle, serverVars>>
    PROVE  SceneInv(s)'
<1>1. CASE state[s] = "Connected"
  <2>1. /\ closer' = [closer EXCEPT ![s][who] = "posted"] /\ entry' = None
        /\ watching' \subseteq watching
    BY <1>1 DEF StartClosing, EraseEntry
  <2>2. \A w \in Closers : closer'[s][w] = IF w = who THEN "posted" ELSE closer[s][w]
    BY <2>1 DEF Types
  <2>3. ~Unclosed(s)'
    BY <2>2 DEF Unclosed
  <2>4. ClosedWhenConnected(s)'
    <3>1. closer[s][who] \notin {"ran", "asked", "ending", "done"} /\ handle[s] # None /\ pc[s] # "opening"
      BY <1>1 DEF SceneInv, ClosedWhenConnected, StateFollows, Ending
    <3> QED
      BY <2>1, <2>2, <3>1, NoneIsNoScene DEF SceneInv, ClosedWhenConnected, serverVars
  <2> QED
    BY <2>1, <2>3, <2>4 DEF SceneInv, HandleComesWithAnswer, StateFollows, EndedByCloser,
                            hostVars, serverVars
<1>2. CASE state[s] # "Connected"
  <2>1. UNCHANGED <<closer, entry, watching>>
    BY <1>2 DEF StartClosing
  <2> QED
    BY <2>1 DEF SceneInv, HandleComesWithAnswer, StateFollows, ClosedWhenConnected, EndedByCloser,
                Unclosed, hostVars, serverVars
<1> QED
  BY <1>1, <1>2

LEMMA ClientKeeps ==
    ASSUME Types, NEW t \in Scenes, SceneInv(t), DisconnectClient \/ DisconnectAllScenes
    PROVE  SceneInv(t)'
<1>1. CASE DisconnectClient
  <2>1. LeftAlone(t)
    BY <1>1 DEF DisconnectClient, LeftAlone, sceneVars, hostVars, serverVars
  <2> QED
    BY <2>1, AloneIsKept
<1>2. CASE DisconnectAllScenes
  <2>1. clientClosing' = "closing" /\ leaving' = leaving
        /\ UNCHANGED <<pc, userCts, state, completed, followUp, hostVars, handle, serverVars>>
    BY <1>2 DEF DisconnectAllScenes
  <2>2. CASE UNCHANGED <<closer, entry, entryWatch, watching, evicted, queue>>
    <3>1. LeftAlone(t)
      BY <2>1, <2>2 DEF LeftAlone, hostVars, serverVars
    <3> QED
      BY <3>1, AloneIsKept
  <2>3. CASE StartClosing(toClose, "client")
    <3>1. PICK s \in Scenes : s = toClose
      BY <1>2 DEF DisconnectAllScenes, Types
    <3>2. CASE t # s
      <4>1. LeftAlone(t)
        BY <2>1, <2>3, <3>1, <3>2, StartClosingOfAnother DEF Closers
      <4> QED
        BY <4>1, AloneIsKept
    <3>3. CASE t = s
      <4>1. ClosesOnce(s)'
        BY <2>1, <2>3, <3>1, <3>3 DEF SceneInv, ClosesOnce, StartClosing, Types, Closers
      <4> QED
        BY <2>1, <2>3, <3>1, <3>3, <4>1, StartClosingKeeps DEF Closers
    <3> QED
      BY <3>2, <3>3
  <2> QED
    BY <1>2, <2>2, <2>3 DEF DisconnectAllScenes
<1> QED
  BY <1>1, <1>2

LEMMA ClosingOfAnother ==
    ASSUME Types, NEW s \in Scenes, NEW t \in Scenes \ {s},
           Disconnect(s) \/ DisconnectStep(s) \/ CloserStep(s) \/ ServerStep(s)
    PROVE  LeftAlone(t)
<1>1. CASE Disconnect(s)
  BY <1>1 DEF Disconnect, CancelRequest, Types, LeftAlone, clientVars, sceneVars, hostVars
<1>2. CASE CallClient(s)
  <2>1. leaving'[t] = leaving[t] /\ UNCHANGED clientClosing
    BY <1>2 DEF CallClient, Types
  <2> QED
    BY <1>2, <2>1, StartClosingOfAnother DEF CallClient, Closers
<1>3. CASE ConnectTaskEnded(s)
  BY <1>3 DEF ConnectTaskEnded, LeftAlone, clientVars, sceneVars, hostVars, serverVars
<1>4. ASSUME NEW who \in Closers, LeaveServer(s, who) PROVE LeftAlone(t)
  <2>1. byes' \subseteq byes \cup {<<s, who>>}
    BY <1>4 DEF LeaveServer
  <2> QED
    BY <1>4, <2>1 DEF LeaveServer, Types, LeftAlone, clientVars, sceneVars, hostVars
<1>5. ASSUME NEW who \in Closers, EndClosing(s, who) PROVE LeftAlone(t)
  BY <1>5 DEF EndClosing, Types, LeftAlone, clientVars, hostVars, serverVars
<1>6. CASE ServerStep(s)
  <2>1. answers'[t] = answers[t] /\ byes' \subseteq byes
    BY <1>6 DEF ServerStep, ServerAccepts, ServerRefuses, ServerReleases, Answer, Types
  <2>2. UNCHANGED <<clientVars, pc, userCts, cts, sceneVars, hostVars, handle, closer, leaving>>
    BY <1>6 DEF ServerStep, ServerAccepts, ServerRefuses, ServerReleases
  <2> QED
    BY <2>1, <2>2 DEF LeftAlone, clientVars, sceneVars, hostVars
<1> QED
  BY <1>1, <1>2, <1>3, <1>4, <1>5, <1>6 DEF DisconnectStep, CloserStep

LEMMA ClosingKeeps ==
    ASSUME Types, NEW s \in Scenes, SceneInv(s),
           Disconnect(s) \/ DisconnectStep(s) \/ CloserStep(s) \/ ServerStep(s)
    PROVE  SceneInv(s)'
<1> USE DEF SceneInv, HandleComesWithAnswer, StateFollows, ClosedWhenConnected, EndedByCloser,
            ClosesOnce, Early, Opened, Ending
<1>1. CASE Disconnect(s)
  BY <1>1 DEF Disconnect, CancelRequest, Types, Unclosed, clientVars, sceneVars, hostVars
<1>2. CASE CallClient(s)
  <2>1. ClosesOnce(s)'
    BY <1>2 DEF CallClient, StartClosing, Types, Closers
  <2> QED
    BY <1>2, <2>1, StartClosingKeeps DEF CallClient, Closers
<1>3. CASE ConnectTaskEnded(s)
  BY <1>3 DEF ConnectTaskEnded, Unclosed, clientVars, sceneVars, hostVars, serverVars
<1>4. ASSUME NEW who \in Closers, LeaveServer(s, who) PROVE SceneInv(s)'
  <2>1. \A w \in Closers : closer'[s][w] = IF w = who THEN "asked" ELSE closer[s][w]
    BY <1>4 DEF LeaveServer, Types
  <2>2. closer[s][who] = "ran" /\ byes' \subseteq byes \cup {<<s, who>>}
    BY <1>4 DEF LeaveServer
  <2>3. Unclosed(s)' <=> Unclosed(s)
    BY <2>1, <2>2 DEF Unclosed
  <2> QED
    BY <1>4, <2>1, <2>2, <2>3 DEF LeaveServer, clientVars, sceneVars, hostVars
<1>5. ASSUME NEW who \in Closers, EndClosing(s, who) PROVE SceneInv(s)'
  <2>1. \A w \in Closers : closer'[s][w] = IF w = who THEN "ending" ELSE closer[s][w]
    BY <1>5 DEF EndClosing, Types
  <2>2. closer[s][who] = "asked"
    BY <1>5 DEF EndClosing
  <2>3. Unclosed(s)' <=> Unclosed(s)
    BY <2>1, <2>2 DEF Unclosed
  <2> QED
    BY <1>5, <2>1, <2>2, <2>3 DEF EndClosing, clientVars, hostVars, serverVars
<1>6. CASE ServerStep(s)
  <2>1. (answers'[s] = answers[s] \/ pc[s] = "requested") /\ byes' \subseteq byes
    BY <1>6 DEF ServerStep, ServerAccepts, ServerRefuses, ServerReleases, Answer, Types
  <2>2. UNCHANGED <<clientVars, pc, userCts, cts, sceneVars, hostVars, handle, closer, leaving>>
    BY <1>6 DEF ServerStep, ServerAccepts, ServerRefuses, ServerReleases
  <2> QED
    BY <2>1, <2>2 DEF Unclosed, clientVars, sceneVars, hostVars
<1> QED
  BY <1>1, <1>2, <1>3, <1>4, <1>5, <1>6 DEF DisconnectStep, CloserStep
-----------------------------------------------------------------------------
(* What the dispatcher does when it runs the item p, of the scene s. *)
Runs(p, s) ==
    /\ queue # << >> /\ queue' = Tail(queue) /\ p = queue[1] /\ s = p.scene
    /\ p \in Items /\ s \in Scenes /\ ItemOf(p)
    /\ \A t \in Scenes : t # s => /\ pc'[t] = pc[t] /\ state'[t] = state[t] /\ closer'[t] = closer[t]
                                  /\ t \in completed' <=> t \in completed
                                  /\ t \in followUp' <=> t \in followUp
    /\ IF state[s] # p.to /\ s \notin completed
       THEN state'[s] = p.to /\ (s \in completed' <=> p.to = "Disconnected")
       ELSE state'[s] = state[s] /\ (s \in completed' <=> s \in completed)
    /\ pc'[s] = IF p.by = "connect" THEN "ready" ELSE IF p.by = "open" THEN "opened" ELSE pc[s]
    /\ \A w \in Closers :
         closer'[s][w] = IF p.by # w THEN closer[s][w]
                         ELSE IF p.to = "Disconnecting" THEN "ran" ELSE "done"
    /\ s \in followUp' <=> s \in followUp \/ p.by = "hostLost"
    /\ watching' \subseteq watching
    /\ \/ UNCHANGED <<entry, evicted>>
       \/ /\ p.to \in Ending /\ s \in watching /\ state'[s] = p.to
          /\ entry' = None /\ evicted' = evicted \cup ({entry} \ {s, None})
    /\ UNCHANGED <<clientClosing, toClose, userCts, cts, hostVars, handle, handles, leaving,
                   serverVars>>

LEMMA RunPostedEffect ==
    ASSUME Types, QueueInv, RunPosted
    PROVE  \E p \in Items : \E s \in Scenes : Runs(p, s)
<1>1. queue # << >> /\ queue' = Tail(queue)
  BY DEF RunPosted
<1>2. PICK p \in Items : p = queue[1] /\ p = Head(queue) /\ 1 \in 1 .. Len(queue)
  <2>1. queue[1] = Head(queue) /\ Head(queue) \in Items /\ Len(queue) \in Nat
        /\ Len(queue) = Len(Tail(queue)) + 1 /\ Len(Tail(queue)) \in Nat
    BY <1>1, RunsFirst
  <2> QED
    BY <2>1
<1>3. PICK s \in Scenes : s = p.scene
  BY DEF Items
<1>4. ItemOf(p)
  BY <1>2 DEF QueueInv
<1>5. /\ LET changes == state[s] # p.to /\ s \notin completed
         IN  IF changes
             THEN /\ state' = [state EXCEPT ![s] = p.to]
                  /\ completed' = IF p.to = "Disconnected" THEN completed \cup {s} ELSE completed
                  /\ IF p.to \in {"Disconnecting", "Disconnected"} /\ s \in watching
                     THEN /\ entry' = None
                          /\ watching' \subseteq watching
                          /\ evicted' = evicted \cup ({entry} \ {s, None})
                     ELSE UNCHANGED <<entry, watching, evicted>>
             ELSE UNCHANGED <<state, completed, entry, watching, evicted>>
      /\ closer' = IF p.by \in Closers
                   THEN [closer EXCEPT ![s][p.by] = IF p.to = "Disconnecting" THEN "ran" ELSE "done"]
                   ELSE closer
      /\ followUp' = IF p.by = "hostLost" THEN followUp \cup {s} ELSE followUp
      /\ UNCHANGED <<clientClosing, toClose, userCts, cts, hostVars, handle, handles, leaving,
                     serverVars>>
  BY <1>2, <1>3 DEF RunPosted
<1>6. pc' = CASE p.by = "connect" -> [pc EXCEPT ![s] = "ready"]
              [] p.by = "open" -> [pc EXCEPT ![s] = "opened"]
              [] OTHER -> pc
  BY <1>2, <1>3 DEF RunPosted
<1>7. /\ pc'[s] = IF p.by = "connect" THEN "ready" ELSE IF p.by = "open" THEN "opened" ELSE pc[s]
      /\ \A t \in Scenes : t # s => pc'[t] = pc[t]
  BY <1>6 DEF Types
<1>8. \A w \in Closers : \A t \in Scenes :
        closer'[t][w] = IF t # s \/ p.by # w THEN closer[t][w]
                        ELSE IF p.to = "Disconnecting" THEN "ran" ELSE "done"
  BY <1>5 DEF Types
<1>9. \A t \in Scenes : t # s => closer'[t] = closer[t] /\ state'[t] = state[t]
  BY <1>5 DEF Types
<1>10. IF state[s] # p.to /\ s \notin completed
       THEN state'[s] = p.to /\ (s \in completed' <=> p.to = "Disconnected")
       ELSE state'[s] = state[s] /\ (s \in completed' <=> s \in completed)
  BY <1>5 DEF Types
<1>11. \/ UNCHANGED <<entry, evicted>>
       \/ /\ p.to \in Ending /\ s \in watching /\ state'[s] = p.to
          /\ entry' = None /\ evicted' = evicted \cup ({entry} \ {s, None})
  BY <1>5 DEF Types, Ending
<1>12. /\ watching' \subseteq watching
       /\ \A t \in Scenes : t # s => /\ t \in completed' <=> t \in completed
                                     /\ t \in followUp' <=> t \in followUp
       /\ s \in followUp' <=> s \in followUp \/ p.by = "hostLost"
  BY <1>5
<1> HIDE <1>5, <1>6
<1>13. UNCHANGED <<clientClosing, toClose, userCts, cts, hostVars, handle, handles, leaving, serverVars>>
  BY <1>5
<1>14. Runs(p, s)
  BY <1>1, <1>2, <1>3, <1>4, <1>7, <1>8, <1>9, <1>10, <1>11, <1>12, <1>13 DEF Runs
<1> QED
  BY <1>14

LEMMA RunPostedKeeps ==
    ASSUME Types, NEW t \in Scenes, SceneInv(t), QueueInv, RunPosted
    PROVE  SceneInv(t)'
<1>1. \E p \in Items : \E s \in Scenes : Runs(p, s)
  BY RunPostedEffect
<1>2. PICK p \in Items, s \in Scenes : Runs(p, s)
  BY <1>1
<1>3. /\ UNCHANGED <<userCts, hostSeen, host, handle, answers, byes, leaving, clientClosing>>
      /\ entry' = entry \/ entry' = None
  BY <1>2 DEF Runs, hostVars, serverVars
<1>4. CASE t # s
  <2>1. LeftAlone(t)
    BY <1>2, <1>3, <1>4, NoneIsNoScene DEF Runs, LeftAlone
  <2> QED
    BY <2>1, AloneIsKept
<1>5. CASE t = s
  <2>1. \A w \in Closers : closer'[s][w] = IF p.by # w THEN closer[s][w]
                                            ELSE IF p.to = "Disconnecting" THEN "ran" ELSE "done"
    BY <1>2 DEF Runs
  <2>2. /\ ItemOf(p) /\ s = p.scene
        /\ pc'[s] = IF p.by = "connect" THEN "ready" ELSE IF p.by = "open" THEN "opened" ELSE pc[s]
        /\ IF state[s] # p.to /\ s \notin completed
           THEN state'[s] = p.to /\ (s \in completed' <=> p.to = "Disconnected")
           ELSE state'[s] = state[s] /\ (s \in completed' <=> s \in completed)
        /\ s \in followUp' <=> s \in followUp \/ p.by = "hostLost"
        /\ watching' \subseteq watching
    BY <1>2 DEF Runs
  <2>3. {"host", "hostLost", "connect", "open"} \cap Closers = {}
    BY DEF Closers
  <2>4. Unclosed(s)' <=> Unclosed(s)
    BY <2>1, <2>2, <2>3 DEF Unclosed, ItemOf
  <2>5. HandleComesWithAnswer(s)'
    BY <1>3, <1>5, <2>2, <2>3 DEF SceneInv, HandleComesWithAnswer, ItemOf, Opened
  <2>6. StateFollows(s)'
    BY <1>3, <1>5, <2>2, <2>3, NoneIsNoScene
    DEF SceneInv, HandleComesWithAnswer, StateFollows, ClosedWhenConnected, ItemOf, Early, Ending, Opened
  <2>7. ClosedWhenConnected(s)'
    BY <1>3, <1>5, <2>1, <2>2, <2>3, NoneIsNoScene
    DEF SceneInv, HandleComesWithAnswer, StateFollows, ClosedWhenConnected, ItemOf, Early, Ending, Opened
  <2>8. EndedByCloser(s)'
    BY <1>3, <1>5, <2>1, <2>2, <2>3, <2>4 DEF SceneInv, EndedByCloser, ItemOf, Unclosed, Ending
  <2>9. ClosesOnce(s)'
    BY <1>3, <1>5, <2>1, <2>2, <2>3 DEF SceneInv, ClosesOnce, ItemOf, Closers
  <2> QED
    BY <1>5, <2>5, <2>6, <2>7, <2>8, <2>9 DEF SceneInv
<1> QED
  BY <1>4, <1>5
-----------------------------------------------------------------------------
(* The items that are posted stay as they are, whatever else happens, and  *)
(* the item q may be posted.                                               *)
ItemsStay(q) ==
    /\ \A s \in Scenes :
         /\ pc[s] \in {"connecting", "opening"} => pc'[s] = pc[s]
         /\ pc'[s] \in Early => pc[s] \in Early
         /\ \A who \in Closers :
              /\ closer[s][who] \in {"posted", "ending"} => closer'[s][who] = closer[s][who]
              /\ closer'[s][who] = "posted" => closer[s][who] = "posted" \/ q = CloseItem(s, who)
    /\ host' = "Connected" => host = "Connected"

Post(q) ==
    /\ q \in Items
    /\ queue' = Posted(q.scene, q.to, q.by)
    /\ ItemOf(q)'
    /\ \A i \in 1 .. Len(queue) :
         queue[i].scene = q.scene /\ queue[i].by = q.by => q.by \in {"host", "hostLost"}

NoItem == [scene |-> None, to |-> "Disconnected", by |-> "host"]

LEMMA ItemStays ==
    ASSUME NEW q, ItemsStay(q), NEW p \in Items, ItemOf(p)
    PROVE  ItemOf(p)'
<1>1. p.scene \in Scenes
  BY DEF Items
<1> QED
  BY <1>1 DEF ItemsStay, ItemOf

(* Nothing is posted. *)
LEMMA QuietQueue ==
    ASSUME Types, QueueInv, UNCHANGED queue, ItemsStay(NoItem)
    PROVE  QueueInv'
<1>1. \A i \in 1 .. Len(queue) : queue[i] \in Items
  BY DEF Types
<1>2. \A i \in 1 .. Len(queue) : ItemOf(queue[i])'
  BY <1>1, ItemStays DEF QueueInv
<1>3. \A s \in Scenes, who \in Closers :
        closer'[s][who] = "posted" => closer[s][who] = "posted"
  <2>1. \A s \in Scenes, who \in Closers : NoItem # CloseItem(s, who)
    BY DEF NoItem, CloseItem
  <2> QED
    BY <2>1 DEF ItemsStay
<1> QED
  BY <1>2, <1>3 DEF QueueInv, CloseItem

LEMMA PostedQueue ==
    ASSUME Types, QueueInv, NEW q, Post(q), ItemsStay(q)
    PROVE  QueueInv'
<1>1. /\ Len(queue') = Len(queue) + 1 /\ Len(queue) \in Nat
      /\ queue'[Len(queue')] = q
      /\ \A i \in 1 .. Len(queue) : queue'[i] = queue[i] /\ queue[i] \in Items
  <2>1. q = [scene |-> q.scene, to |-> q.to, by |-> q.by] /\ q.scene \in Scenes /\ q.to \in States
        /\ q.by \in Closers \cup ByConnection \cup {"host", "hostLost"}
    BY DEF Post, Items
  <2>2. /\ queue' \in Seq(Items) /\ Len(queue') = Len(queue) + 1 /\ Len(queue) \in Nat
        /\ queue'[Len(queue')] = [scene |-> q.scene, to |-> q.to, by |-> q.by]
        /\ \A i \in 1 .. Len(queue) : queue'[i] = queue[i]
    BY <2>1, PostedLast DEF Post
  <2> QED
    BY <2>1, <2>2 DEF Types
<1>2. ASSUME NEW i \in 1 .. Len(queue') PROVE (i \in 1 .. Len(queue) /\ queue'[i] = queue[i]) \/
                                              (i = Len(queue) + 1 /\ queue'[i] = q)
  BY <1>1
<1>3. \A i \in 1 .. Len(queue) : ItemOf(queue[i])'
  BY <1>1, ItemStays DEF QueueInv
<1>4. \A i \in 1 .. Len(queue') : ItemOf(queue[i])'
  <2> SUFFICES ASSUME NEW i \in 1 .. Len(queue') PROVE ItemOf(queue[i])'
    OBVIOUS
  <2>1. ItemOf(q)'
    BY DEF Post
  <2> QED
    BY <1>2, <1>3, <2>1 DEF ItemOf
<1>5. \A i, j \in 1 .. Len(queue') :
        i # j /\ queue'[i].scene = queue'[j].scene /\ queue'[i].by = queue'[j].by =>
            queue'[i].by \in {"host", "hostLost"}
  BY <1>2 DEF QueueInv, Post
<1>6. ASSUME NEW s \in Scenes, NEW who \in Closers, closer'[s][who] = "posted"
      PROVE  \E i \in 1 .. Len(queue') : queue'[i] = CloseItem(s, who)
  <2>1. CASE q = CloseItem(s, who)
    BY <1>1, <2>1
  <2>2. CASE closer[s][who] = "posted"
    <3>1. PICK i \in 1 .. Len(queue) : queue[i] = CloseItem(s, who)
      BY <2>2 DEF QueueInv
    <3> QED
      BY <1>1, <3>1
  <2> QED
    BY <1>6, <2>1, <2>2 DEF ItemsStay
<1> QED
  BY <1>4, <1>5, <1>6 DEF QueueInv, CloseItem

(* The first item is run. *)
LEMMA RunPostedQueue ==
    ASSUME Types, QueueInv, RunPosted
    PROVE  QueueInv'
<1>1. \E p \in Items : \E s \in Scenes : Runs(p, s)
  BY RunPostedEffect
<1>2. PICK p \in Items, s \in Scenes : Runs(p, s)
  BY <1>1
<1>3. /\ Len(queue) \in Nat /\ Len(queue') \in Nat /\ Len(queue) = Len(queue') + 1 /\ p = queue[1]
      /\ \A i \in 1 .. Len(queue') : queue'[i] = queue[i + 1]
  BY <1>2, RunsFirst DEF Runs
<1>4. \A i \in 1 .. Len(queue') : i + 1 \in 1 .. Len(queue) /\ i + 1 # 1 /\ queue[i + 1] \in Items
  BY <1>3 DEF Types
<1>5. 1 \in 1 .. Len(queue) /\ s = p.scene /\ ItemOf(p)
  BY <1>2, <1>3 DEF Runs
<1>6. ASSUME NEW i \in 1 .. Len(queue') PROVE ItemOf(queue[i])'
  <2>1. PICK q \in Items : q = queue[i + 1] /\ ItemOf(q) /\ queue'[i] = q /\ q.scene \in Scenes
    BY <1>3, <1>4 DEF QueueInv, Items
  <2>2. q.scene = s /\ q.by = p.by => q.by \in {"host", "hostLost"}
    BY <1>3, <1>4, <1>5, <2>1 DEF QueueInv
  <2>3. /\ host' = host
        /\ \A t \in Scenes : t # s => pc'[t] = pc[t] /\ closer'[t] = closer[t]
        /\ pc'[s] = IF p.by = "connect" THEN "ready" ELSE IF p.by = "open" THEN "opened" ELSE pc[s]
        /\ \A w \in Closers : p.by # w => closer'[s][w] = closer[s][w]
    BY <1>2 DEF Runs, hostVars
  <2>4. ItemOf(q)'
    <3>1. CASE q.scene # s
      BY <2>1, <2>3, <3>1 DEF ItemOf
    <3>2. CASE q.scene = s
      BY <1>5, <2>1, <2>2, <2>3, <3>2 DEF ItemOf, Early, Closers
    <3> QED
      BY <3>1, <3>2
  <2> QED
    BY <2>1, <2>4 DEF ItemOf
<1>7. \A i, j \in 1 .. Len(queue') :
        i # j /\ queue'[i].scene = queue'[j].scene /\ queue'[i].by = queue'[j].by =>
            queue'[i].by \in {"host", "hostLost"}
  <2> SUFFICES ASSUME NEW i \in 1 .. Len(queue'), NEW j \in 1 .. Len(queue'), i # j,
                      queue[i + 1].scene = queue[j + 1].scene, queue[i + 1].by = queue[j + 1].by
               PROVE  queue[i + 1].by \in {"host", "hostLost"}
    BY <1>3
  <2>1. i + 1 \in 1 .. Len(queue) /\ j + 1 \in 1 .. Len(queue) /\ i + 1 # j + 1
    BY <1>4
  <2> QED
    BY <2>1 DEF QueueInv
<1>8. ASSUME NEW t \in Scenes, NEW who \in Closers, closer'[t][who] = "posted"
      PROVE  \E i \in 1 .. Len(queue') : queue'[i] = CloseItem(t, who)
  <2>1. closer[t][who] = "posted" /\ (t # s \/ p.by # who)
    BY <1>2, <1>8 DEF Runs
  <2>2. PICK i \in 1 .. Len(queue) : queue[i] = CloseItem(t, who)
    BY <2>1 DEF QueueInv
  <2>3. i # 1
    BY <1>3, <1>5, <2>1, <2>2 DEF CloseItem
  <2>4. i - 1 \in 1 .. Len(queue') /\ (i - 1) + 1 = i
    BY <1>3, <2>3
  <2> QED
    BY <1>3, <2>2, <2>4
<1> QED
  BY <1>6, <1>7, <1>8 DEF QueueInv, CloseItem
-----------------------------------------------------------------------------
LEMMA ConnectionQueue ==
    ASSUME Base, NEW s \in Scenes, Ask(s) \/ ConnectStep(s) \/ CancelByCaller(s)
    PROVE  QueueInv'
<1> USE DEF Base
<1>1. CASE Ask(s)
  <2>1. ItemsStay(NoItem) /\ UNCHANGED queue
    BY <1>1 DEF Ask, Types, ItemsStay, Early, sceneVars, hostVars
  <2> QED
    BY <2>1, QuietQueue
<1>2. CASE \/ CreateScene(s) \/ FactoryFails(s) \/ (Connect(s) /\ s \in userCts)
           \/ SendConnect(s) \/ SendConnectFails(s) \/ ConnectRefused(s)
           \/ Attach(s) \/ Forget(s) \/ CancelByCaller(s)
  <2>1. UNCHANGED <<queue, host, closer>>
    BY <1>2 DEF CreateScene, FactoryFails, Connect, SendConnect, SendConnectFails, ConnectRefused,
                Attach, Forget, CancelByCaller, sceneVars, hostVars
  <2>2. \E to \in {"created", "failed", "requested", "attached", "gone"} :
          pc' = [pc EXCEPT ![s] = to] \/ pc' = pc
    BY <1>2 DEF CreateScene, FactoryFails, Connect, SendConnect, SendConnectFails, ConnectRefused,
                Attach, Forget, CancelByCaller, CancelRequest
  <2>3. pc[s] \notin {"connecting", "opening"} \/ pc' = pc
    BY <1>2 DEF CreateScene, FactoryFails, Connect, SendConnect, SendConnectFails, ConnectRefused,
                Attach, Forget, CancelByCaller, CancelRequest
  <2>4. pc'[s] = "created" => pc[s] \in Early
    BY <1>2, <2>2 DEF CreateScene, FactoryFails, Connect, SendConnect, SendConnectFails,
                ConnectRefused, Attach, Forget, CancelByCaller, CancelRequest, Types, Early
  <2>5. ItemsStay(NoItem)
    BY <2>1, <2>2, <2>3, <2>4 DEF ItemsStay, Types, Early
  <2> QED
    BY <2>1, <2>5, QuietQueue
<1>3. CASE Connect(s) /\ s \notin userCts
  <2>1. PICK q : q = [scene |-> s, to |-> "Connecting", by |-> "connect"]
    OBVIOUS
  <2>2. /\ pc[s] = "created" /\ pc' = [pc EXCEPT ![s] = "connecting"]
        /\ queue' = Posted(s, "Connecting", "connect")
        /\ UNCHANGED <<host, closer>>
    BY <1>3 DEF Connect, hostVars
  <2>3. ItemsStay(q)
    BY <2>2 DEF ItemsStay, Types, Early
  <2>4. \A i \in 1 .. Len(queue) : queue[i].scene = s => queue[i].by # "connect"
    BY <2>2 DEF QueueInv, ItemOf, Closers
  <2>5. Post(q)
    BY <2>1, <2>2, <2>4 DEF Post, Items, ItemOf, Types, States, ByConnection
  <2> QED
    BY <2>3, <2>5, PostedQueue
<1>4. CASE OpenScene(s)
  <2>1. PICK q : q = [scene |-> s, to |-> "Connected", by |-> "open"]
    OBVIOUS
  <2>2. /\ pc[s] = "requested" /\ pc' = [pc EXCEPT ![s] = "opening"]
        /\ queue' = Posted(s, "Connected", "open")
        /\ UNCHANGED <<host, closer>>
    BY <1>4 DEF OpenScene, hostVars
  <2>3. ItemsStay(q)
    BY <2>2 DEF ItemsStay, Types, Early
  <2>4. \A i \in 1 .. Len(queue) : queue[i].scene = s => queue[i].by # "open"
    BY <2>2 DEF QueueInv, ItemOf, Closers
  <2>5. Post(q)
    BY <2>1, <2>2, <2>4 DEF Post, Items, ItemOf, Types, States, ByConnection
  <2> QED
    BY <2>3, <2>5, PostedQueue
<1> QED
  BY <1>1, <1>2, <1>3, <1>4 DEF ConnectStep

(* A state change that the loss of the host posts. *)
LEMMA HostPosts ==
    ASSUME Base, NEW s \in Scenes, pc[s] \notin Early, host # "Connected",
           NEW to \in Ending, NEW by \in {"host", "hostLost"}, queue' = Posted(s, to, by),
           UNCHANGED <<pc, host, closer>>
    PROVE  QueueInv'
<1>1. PICK q : q = [scene |-> s, to |-> to, by |-> by]
  OBVIOUS
<1>2. ItemsStay(q)
  BY DEF ItemsStay
<1>3. Post(q)
  BY <1>1 DEF Post, Items, ItemOf, States, Ending
<1> QED
  BY <1>2, <1>3, PostedQueue DEF Base

LEMMA HostQueue ==
    ASSUME Base, NEW s \in Scenes, HostStep(s)
    PROVE  QueueInv'
<1>1. SceneInv(s) /\ host \in {"Connected", "Disconnecting", "Disconnected"}
  BY DEF Base, Types
<1>2. UNCHANGED <<pc, host, closer>>
  BY DEF HostStep, SeeHostDisconnecting, SeeHostDisconnected, FollowUp, hostVars
<1>3. CASE UNCHANGED queue
  <2>1. ItemsStay(NoItem)
    BY <1>2 DEF ItemsStay
  <2> QED
    BY <1>3, <2>1, QuietQueue DEF Base
<1>4. CASE SeeHostDisconnecting(s) /\ ~UNCHANGED queue
  <2>1. queue' = Posted(s, "Disconnecting", "host") /\ state[s] \notin {"Disconnecting", "Disconnected"}
        /\ host # "Connected"
    BY <1>4 DEF SeeHostDisconnecting
  <2>2. pc[s] \notin Early
    BY <1>1, <2>1 DEF SceneInv, StateFollows
  <2> QED
    BY <1>2, <2>1, <2>2, HostPosts DEF Ending
<1>5. CASE SeeHostDisconnected(s) /\ ~UNCHANGED queue
  <2>1. queue' = Posted(s, "Disconnecting", "hostLost") /\ state[s] # "Disconnected"
        /\ host # "Connected"
    BY <1>5 DEF SeeHostDisconnected
  <2>2. pc[s] \notin Early
    BY <1>1, <2>1 DEF SceneInv, StateFollows
  <2> QED
    BY <1>2, <2>1, <2>2, HostPosts DEF Ending
<1>6. CASE FollowUp(s)
  <2>1. queue' = Posted(s, "Disconnected", "host") /\ s \in followUp
    BY <1>6 DEF FollowUp
  <2>2. pc[s] \notin Early /\ host # "Connected"
    BY <1>1, <2>1 DEF SceneInv, StateFollows, EndedByCloser
  <2> QED
    BY <1>2, <2>1, <2>2, HostPosts DEF Ending
<1> QED
  BY <1>3, <1>4, <1>5, <1>6 DEF HostStep

(* The end of a Connected scene is posted. *)
LEMMA StartClosingQueue ==
    ASSUME Base, NEW s \in Scenes, NEW who \in Closers, StartClosing(s, who),
           closer[s][who] = "no", UNCHANGED <<pc, host>>
    PROVE  QueueInv'
<1>1. CASE state[s] = "Connected"
  <2>1. PICK q : q = CloseItem(s, who)
    OBVIOUS
  <2>2. /\ closer' = [closer EXCEPT ![s][who] = "posted"]
        /\ queue' = Posted(s, "Disconnecting", who)
    BY <1>1 DEF StartClosing
  <2>3. \A t \in Scenes, w \in Closers :
          closer'[t][w] = IF t = s /\ w = who THEN "posted" ELSE closer[t][w]
    BY <2>2 DEF Base, Types
  <2>4. ItemsStay(q)
    BY <2>1, <2>3 DEF ItemsStay, CloseItem
  <2>5. \A i \in 1 .. Len(queue) : queue[i].scene = s => queue[i].by # who
    BY DEF Base, QueueInv, ItemOf, Closers
  <2>6. Post(q)
    BY <2>1, <2>2, <2>3, <2>5 DEF Post, Items, ItemOf, CloseItem, States
  <2> QED
    BY <2>4, <2>6, PostedQueue DEF Base
<1>2. CASE state[s] # "Connected"
  <2>1. UNCHANGED <<closer, queue>>
    BY <1>2 DEF StartClosing
  <2>2. ItemsStay(NoItem)
    BY <2>1 DEF ItemsStay
  <2> QED
    BY <2>1, <2>2, QuietQueue DEF Base
<1> QED
  BY <1>1, <1>2

LEMMA ClosingQueue ==
    ASSUME Base, NEW s \in Scenes,
           Disconnect(s) \/ DisconnectStep(s) \/ CloserStep(s) \/ ServerStep(s)
    PROVE  QueueInv'
<1>1. CASE CallClient(s)
  <2>1. leaving[s] = "calling" /\ StartClosing(s, "scene") /\ UNCHANGED <<pc, host>>
    BY <1>1 DEF CallClient, hostVars
  <2>2. closer[s]["scene"] = "no"
    BY <2>1 DEF Base, SceneInv, ClosesOnce
  <2> QED
    BY <2>1, <2>2, StartClosingQueue DEF Closers
<1>2. CASE Disconnect(s) \/ ConnectTaskEnded(s) \/ ServerStep(s)
  <2>1. UNCHANGED <<queue, host, closer>>
    BY <1>2 DEF Disconnect, ConnectTaskEnded, ServerStep, ServerAccepts, ServerRefuses,
                ServerReleases, sceneVars, hostVars
  <2>2. pc' = pc \/ (pc[s] = "requested" /\ pc' = [pc EXCEPT ![s] = "failed"])
    BY <1>2 DEF Disconnect, CancelRequest, ConnectTaskEnded, ServerStep, ServerAccepts,
                ServerRefuses, ServerReleases
  <2>3. ItemsStay(NoItem)
    BY <2>1, <2>2 DEF ItemsStay, Base, Types, Early
  <2> QED
    BY <2>1, <2>3, QuietQueue DEF Base
<1>3. ASSUME NEW who \in Closers, LeaveServer(s, who) PROVE QueueInv'
  <2>1. UNCHANGED <<queue, host, pc>> /\ closer[s][who] = "ran"
        /\ closer' = [closer EXCEPT ![s][who] = "asked"]
    BY <1>3 DEF LeaveServer, sceneVars, hostVars
  <2>2. ItemsStay(NoItem)
    BY <2>1 DEF ItemsStay, Base, Types
  <2> QED
    BY <2>1, <2>2, QuietQueue DEF Base
<1>4. ASSUME NEW who \in Closers, EndClosing(s, who) PROVE QueueInv'
  <2>1. PICK q : q = [scene |-> s, to |-> "Disconnected", by |-> who]
    OBVIOUS
  <2>2. /\ closer[s][who] = "asked" /\ closer' = [closer EXCEPT ![s][who] = "ending"]
        /\ queue' = Posted(s, "Disconnected", who) /\ UNCHANGED <<host, pc>>
    BY <1>4 DEF EndClosing, hostVars
  <2>3. \A t \in Scenes, w \in Closers :
          closer'[t][w] = IF t = s /\ w = who THEN "ending" ELSE closer[t][w]
    BY <2>2 DEF Base, Types
  <2>4. ItemsStay(q)
    BY <2>2, <2>3 DEF ItemsStay
  <2>5. \A i \in 1 .. Len(queue) : queue[i].scene = s => queue[i].by # who
    BY <2>2 DEF Base, QueueInv, ItemOf, Closers
  <2>6. Post(q)
    BY <2>1, <2>2, <2>3, <2>5 DEF Post, Items, ItemOf, States
  <2> QED
    BY <2>4, <2>6, PostedQueue DEF Base
<1> QED
  BY <1>1, <1>2, <1>3, <1>4 DEF DisconnectStep, CloserStep

LEMMA ClientQueue ==
    ASSUME Base, DisconnectClient \/ ClientStep \/ CloseHost \/ HostDown
    PROVE  QueueInv'
<1>1. CASE DisconnectAllScenes
  <2>1. PICK s \in Scenes : s = toClose
    BY <1>1 DEF DisconnectAllScenes, Base, Types
  <2>2. clientClosing = "waiting" /\ UNCHANGED <<pc, host>>
    BY <1>1 DEF DisconnectAllScenes, hostVars
  <2>3. closer[s]["client"] = "no"
    BY <2>2 DEF Base, SceneInv, ClosesOnce
  <2>4. CASE UNCHANGED <<closer, queue>>
    <3>1. ItemsStay(NoItem)
      BY <2>2, <2>4 DEF ItemsStay
    <3> QED
      BY <2>4, <3>1, QuietQueue DEF Base
  <2>5. CASE StartClosing(s, "client")
    BY <2>2, <2>3, <2>5, StartClosingQueue DEF Closers
  <2> QED
    BY <1>1, <2>1, <2>4, <2>5 DEF DisconnectAllScenes
<1>2. CASE DisconnectClient \/ CloseAllConnections \/ CloseHost \/ HostDown
  <2>1. UNCHANGED <<queue, pc, closer>> /\ (host' = "Connected" => host = "Connected")
    BY <1>2 DEF DisconnectClient, CloseAllConnections, CloseHost, HostDown, sceneVars, hostVars
  <2>2. ItemsStay(NoItem)
    BY <2>1 DEF ItemsStay
  <2> QED
    BY <2>1, <2>2, QuietQueue DEF Base
<1> QED
  BY <1>1, <1>2 DEF ClientStep
-----------------------------------------------------------------------------
(* No scene gets a handle, and no handle is taken back. *)
HandlesStay ==
    /\ UNCHANGED <<handle, handles, server>>
    /\ host' = "Connected" => host = "Connected"
    /\ byes' \subseteq byes
    /\ \A s \in Scenes :
         /\ answers'[s] \in {answers[s], None, Refused}
         /\ \A who \in Closers :
              /\ closer[s][who] # "no" => closer'[s][who] # "no"
              /\ closer'[s][who] \in {"no", "posted", "ran"} => closer[s][who] \in {"no", "posted", "ran"}

LEMMA SpoiledStays ==
    ASSUME NEW h \in Handles, Spoiled(h),
           \A s \in Scenes : handle[s] # None => handle'[s] = handle[s],
           \A s \in Scenes, who \in Closers : closer[s][who] # "no" => closer'[s][who] # "no"
    PROVE  Spoiled(h)'
  BY NoneIsNoScene DEF Spoiled, ClosedTwice

LEMMA HandlesAreKept ==
    ASSUME HandleInv, HandlesStay
    PROVE  HandleInv'
<1> SUFFICES ASSUME host' = "Connected", NEW s \in Scenes, NEW h \in Handles, ~Spoiled(h)'
             PROVE  /\ Has(s, h)' => server'[h] = s
                    /\ (/\ handle'[s] = h
                        /\ \A who \in Closers : closer'[s][who] \in {"no", "posted", "ran"}) =>
                           handles'[h] = s
  BY DEF HandleInv
<1>1. host = "Connected" /\ ~Spoiled(h)
  BY SpoiledStays DEF HandlesStay
<1>2. Has(s, h)' => Has(s, h)
  BY NoneIsNoScene, RefusedIsNoHandle DEF Has, HandlesStay
<1> QED
  BY <1>1, <1>2 DEF HandleInv, HandlesStay

(* The steps of a scene and of the client that give and take none. *)
LEMMA ConnectionHandles ==
    ASSUME Base, HandleInv, NEW s \in Scenes, Ask(s) \/ ConnectStep(s) \/ CancelByCaller(s)
    PROVE  HandleInv'
<1>1. CASE ~OpenScene(s)
  <2>1. UNCHANGED <<handle, handles, server, host, byes, closer>>
    BY <1>1 DEF Ask, ConnectStep, CancelByCaller, CreateScene, FactoryFails, Connect, SendConnect,
                SendConnectFails, ConnectRefused, Attach, Forget, hostVars, serverVars
  <2>2. answers' = answers \/ answers' = [answers EXCEPT ![s] = None]
    BY <1>1 DEF Ask, ConnectStep, CancelByCaller, CancelRequest, CreateScene, FactoryFails, Connect,
                SendConnect, SendConnectFails, ConnectRefused, Attach, Forget, serverVars
  <2>3. HandlesStay
    BY <2>1, <2>2 DEF HandlesStay, Base, Types
  <2> QED
    BY <2>3, HandlesAreKept
<1>2. CASE OpenScene(s)
  <2>1. PICK k \in Handles : k = answers[s]
    BY <1>2 DEF OpenScene
  <2>2. /\ pc[s] = "requested" /\ answers' = [answers EXCEPT ![s] = None]
        /\ handle' = [handle EXCEPT ![s] = k] /\ handles' = [handles EXCEPT ![k] = s]
        /\ UNCHANGED <<server, host, byes, closer>>
    BY <1>2, <2>1 DEF OpenScene, hostVars
  <2>3. handle[s] = None /\ Unclosed(s) /\ \A who \in Closers : <<s, who>> \notin byes
    BY <2>2 DEF Base, SceneInv, HandleComesWithAnswer, ClosedWhenConnected, Unclosed, Opened
  <2>4. /\ \A t \in Scenes : t # s => answers'[t] = answers[t] /\ handle'[t] = handle[t]
        /\ answers'[s] = None /\ handle'[s] = k
        /\ \A h \in Handles : handles'[h] = IF h = k THEN s ELSE handles[h]
    BY <2>2 DEF Base, Types
  <2> SUFFICES ASSUME host = "Connected", NEW t \in Scenes, NEW h \in Handles, ~Spoiled(h)'
               PROVE  /\ Has(t, h)' => server[h] = t
                      /\ (/\ handle'[t] = h
                          /\ \A who \in Closers : closer[t][who] \in {"no", "posted", "ran"}) =>
                             handles'[h] = t
    BY <2>2 DEF HandleInv
  <2>5. ~Spoiled(h)
    BY <2>2, <2>3, <2>4, SpoiledStays
  <2>6. Has(t, h)' => Has(t, h)
    BY <2>1, <2>2, <2>4, NoneIsNoScene DEF Has
  <2>7. Has(t, h) => server[h] = t
    BY <2>5 DEF HandleInv
  <2>8. Has(s, k)
    BY <2>1 DEF Has
  <2>9. h = k => server[h] = s
    BY <2>5, <2>8 DEF HandleInv
  <2>10. ASSUME handle'[t] = h, \A who \in Closers : closer[t][who] \in {"no", "posted", "ran"}
         PROVE  handles'[h] = t
    <3>1. Has(t, h)'
      BY <2>2, <2>10 DEF Has
    <3>2. CASE h = k
      BY <2>4, <2>6, <2>7, <2>9, <3>1, <3>2
    <3>3. CASE h # k
      BY <2>4, <2>5, <2>10, <3>3 DEF HandleInv
    <3> QED
      BY <3>2, <3>3
  <2> QED
    BY <2>6, <2>7, <2>10
<1> QED
  BY <1>1, <1>2

LEMMA HostHandles ==
    ASSUME Base, HandleInv, CloseHost \/ HostDown \/ DisconnectClient \/ \E s \in Scenes : HostStep(s)
    PROVE  HandleInv'
<1>1. /\ UNCHANGED <<handle, handles, server, closer>>
      /\ host' = "Connected" => UNCHANGED <<host, byes, answers>>
  BY DEF CloseHost, HostDown, DisconnectClient, HostStep, SeeHostDisconnecting, SeeHostDisconnected,
         FollowUp, hostVars, serverVars
<1>2. CASE host' = "Connected"
  <2>1. HandlesStay
    BY <1>1, <1>2 DEF HandlesStay
  <2> QED
    BY <2>1, HandlesAreKept
<1>3. CASE host' # "Connected"
  BY <1>3 DEF HandleInv
<1> QED
  BY <1>2, <1>3

LEMMA StartClosingHandles ==
    ASSUME Base, HandleInv, NEW s \in Scenes, NEW who \in Closers, StartClosing(s, who),
           UNCHANGED <<handle, handles, server, byes, answers, host>>
    PROVE  HandleInv'
<1>1. closer' = closer \/ (closer' = [closer EXCEPT ![s][who] = "posted"] /\ state[s] = "Connected")
  BY DEF StartClosing
<1>2. state[s] = "Connected" => closer[s][who] \in {"no", "posted"}
  <2>1. SceneInv(s) /\ closer[s][who] \in {"no", "posted", "ran", "asked", "ending", "done"}
    BY DEF Base, Types
  <2> QED
    BY <2>1 DEF SceneInv, ClosedWhenConnected, Ending
<1>3. CASE closer' = closer
  <2>1. HandlesStay
    BY <1>3 DEF HandlesStay
  <2> QED
    BY <2>1, HandlesAreKept
<1>4. CASE closer' = [closer EXCEPT ![s][who] = "posted"] /\ state[s] = "Connected"
  <2>1. \A t \in Scenes, w \in Closers :
          closer'[t][w] = IF t = s /\ w = who THEN "posted" ELSE closer[t][w]
    BY <1>4 DEF Base, Types
  <2>2. HandlesStay
    BY <1>2, <1>4, <2>1 DEF HandlesStay
  <2> QED
    BY <2>2, HandlesAreKept
<1> QED
  BY <1>1, <1>3, <1>4

LEMMA ClientHandles ==
    ASSUME Base, HandleInv, ClientStep
    PROVE  HandleInv'
<1>1. CASE DisconnectAllScenes
  <2>1. PICK s \in Scenes : s = toClose
    BY <1>1 DEF DisconnectAllScenes, Base, Types
  <2>2. UNCHANGED <<handle, handles, server, byes, answers, host>>
    BY <1>1 DEF DisconnectAllScenes, hostVars, serverVars
  <2>3. CASE UNCHANGED closer
    <3>1. HandlesStay
      BY <2>2, <2>3 DEF HandlesStay
    <3> QED
      BY <3>1, HandlesAreKept
  <2>4. CASE StartClosing(s, "client")
    BY <2>2, <2>4, StartClosingHandles DEF Closers
  <2> QED
    BY <1>1, <2>1, <2>3, <2>4 DEF DisconnectAllScenes
<1>2. CASE CloseAllConnections
  <2>1. CASE host = "Connected"
    <3>1. host' # "Connected"
      BY <1>2, <2>1 DEF CloseAllConnections
    <3> QED
      BY <3>1 DEF HandleInv
  <2>2. CASE host # "Connected"
    <3>1. host' # "Connected"
      BY <1>2, <2>2 DEF CloseAllConnections
    <3> QED
      BY <3>1 DEF HandleInv
  <2> QED
    BY <2>1, <2>2
<1> QED
  BY <1>1, <1>2 DEF ClientStep

LEMMA RunPostedHandles ==
    ASSUME Base, HandleInv, RunPosted
    PROVE  HandleInv'
<1>1. \E p \in Items : \E s \in Scenes : Runs(p, s)
  BY RunPostedEffect DEF Base
<1>2. PICK p \in Items, s \in Scenes : Runs(p, s)
  BY <1>1
<1>3. UNCHANGED <<handle, handles, server, byes, answers, host>>
  BY <1>2 DEF Runs, hostVars, serverVars
<1>4. \A t \in Scenes, w \in Closers :
        \/ closer'[t][w] = closer[t][w]
        \/ closer[t][w] = "posted" /\ closer'[t][w] = "ran"
        \/ closer[t][w] = "ending" /\ closer'[t][w] = "done"
  BY <1>2 DEF Runs, ItemOf, Closers
<1>5. HandlesStay
  BY <1>3, <1>4 DEF HandlesStay
<1> QED
  BY <1>5, HandlesAreKept

(* A closer gives the handle up, on the client. *)
LEMMA LeaveServerHandles ==
    ASSUME Base, HandleInv, NEW d \in Scenes, NEW who \in Closers, LeaveServer(d, who)
    PROVE  HandleInv'
<1>1. /\ closer[d][who] = "ran" /\ closer' = [closer EXCEPT ![d][who] = "asked"]
      /\ UNCHANGED <<handle, server, answers, host>>
  BY DEF LeaveServer, hostVars
<1> SUFFICES ASSUME host = "Connected", NEW t \in Scenes, NEW h \in Handles, ~Spoiled(h)'
             PROVE  /\ Has(t, h)' => server[h] = t
                    /\ (/\ handle[t] = h
                        /\ \A w \in Closers : closer'[t][w] \in {"no", "posted", "ran"}) =>
                           handles'[h] = t
  BY <1>1 DEF HandleInv
<1>2. /\ handles' = [handles EXCEPT ![handle[d]] = None] /\ byes' \subseteq byes \cup {<<d, who>>}
  BY DEF LeaveServer
<1>3. \A u \in Scenes, w \in Closers :
        closer'[u][w] = IF u = d /\ w = who THEN "asked" ELSE closer[u][w]
  BY <1>1 DEF Base, Types
<1>4. ~Spoiled(h)
  BY <1>1, <1>3, SpoiledStays
<1>5. Has(t, h)' => Has(t, h)
  BY <1>1, <1>2, <1>3 DEF Has
<1>6. Has(t, h) => server[h] = t
  BY <1>4 DEF HandleInv
<1>7. ASSUME handle[t] = h, \A w \in Closers : closer'[t][w] \in {"no", "posted", "ran"}
      PROVE  handles'[h] = t
  <2>1. t # d
    BY <1>3, <1>7
  <2>2. Has(t, h) /\ handles[h] = t
    BY <1>3, <1>4, <1>7, <2>1 DEF Has, HandleInv
  <2>3. ASSUME handle[d] = h PROVE FALSE
    <3>1. \A w \in Closers : w # who => closer[d][w] = "no"
      BY <1>1, <1>4, <2>3 DEF Spoiled, ClosedTwice, Closers
    <3>2. Has(d, h)
      BY <1>1, <2>3, <3>1 DEF Has
    <3> QED
      BY <1>4, <2>1, <2>2, <3>2 DEF HandleInv
  <2> QED
    BY <1>2, <2>2, <2>3 DEF Base, Types
<1> QED
  BY <1>5, <1>6, <1>7

(* The server gives a handle, or takes one back. *)
LEMMA ServerHandles ==
    ASSUME Base, HandleInv, NEW d \in Scenes, ServerStep(d)
    PROVE  HandleInv'
<1>1. CASE ServerRefuses(d)
  <2>1. UNCHANGED <<handle, handles, server, host, byes, closer>>
    BY <1>1 DEF ServerRefuses, hostVars
  <2>2. HandlesStay
    BY <1>1, <2>1 DEF HandlesStay, ServerRefuses, Answer, Base, Types
  <2> QED
    BY <2>2, HandlesAreKept
<1>2. CASE ServerAccepts(d)
  <2>1. UNCHANGED <<handle, handles, host, byes, closer>>
    BY <1>2 DEF ServerAccepts, hostVars
  <2>2. PICK k \in Handles : /\ server[k] = None /\ server' = [server EXCEPT ![k] = d]
                             /\ \A t \in Scenes : answers'[t] = answers[t] \/ (t = d /\ answers'[t] = k)
    BY <1>2 DEF ServerAccepts, Answer, Base, Types
  <2> SUFFICES ASSUME host = "Connected", NEW t \in Scenes, NEW h \in Handles, ~Spoiled(h)'
               PROVE  /\ Has(t, h)' => server'[h] = t
                      /\ (/\ handle[t] = h
                          /\ \A w \in Closers : closer[t][w] \in {"no", "posted", "ran"}) =>
                             handles[h] = t
    BY <2>1 DEF HandleInv
  <2>3. ~Spoiled(h)
    BY <2>1, SpoiledStays
  <2>4. (handle[t] = h /\ \A w \in Closers : closer[t][w] \in {"no", "posted", "ran"}) => handles[h] = t
    BY <2>3 DEF HandleInv
  <2>5. Has(t, h) => server[h] = t
    BY <2>3 DEF HandleInv
  <2>6. Has(t, h)' => Has(t, h) \/ (t = d /\ h = k)
    BY <2>1, <2>2 DEF Has
  <2>7. server'[h] = IF h = k THEN d ELSE server[h]
    BY <2>2 DEF Base, Types
  <2> QED
    BY <2>2, <2>4, <2>5, <2>6, <2>7, NoneIsNoScene
<1>3. ASSUME NEW who \in Closers, ServerReleases(d, who) PROVE HandleInv'
  <2>1. /\ <<d, who>> \in byes /\ byes' = byes \ {<<d, who>>}
        /\ server' = [server EXCEPT ![handle[d]] = None]
        /\ UNCHANGED <<handle, handles, host, answers, closer>>
    BY <1>3 DEF ServerReleases, hostVars
  <2> SUFFICES ASSUME host = "Connected", NEW t \in Scenes, NEW h \in Handles, ~Spoiled(h)'
               PROVE  /\ Has(t, h)' => server'[h] = t
                      /\ (/\ handle[t] = h
                          /\ \A w \in Closers : closer[t][w] \in {"no", "posted", "ran"}) =>
                             handles[h] = t
    BY <2>1 DEF HandleInv
  <2>2. ~Spoiled(h)
    BY <2>1, SpoiledStays
  <2>3. (handle[t] = h /\ \A w \in Closers : closer[t][w] \in {"no", "posted", "ran"}) => handles[h] = t
    BY <2>2 DEF HandleInv
  <2>4. closer[d][who] \in {"asked", "ending", "done"} /\ answers[d] = None
    BY <2>1 DEF Base, SceneInv, ClosedWhenConnected, HandleComesWithAnswer, Opened
  <2>5. ASSUME Has(t, h)' PROVE server'[h] = t
    <3>1. Has(t, h) /\ server[h] = t
      BY <2>1, <2>2, <2>5 DEF Has, HandleInv
    <3>2. ASSUME handle[d] = h PROVE FALSE
      <4>1. \A w \in Closers : w # who => closer[d][w] = "no"
        BY <2>2, <2>4, <3>2 DEF Spoiled, ClosedTwice, Closers
      <4>2. Has(d, h)
        BY <2>1, <3>2, <4>1 DEF Has
      <4>3. t = d
        BY <2>2, <3>1, <4>2 DEF HandleInv
      <4> QED
        BY <2>1, <2>4, <2>5, <4>3, NoneIsNoScene DEF Has
    <3> QED
      BY <2>1, <3>1, <3>2 DEF Base, Types
  <2> QED
    BY <2>3, <2>5
<1> QED
  BY <1>1, <1>2, <1>3 DEF ServerStep

LEMMA ClosingHandles ==
    ASSUME Base, HandleInv, NEW s \in Scenes,
           Disconnect(s) \/ DisconnectStep(s) \/ CloserStep(s) \/ ServerStep(s)
    PROVE  HandleInv'
<1>1. CASE CallClient(s)
  BY <1>1, StartClosingHandles DEF CallClient, Closers, hostVars, serverVars
<1>2. CASE Disconnect(s) \/ ConnectTaskEnded(s)
  <2>1. UNCHANGED <<handle, handles, server, host, byes, closer>>
    BY <1>2 DEF Disconnect, ConnectTaskEnded, hostVars, serverVars
  <2>2. answers' = answers \/ answers' = [answers EXCEPT ![s] = None]
    BY <1>2 DEF Disconnect, CancelRequest, ConnectTaskEnded, serverVars
  <2>3. HandlesStay
    BY <2>1, <2>2 DEF HandlesStay, Base, Types
  <2> QED
    BY <2>3, HandlesAreKept
<1>3. ASSUME NEW who \in Closers, EndClosing(s, who) PROVE HandleInv'
  <2>1. /\ closer[s][who] = "asked" /\ closer' = [closer EXCEPT ![s][who] = "ending"]
        /\ UNCHANGED <<handle, handles, server, host, byes, answers>>
    BY <1>3 DEF EndClosing, hostVars, serverVars
  <2>2. HandlesStay
    BY <2>1 DEF HandlesStay, Base, Types
  <2> QED
    BY <2>2, HandlesAreKept
<1> QED
  BY <1>1, <1>2, <1>3, LeaveServerHandles, ServerHandles DEF DisconnectStep, CloserStep
-----------------------------------------------------------------------------
(* What leaves the entry to whom it belongs: nobody comes into the uri, no *)
(* end is posted, and what is posted comes last.                           *)
EntryStays ==
    /\ UNCHANGED <<entry, evicted, state>> /\ userCts \subseteq userCts'
    /\ \A t \in Scenes :
         \/ pc'[t] = pc[t] \/ pc'[t] \in {"failed", "gone"}
         \/ pc[t] = "asked" /\ pc'[t] = "created"
         \/ pc[t] \in {"ready", "requested", "opening", "opened"}
    /\ \A t \in Scenes, who \in Closers :
         /\ closer'[t][who] = "posted" => closer[t][who] = "posted"
         /\ closer'[t][who] = "no" => closer[t][who] = "no"

QueueGrows ==
    /\ Len(queue) \in Nat
    /\ \A i \in 1 .. Len(queue') :
         \/ i \in 1 .. Len(queue) /\ queue'[i] = queue[i]
         \/ /\ i = Len(queue) + 1
            /\ ~(queue'[i].to = "Disconnecting" /\ queue'[i].by \in Closers)

LEMMA EntryIsKept ==
    ASSUME EntryInv, EntryStays, QueueGrows
    PROVE  EntryInv'
<1>1. ASSUME NEW t \in Scenes, Owns(t)' PROVE Owns(t)
  BY <1>1 DEF Owns, Tainted, Unclosed, EntryStays
<1>2. ASSUME NEW t \in Scenes, Owns(t)', Ended(t) PROVE Ended(t)'
  BY <1>2 DEF Owns, Ended, EntryStays
<1>3. ASSUME NEW t \in Scenes PROVE EntryOf(t)'
  BY <1>1, <1>2 DEF EntryInv, EntryOf, EntryStays
<1>4. ASSUME NEW t \in Scenes PROVE BehindOf(t)'
  <2> SUFFICES ASSUME NEW s \in Scenes, NEW who \in Closers, closer'[s][who] = "posted", t # s, Owns(t)'
               PROVE  Behind(t, s, who)'
    BY DEF BehindOf
  <2>1. Behind(t, s, who)
    BY <1>1 DEF EntryInv, BehindOf, EntryStays
  <2>2. pc'[t] \notin {"failed", "gone"}
    BY DEF Owns
  <2>3. CASE pc[t] \in {"asked", "created"}
    BY <2>2, <2>3 DEF EntryStays, Behind
  <2>4. CASE Ended(t)
    BY <1>2, <2>4 DEF Behind
  <2>5. CASE pc[t] = "connecting" /\ \A i, j \in 1 .. Len(queue) :
               queue[i] = CloseItem(s, who) /\ queue[j].scene = t => i < j
    <3>1. pc'[t] = "connecting"
      BY <2>2, <2>5 DEF EntryStays
    <3>2. ASSUME NEW i \in 1 .. Len(queue'), NEW j \in 1 .. Len(queue'),
                 queue'[i] = CloseItem(s, who), queue'[j].scene = t
          PROVE  i < j
      <4>1. i \in 1 .. Len(queue) /\ queue'[i] = queue[i]
        BY <3>2 DEF QueueGrows, CloseItem
      <4>2. CASE j \in 1 .. Len(queue) /\ queue'[j] = queue[j]
        BY <2>5, <3>2, <4>1, <4>2
      <4>3. CASE j = Len(queue) + 1
        BY <4>1, <4>3 DEF QueueGrows
      <4> QED
        BY <4>2, <4>3 DEF QueueGrows
    <3> QED
      BY <3>1, <3>2 DEF Behind, CloseItem
  <2> QED
    BY <2>1, <2>3, <2>4, <2>5 DEF Behind
<1>5. OneIsClosed'
  BY DEF EntryInv, OneIsClosed, EntryStays, Tainted
<1> QED
  BY <1>3, <1>4, <1>5 DEF EntryInv

LEMMA QueueStays ==
    ASSUME Types, UNCHANGED queue
    PROVE  QueueGrows
  BY LenProperties DEF Types, QueueGrows

LEMMA QueueGrowsBy ==
    ASSUME Types, NEW s \in Scenes, NEW to \in States,
           NEW by \in Closers \cup ByConnection \cup {"host", "hostLost"},
           queue' = Posted(s, to, by), to # "Disconnecting" \/ by \notin Closers
    PROVE  QueueGrows
<1>1. /\ Len(queue') = Len(queue) + 1 /\ Len(queue) \in Nat
      /\ queue'[Len(queue')] = [scene |-> s, to |-> to, by |-> by]
      /\ \A i \in 1 .. Len(queue) : queue'[i] = queue[i]
  BY PostedLast
<1>2. \A i \in 1 .. Len(queue') : i \in 1 .. Len(queue) \/ i = Len(queue) + 1
  BY <1>1
<1> QED
  BY <1>1, <1>2 DEF QueueGrows

(* The entry is erased on account of s: who still owns one has ended. *)
LEMMA Evicted ==
    ASSUME EntryInv, NEW s \in Scenes, evicted' = evicted \cup ({entry} \ {s, None}),
           UNCHANGED userCts, NEW t \in Scenes \ {s}, t \notin Tainted', Owns(t)
    PROVE  Ended(t)
  BY NoneIsNoScene DEF EntryInv, EntryOf, Tainted

LEMMA AskEntry ==
    ASSUME Base, EntryInv, NEW s \in Scenes, Ask(s)
    PROVE  EntryInv'
<1>1. /\ entry = None /\ entry' = s /\ pc' = [pc EXCEPT ![s] = "asked"]
      /\ UNCHANGED <<evicted, userCts, state, closer, queue>>
  BY DEF Ask, sceneVars
<1>2. \A t \in Scenes : pc'[t] = IF t = s THEN "asked" ELSE pc[t]
  BY <1>1 DEF Base, Types
<1>3. ASSUME NEW t \in Scenes \ {s} PROVE (Owns(t)' <=> Owns(t)) /\ (Ended(t)' <=> Ended(t))
  BY <1>1, <1>2 DEF Owns, Ended, Tainted, Unclosed
<1>4. ASSUME NEW t \in Scenes PROVE EntryOf(t)' /\ BehindOf(t)'
  <2>1. CASE t = s
    BY <1>1, <1>2, <2>1 DEF EntryOf, BehindOf, Behind
  <2>2. CASE t # s
    <3>1. EntryOf(t)'
      BY <1>1, <1>3, <2>2, NoneIsNoScene DEF EntryInv, EntryOf
    <3>2. BehindOf(t)'
      BY <1>1, <1>2, <1>3, <2>2 DEF EntryInv, BehindOf, Behind, CloseItem
    <3> QED
      BY <3>1, <3>2
  <2> QED
    BY <2>1, <2>2
<1> QED
  BY <1>1, <1>4 DEF EntryInv, OneIsClosed, Tainted

(* Connecting is posted after the end of every other scene of the uri. *)
LEMMA ConnectEntry ==
    ASSUME Base, EntryInv, NEW s \in Scenes, Connect(s), s \notin userCts
    PROVE  EntryInv'
<1>1. /\ pc[s] = "created" /\ pc' = [pc EXCEPT ![s] = "connecting"]
      /\ queue' = Posted(s, "Connecting", "connect")
      /\ UNCHANGED <<entry, evicted, userCts, state, closer>>
  BY DEF Connect, clientVars
<1>2. \A t \in Scenes : pc'[t] = IF t = s THEN "connecting" ELSE pc[t]
  BY <1>1 DEF Base, Types
<1>3. ASSUME NEW t \in Scenes PROVE (Owns(t)' <=> Owns(t)) /\ (Ended(t)' <=> Ended(t))
  BY <1>1, <1>2 DEF Owns, Ended, Tainted, Unclosed
<1>4. /\ Len(queue) \in Nat
      /\ \A i \in 1 .. Len(queue') : \/ i \in 1 .. Len(queue) /\ queue'[i] = queue[i]
                                     \/ i = Len(queue) + 1 /\ queue'[i].scene = s
  <2>1. /\ Len(queue') = Len(queue) + 1 /\ Len(queue) \in Nat
        /\ queue'[Len(queue')] = [scene |-> s, to |-> "Connecting", by |-> "connect"]
        /\ \A i \in 1 .. Len(queue) : queue'[i] = queue[i]
    BY <1>1, PostedLast DEF Base, States, ByConnection
  <2>2. \A i \in 1 .. Len(queue') : i \in 1 .. Len(queue) \/ i = Len(queue) + 1
    BY <2>1
  <2> QED
    BY <2>1, <2>2
<1>5. ASSUME Owns(s), NEW j \in 1 .. Len(queue) PROVE queue[j].scene # s
  <2>1. ItemOf(queue[j])
    BY DEF Base, QueueInv
  <2> QED
    BY <1>1, <1>5, <2>1 DEF ItemOf, Owns, Unclosed, Early
<1>6. ASSUME NEW t \in Scenes PROVE BehindOf(t)'
  <2> SUFFICES ASSUME NEW u \in Scenes, NEW who \in Closers, closer'[u][who] = "posted", t # u, Owns(t)'
               PROVE  Behind(t, u, who)'
    BY DEF BehindOf
  <2>1. Behind(t, u, who)
    BY <1>1, <1>3 DEF EntryInv, BehindOf
  <2>2. CASE pc[t] \in {"asked", "created"} /\ t # s
    BY <1>2, <2>2 DEF Behind
  <2>3. CASE Ended(t)
    BY <1>3, <2>3 DEF Behind
  <2>4. CASE t = s \/ (pc[t] = "connecting" /\ \A i, j \in 1 .. Len(queue) :
               queue[i] = CloseItem(u, who) /\ queue[j].scene = t => i < j)
    <3>1. pc'[t] = "connecting"
      BY <1>2, <2>4
    <3>2. ASSUME NEW i \in 1 .. Len(queue'), NEW j \in 1 .. Len(queue'),
                 queue'[i] = CloseItem(u, who), queue'[j].scene = t
          PROVE  i < j
      <4>1. CASE t # s
        <5>1. j \in 1 .. Len(queue) /\ queue'[j] = queue[j]
          BY <1>4, <3>2, <4>1
        <5>2. CASE i \in 1 .. Len(queue) /\ queue'[i] = queue[i]
          BY <2>4, <3>2, <4>1, <5>1, <5>2
        <5>3. CASE i = Len(queue) + 1 /\ queue'[i].scene = s
          <6>1. u = s
            BY <3>2, <5>3 DEF CloseItem
          <6>2. closer[s][who] # "no"
            BY <1>1, <6>1
          <6>3. FALSE
            BY <1>1, <6>2 DEF Base, SceneInv, ClosedWhenConnected, HandleComesWithAnswer, Opened
          <6> QED
            BY <6>3
        <5> QED
          BY <1>4, <5>2, <5>3
      <4>2. CASE t = s
        <5>1. j = Len(queue) + 1
          BY <1>3, <1>4, <1>5, <3>2, <4>2
        <5>2. i \in 1 .. Len(queue)
          BY <1>4, <3>2, <4>2 DEF CloseItem
        <5> QED
          BY <1>4, <5>1, <5>2
      <4> QED
        BY <4>1, <4>2
    <3> QED
      BY <3>1, <3>2 DEF Behind, CloseItem
  <2> QED
    BY <2>1, <2>2, <2>3, <2>4 DEF Behind
<1> QED
  BY <1>1, <1>3, <1>6 DEF EntryInv, EntryOf, OneIsClosed, Tainted
LEMMA ForgetEntry ==
    ASSUME Base, EntryInv, NEW s \in Scenes, Forget(s)
    PROVE  EntryInv'
<1>1. /\ pc' = [pc EXCEPT ![s] = "gone"] /\ evicted' = evicted \cup ({entry} \ {s, None})
      /\ UNCHANGED <<userCts, state, closer, queue>>
  BY DEF Forget, EraseEntry, sceneVars
<1>2. \A t \in Scenes : pc'[t] = IF t = s THEN "gone" ELSE pc[t]
  BY <1>1 DEF Base, Types
<1>3. ASSUME NEW t \in Scenes, Owns(t)' PROVE t # s /\ Owns(t) /\ t \notin Tainted'
  BY <1>1, <1>2, <1>3 DEF Owns, Tainted, Unclosed
<1>4. ASSUME NEW t \in Scenes, Owns(t)' PROVE Ended(t)'
  <2>1. Ended(t)
    BY <1>1, <1>3, <1>4, Evicted
  <2> QED
    BY <1>1, <1>2, <1>3, <1>4, <2>1 DEF Ended
<1>5. ASSUME NEW t \in Scenes PROVE EntryOf(t)' /\ BehindOf(t)'
  BY <1>4 DEF EntryOf, BehindOf, Behind
<1> QED
  BY <1>1, <1>5 DEF EntryInv, OneIsClosed, Tainted

LEMMA ConnectionEntry ==
    ASSUME Base, EntryInv, NEW s \in Scenes, Ask(s) \/ ConnectStep(s) \/ CancelByCaller(s)
    PROVE  EntryInv'
<1>1. CASE \/ CreateScene(s) \/ FactoryFails(s) \/ (Connect(s) /\ s \in userCts)
           \/ SendConnect(s) \/ SendConnectFails(s) \/ ConnectRefused(s)
           \/ Attach(s) \/ CancelByCaller(s)
  <2>1. UNCHANGED <<entry, evicted, state, closer, queue>> /\ userCts \subseteq userCts'
    BY <1>1 DEF CreateScene, FactoryFails, Connect, SendConnect, SendConnectFails, ConnectRefused,
                Attach, CancelByCaller, clientVars, sceneVars
  <2>2. \/ pc' = pc \/ pc' = [pc EXCEPT ![s] = "failed"]
        \/ (pc[s] = "asked" /\ pc' = [pc EXCEPT ![s] = "created"])
        \/ pc[s] \in {"ready", "requested", "opening", "opened"} /\ \A t \in Scenes \ {s} : pc'[t] = pc[t]
    BY <1>1 DEF CreateScene, FactoryFails, Connect, SendConnect, SendConnectFails, ConnectRefused,
                Attach, CancelByCaller, CancelRequest, Base, Types
  <2>3. EntryStays
    BY <2>1, <2>2 DEF EntryStays, Base, Types
  <2> QED
    BY <2>1, <2>3, EntryIsKept, QueueStays DEF Base
<1>2. CASE OpenScene(s)
  <2>1. /\ pc[s] = "requested" /\ pc' = [pc EXCEPT ![s] = "opening"]
        /\ queue' = Posted(s, "Connected", "open")
        /\ UNCHANGED <<entry, evicted, userCts, state, closer>>
    BY <1>2 DEF OpenScene, clientVars
  <2>2. EntryStays
    BY <2>1 DEF EntryStays, Base, Types
  <2>3. QueueGrows
    BY <2>1, QueueGrowsBy DEF Base, States, ByConnection
  <2> QED
    BY <2>2, <2>3, EntryIsKept
<1> QED
  BY <1>1, <1>2, AskEntry, ConnectEntry, ForgetEntry DEF ConnectStep

LEMMA HostEntry ==
    ASSUME Base, EntryInv, CloseHost \/ HostDown \/ DisconnectClient \/ \E s \in Scenes : HostStep(s)
    PROVE  EntryInv'
<1>1. UNCHANGED <<entry, evicted, userCts, pc, state, closer>>
  BY DEF CloseHost, HostDown, DisconnectClient, HostStep, SeeHostDisconnecting, SeeHostDisconnected,
         FollowUp, clientVars, sceneVars
<1>2. EntryStays
  BY <1>1 DEF EntryStays
<1>3. \/ UNCHANGED queue
      \/ \E s \in Scenes, to \in {"Disconnecting", "Disconnected"}, by \in {"host", "hostLost"} :
             queue' = Posted(s, to, by)
  BY DEF CloseHost, HostDown, DisconnectClient, HostStep, SeeHostDisconnecting, SeeHostDisconnected,
         FollowUp, sceneVars
<1>4. QueueGrows
  <2>1. CASE UNCHANGED queue
    BY <2>1, QueueStays DEF Base
  <2>2. ASSUME NEW s \in Scenes, NEW to \in {"Disconnecting", "Disconnected"},
               NEW by \in {"host", "hostLost"}, queue' = Posted(s, to, by)
        PROVE  QueueGrows
    BY <2>2, QueueGrowsBy DEF Base, States, Closers
  <2> QED
    BY <1>3, <2>1, <2>2
<1> QED
  BY <1>2, <1>4, EntryIsKept

(* A Connected scene is closed: its own entry goes, or that of another, and *)
(* there is no third one that owns it.                                      *)
LEMMA StartClosingEntry ==
    ASSUME Base, EntryInv, NEW s \in Scenes, NEW who \in Closers, StartClosing(s, who),
           UNCHANGED <<pc, userCts, state>>
    PROVE  EntryInv'
<1>1. CASE state[s] # "Connected"
  <2>1. UNCHANGED <<closer, entry, evicted, queue>>
    BY <1>1 DEF StartClosing
  <2>2. EntryStays
    BY <2>1 DEF EntryStays
  <2> QED
    BY <2>1, <2>2, EntryIsKept, QueueStays DEF Base
<1>2. CASE state[s] = "Connected"
  <2>1. /\ closer' = [closer EXCEPT ![s][who] = "posted"]
        /\ evicted' = evicted \cup ({entry} \ {s, None})
    BY <1>2 DEF StartClosing, EraseEntry
  <2>2. \A t \in Scenes, w \in Closers :
          closer'[t][w] = IF t = s /\ w = who THEN "posted" ELSE closer[t][w]
    BY <2>1 DEF Base, Types
  <2>3. ASSUME NEW t \in Scenes, Owns(t)' PROVE t # s /\ Owns(t) /\ t \notin Tainted'
    BY <2>1, <2>2, <2>3 DEF Owns, Tainted, Unclosed
  <2>4. ASSUME NEW t \in Scenes, Owns(t)' PROVE Ended(t)'
    <3>1. Ended(t)
      BY <2>1, <2>3, <2>4, Evicted
    <3> QED
      BY <3>1 DEF Ended
  <2>5. ASSUME NEW t \in Scenes PROVE EntryOf(t)' /\ BehindOf(t)'
    BY <2>4 DEF EntryOf, BehindOf, Behind
  <2>6. Tainted \subseteq Tainted'
    BY <2>1 DEF Tainted
  <2>7. ASSUME NEW u \in Scenes \ {s}, NEW w \in Closers, closer[u][w] = "posted"
        PROVE  {s, u} \cap Tainted' # {}
    <3>1. CASE Owns(s)
      <4>1. Behind(s, u, w)
        BY <2>7, <3>1 DEF EntryInv, BehindOf
      <4> QED
        BY <1>2, <4>1 DEF Behind, Ended, Ending, Base, SceneInv, StateFollows, Early
    <3>2. CASE ~Unclosed(s)
      <4>1. PICK v \in Closers : closer[s][v] # "no"
        BY <3>2 DEF Unclosed
      <4>2. closer[s][v] = "posted"
        <5>1. SceneInv(s) /\ closer[s][v] \in {"no", "posted", "ran", "asked", "ending", "done"}
          BY DEF Base, Types
        <5> QED
          BY <1>2, <4>1, <5>1 DEF SceneInv, ClosedWhenConnected, Ending
      <4> QED
        BY <2>6, <2>7, <4>2 DEF EntryInv, OneIsClosed
    <3>3. CASE s \in Tainted
      BY <2>6, <3>3
    <3>4. CASE pc[s] \in {"none", "failed", "gone"}
      <4>1. s \in userCts
        BY <1>2, <3>4 DEF Base, SceneInv, StateFollows, HandleComesWithAnswer, Opened, Early
      <4> QED
        BY <2>6, <4>1 DEF Tainted
    <3> QED
      BY <3>1, <3>2, <3>3, <3>4 DEF Owns
  <2>8. OneIsClosed'
    <3> SUFFICES ASSUME NEW t \in Scenes, NEW u \in Scenes, NEW v \in Closers, NEW w \in Closers,
                        closer'[t][v] = "posted", closer'[u][w] = "posted", t # u
                 PROVE  {t, u} \cap Tainted' # {}
      BY DEF OneIsClosed
    <3>1. CASE t = s
      BY <2>2, <2>7, <3>1
    <3>2. CASE u = s
      BY <2>2, <2>7, <3>2
    <3>3. CASE t # s /\ u # s
      BY <2>2, <2>6, <3>3 DEF EntryInv, OneIsClosed
    <3> QED
      BY <3>1, <3>2, <3>3
  <2> QED
    BY <2>5, <2>8 DEF EntryInv
<1> QED
  BY <1>1, <1>2

LEMMA ClosingEntry ==
    ASSUME Base, EntryInv, NEW s \in Scenes,
           Disconnect(s) \/ DisconnectStep(s) \/ CloserStep(s) \/ ServerStep(s)
    PROVE  EntryInv'
<1>1. CASE CallClient(s)
  <2>1. StartClosing(s, "scene") /\ UNCHANGED <<pc, userCts, state>>
    BY <1>1 DEF CallClient
  <2> QED
    BY <2>1, StartClosingEntry DEF Closers
<1>2. CASE Disconnect(s) \/ ConnectTaskEnded(s) \/ ServerStep(s)
  <2>1. UNCHANGED <<entry, evicted, userCts, state, closer, queue>>
    BY <1>2 DEF Disconnect, ConnectTaskEnded, ServerStep, ServerAccepts, ServerRefuses,
                ServerReleases, clientVars, sceneVars
  <2>2. pc' = pc \/ pc' = [pc EXCEPT ![s] = "failed"]
    BY <1>2 DEF Disconnect, CancelRequest, ConnectTaskEnded, ServerStep, ServerAccepts,
                ServerRefuses, ServerReleases
  <2>3. EntryStays
    BY <2>1, <2>2 DEF EntryStays, Base, Types
  <2> QED
    BY <2>1, <2>3, EntryIsKept, QueueStays DEF Base
<1>3. ASSUME NEW who \in Closers, LeaveServer(s, who) \/ EndClosing(s, who)
      PROVE  EntryInv'
  <2>1. /\ UNCHANGED <<entry, evicted, userCts, state, pc>>
        /\ \E to \in {"asked", "ending"} : closer' = [closer EXCEPT ![s][who] = to]
        /\ closer[s][who] \in {"ran", "asked"}
        /\ queue' = queue \/ queue' = Posted(s, "Disconnected", who)
    BY <1>3 DEF LeaveServer, EndClosing, clientVars, sceneVars
  <2>2. EntryStays
    BY <2>1 DEF EntryStays, Base, Types
  <2>3. QueueGrows
    BY <2>1, QueueStays, QueueGrowsBy DEF Base, States
  <2> QED
    BY <2>2, <2>3, EntryIsKept
<1> QED
  BY <1>1, <1>2, <1>3 DEF DisconnectStep, CloserStep

LEMMA ClientEntry ==
    ASSUME Base, EntryInv, ClientStep
    PROVE  EntryInv'
<1>1. CASE DisconnectAllScenes
  <2>1. PICK s \in Scenes : s = toClose
    BY <1>1 DEF DisconnectAllScenes, Base, Types
  <2>2. UNCHANGED <<pc, userCts, state>>
    BY <1>1 DEF DisconnectAllScenes
  <2>3. CASE UNCHANGED <<closer, entry, entryWatch, watching, evicted, queue>>
    <3>1. EntryStays
      BY <2>2, <2>3 DEF EntryStays
    <3> QED
      BY <2>3, <3>1, EntryIsKept, QueueStays DEF Base
  <2>4. CASE StartClosing(s, "client")
    BY <2>2, <2>4, StartClosingEntry DEF Closers
  <2> QED
    BY <1>1, <2>1, <2>3, <2>4 DEF DisconnectAllScenes
<1>2. CASE CloseAllConnections
  <2>1. UNCHANGED <<entry, evicted, userCts, state, pc, closer, queue>>
    BY <1>2 DEF CloseAllConnections, sceneVars
  <2>2. EntryStays
    BY <2>1 DEF EntryStays
  <2> QED
    BY <2>1, <2>2, EntryIsKept, QueueStays DEF Base
<1> QED
  BY <1>1, <1>2 DEF ClientStep
(* A change of state is run.  While Connecting of t is posted behind the   *)
(* end of another scene, it is not the first.                              *)
LEMMA RunPostedEntry ==
    ASSUME Base, EntryInv, RunPosted
    PROVE  EntryInv'
<1>1. \E p \in Items : \E s \in Scenes : Runs(p, s)
  BY RunPostedEffect DEF Base
<1>2. PICK p \in Items, s \in Scenes : Runs(p, s)
  BY <1>1
<1>3. /\ UNCHANGED userCts /\ s = p.scene /\ ItemOf(p) /\ p = queue[1]
      /\ \/ UNCHANGED <<entry, evicted>>
         \/ /\ p.to \in Ending /\ s \in watching /\ state'[s] = p.to
            /\ entry' = None /\ evicted' = evicted \cup ({entry} \ {s, None})
  BY <1>2 DEF Runs
<1>4. /\ \A t \in Scenes : t # s => pc'[t] = pc[t] /\ state'[t] = state[t]
      /\ pc'[s] = IF p.by = "connect" THEN "ready" ELSE IF p.by = "open" THEN "opened" ELSE pc[s]
      /\ state'[s] \in {state[s], p.to}
  BY <1>2 DEF Runs
<1>5. /\ p.by = "connect" => pc[s] = "connecting"
      /\ p.by = "open" => pc[s] = "opening"
      /\ p.by \notin {"connect", "open"} => p.to \in Ending
  BY <1>3 DEF ItemOf, Ending, Closers
<1>6. \A t \in Scenes, w \in Closers :
        /\ closer'[t][w] = "posted" => closer[t][w] = "posted"
        /\ closer'[t][w] = "no" => closer[t][w] = "no"
  BY <1>2 DEF Runs
<1>7. Tainted \subseteq Tainted'
  BY <1>3 DEF Tainted
<1>8. ASSUME NEW t \in Scenes, Owns(t)' PROVE Owns(t) /\ t \notin Tainted'
  BY <1>4, <1>5, <1>6, <1>7, <1>8 DEF Owns, Unclosed
<1>9. ASSUME NEW t \in Scenes, Ended(t) PROVE Ended(t)'
  BY <1>4, <1>5, <1>9 DEF Ended
<1>10. ASSUME NEW t \in Scenes PROVE EntryOf(t)'
  <2> SUFFICES ASSUME Owns(t)' PROVE entry' = t \/ Ended(t)'
    BY DEF EntryOf
  <2>1. CASE UNCHANGED entry
    BY <1>8, <1>9, <2>1 DEF EntryInv, EntryOf
  <2>2. CASE /\ p.to \in Ending /\ s \in watching /\ state'[s] = p.to
             /\ evicted' = evicted \cup ({entry} \ {s, None})
    <3>1. CASE t = s
      BY <1>4, <1>5, <2>2, <3>1 DEF Base, SceneInv, StateFollows, Ended
    <3>2. CASE t # s
      BY <1>3, <1>8, <1>9, <2>2, <3>2, Evicted
    <3> QED
      BY <3>1, <3>2
  <2> QED
    BY <1>3, <2>1, <2>2
<1>11. ASSUME NEW t \in Scenes PROVE BehindOf(t)'
  <2> SUFFICES ASSUME NEW u \in Scenes, NEW who \in Closers, closer'[u][who] = "posted", t # u, Owns(t)'
               PROVE  Behind(t, u, who)'
    BY DEF BehindOf
  <2>1. Behind(t, u, who) /\ closer[u][who] = "posted"
    BY <1>6, <1>8 DEF EntryInv, BehindOf
  <2>2. CASE pc[t] \in {"asked", "created"}
    BY <1>4, <1>5, <2>2 DEF Behind
  <2>3. CASE Ended(t)
    BY <1>9, <2>3 DEF Behind
  <2>4. CASE pc[t] = "connecting" /\ \A i, j \in 1 .. Len(queue) :
               queue[i] = CloseItem(u, who) /\ queue[j].scene = t => i < j
    <3>1. /\ Len(queue') \in Nat /\ Len(queue) = Len(queue') + 1
          /\ \A i \in 1 .. Len(queue') : queue'[i] = queue[i + 1]
      BY <1>2, RunsFirst DEF Runs, Base
    <3>2. t # s
      <4>1. PICK i \in 1 .. Len(queue) : queue[i] = CloseItem(u, who)
        BY <2>1 DEF Base, QueueInv
      <4>2. 1 \in 1 .. Len(queue) /\ ~(i < 1)
        BY <3>1
      <4> QED
        BY <1>3, <2>4, <4>1, <4>2
    <3>3. pc'[t] = "connecting"
      BY <1>4, <2>4, <3>2
    <3>4. ASSUME NEW i \in 1 .. Len(queue'), NEW j \in 1 .. Len(queue'),
                 queue'[i] = CloseItem(u, who), queue'[j].scene = t
          PROVE  i < j
      <4>1. i + 1 \in 1 .. Len(queue) /\ j + 1 \in 1 .. Len(queue)
        BY <3>1
      <4>2. queue[i + 1] = CloseItem(u, who) /\ queue[j + 1].scene = t
        BY <3>1, <3>4
      <4>3. i + 1 < j + 1
        BY <2>4, <4>1, <4>2
      <4> QED
        BY <3>1, <4>3
    <3> QED
      BY <3>3, <3>4 DEF Behind, CloseItem
  <2> QED
    BY <2>1, <2>2, <2>3, <2>4 DEF Behind
<1>12. OneIsClosed'
  BY <1>6, <1>7 DEF EntryInv, OneIsClosed
<1> QED
  BY <1>10, <1>11, <1>12 DEF EntryInv

-----------------------------------------------------------------------------
(* The invariant holds in every state. *)
LEMMA StartsRight ==
    ASSUME Init
    PROVE  IInv
<1> USE NoneIsNoScene DEF Init
<1>1. Types
  BY DEF Types, States
<1>2. \A s \in Scenes : SceneInv(s)
  BY DEF SceneInv, HandleComesWithAnswer, StateFollows, ClosedWhenConnected, ClosesOnce,
         EndedByCloser, Early, Opened, Ending, Closers
<1>3. QueueInv
  BY DEF QueueInv
<1>4. EntryInv
  BY DEF EntryInv, EntryOf, BehindOf, OneIsClosed, Owns
<1>5. HandleInv
  BY DEF HandleInv, Has
<1> QED
  BY <1>1, <1>2, <1>3, <1>4, <1>5 DEF IInv, Base

LEMMA StepKeeps ==
    ASSUME IInv, Next
    PROVE  IInv'
<1> USE DEF IInv, Base
<1>1. ASSUME NEW s \in Scenes, Ask(s) \/ ConnectStep(s) \/ CancelByCaller(s)
      PROVE  IInv'
  <2>1. ASSUME NEW t \in Scenes PROVE SceneInv(t)'
    BY <1>1, ConnectionKeeps, ConnectionOfAnother, AloneIsKept
  <2> QED
    BY <1>1, <2>1, ConnectionTypes, ConnectionQueue, ConnectionEntry, ConnectionHandles
<1>2. ASSUME NEW s \in Scenes, Disconnect(s) \/ DisconnectStep(s) \/ CloserStep(s) \/ ServerStep(s)
      PROVE  IInv'
  <2>1. ASSUME NEW t \in Scenes PROVE SceneInv(t)'
    BY <1>2, ClosingKeeps, ClosingOfAnother, AloneIsKept
  <2> QED
    BY <1>2, <2>1, ClosingTypes, ClosingQueue, ClosingEntry, ClosingHandles
<1>3. ASSUME NEW s \in Scenes, HostStep(s)
      PROVE  IInv'
  <2>1. ASSUME NEW t \in Scenes PROVE SceneInv(t)'
    BY <1>3, HostKeeps, HostOfAnother, AloneIsKept
  <2> QED
    BY <1>3, <2>1, HostTypes, HostQueue, HostEntry, HostHandles
<1>4. CASE RunPosted
  <2>1. ASSUME NEW t \in Scenes PROVE SceneInv(t)'
    BY <1>4, RunPostedKeeps
  <2> QED
    BY <1>4, <2>1, RunPostedTypes, RunPostedQueue, RunPostedEntry, RunPostedHandles
<1>5. CASE CloseHost \/ HostDown
  <2>1. ASSUME NEW t \in Scenes PROVE SceneInv(t)'
    BY <1>5, HostLost
  <2> QED
    BY <1>5, <2>1, HostTypes, ClientQueue, HostEntry, HostHandles
<1>6. CASE DisconnectClient
  <2>1. ASSUME NEW t \in Scenes PROVE SceneInv(t)'
    BY <1>6, ClientKeeps
  <2> QED
    BY <1>6, <2>1, ClientTypes, ClientQueue, HostEntry, HostHandles
<1>7. CASE ClientStep
  <2>1. ASSUME NEW t \in Scenes PROVE SceneInv(t)'
    BY <1>7, ClientKeeps, HostLost DEF ClientStep
  <2> QED
    BY <1>7, <2>1, ClientTypes, ClientQueue, ClientEntry, ClientHandles
<1> QED
  BY <1>1, <1>2, <1>3, <1>4, <1>5, <1>6, <1>7 DEF Next

LEMMA StutterKeeps ==
    ASSUME IInv, UNCHANGED vars
    PROVE  IInv'
<1> USE DEF IInv, Base, vars, clientVars, sceneVars, hostVars, serverVars
<1>1. Types'
  BY DEF Types
<1>2. \A t \in Scenes : SceneInv(t)'
  BY DEF SceneInv, HandleComesWithAnswer, StateFollows, ClosedWhenConnected, ClosesOnce,
         EndedByCloser, Unclosed
<1>3. QueueInv'
  BY DEF QueueInv, ItemOf, CloseItem
<1>4. EntryInv'
  BY DEF EntryInv, EntryOf, BehindOf, Behind, OneIsClosed, Owns, Ended, Tainted, Unclosed, CloseItem
<1>5. HandleInv'
  BY DEF HandleInv, Has, Spoiled, ClosedTwice
<1> QED
  BY <1>1, <1>2, <1>3, <1>4, <1>5

(* What every other theorem of this module rests on: the five invariants   *)
(* hold together, however many scenes the uri has had.                     *)
LEMMA Inductive == Spec => []IInv
<1>1. IInv /\ [Next]_vars => IInv'
  BY StepKeeps, StutterKeeps
<1> QED
  BY <1>1, StartsRight, PTL DEF Spec

(* Every variable of the client, of its scenes and of the server keeps its *)
(* type: a handle names a scene that was made, and what is posted is a     *)
(* change of state of one (Client.cpp, SceneDispatcher.cpp).               *)
THEOREM TypeCorrect == Spec => []TypeOK
<1>1. IInv => TypeOK
  BY TypesAreOK DEF IInv, Base
<1> QED
  BY <1>1, Inductive, PTL

(* A Connected scene is found under its handle, on the client and on the   *)
(* server, from completeConnectionInitialization and addScene to the       *)
(* removeScene of who closes it (Client.cpp:734, 737, 846), unless it was  *)
(* taken from it by the second closer of an earlier scene.                 *)
THEOREM HandlesAreJoined == Spec => []ConnectedScenesAreJoined
<1>1. ASSUME IInv PROVE ConnectedScenesAreJoined
  <2> SUFFICES ASSUME NEW s \in Scenes, state[s] = "Connected", host = "Connected",
                      \A who \in Closers : closer[s][who] \in {"no", "posted"},
                      \A d \in Scenes : ClosedTwice(d) => handle[d] # handle[s]
               PROVE  handles[handle[s]] = s /\ server[handle[s]] = s
    BY DEF ConnectedScenesAreJoined
  <2>1. handle[s] \in Handles
    BY <1>1 DEF IInv, Base, Types, SceneInv, StateFollows
  <2>2. ~Spoiled(handle[s]) /\ Has(s, handle[s])
    BY DEF Spoiled, Has
  <2> QED
    BY <1>1, <2>1, <2>2 DEF IInv, HandleInv
<1> QED
  BY <1>1, Inductive, PTL

(* The entry of the uri keeps connectToScene from making a second scene    *)
(* until the first one is not Connected any more, although the entry is    *)
(* erased before the end of the scene is run by the dispatcher             *)
(* (Client.cpp:340, 829).                                                  *)
THEOREM UriHasOneScene == Spec => []OneSceneOfTheUri
<1>1. ASSUME IInv PROVE OneSceneOfTheUri
  <2> SUFFICES ASSUME NEW s \in Scenes, NEW t \in Scenes, state[s] = "Connected",
                      state[t] = "Connected", s # t, s \notin Tainted, t \notin Tainted
               PROVE  FALSE
    BY DEF OneSceneOfTheUri, Tainted
  <2>1. ASSUME NEW u \in Scenes, state[u] = "Connected", u \notin Tainted
        PROVE  /\ Owns(u) \/ \E who \in Closers : closer[u][who] = "posted"
               /\ ~Ended(u) /\ pc[u] \notin Early
    <3>1. SceneInv(u) /\ \A who \in Closers :
            closer[u][who] \in {"no", "posted", "ran", "asked", "ending", "done"}
      BY <1>1 DEF IInv, Base, Types
    <3>2. pc[u] \in Opened
      BY <2>1, <3>1 DEF SceneInv, StateFollows, HandleComesWithAnswer, Tainted
    <3>3. \A who \in Closers : closer[u][who] \in {"no", "posted"}
      BY <2>1, <3>1 DEF SceneInv, ClosedWhenConnected, Ending
    <3> QED
      BY <2>1, <3>2, <3>3 DEF Owns, Unclosed, Ended, Ending, Opened, Early
  <2>2. ASSUME NEW u \in Scenes, state[u] = "Connected", u \notin Tainted, Owns(u)
        PROVE  entry = u /\ \A v \in Scenes, who \in Closers : v # u => closer[v][who] # "posted"
    <3>1. ~Ended(u) /\ pc[u] \notin Early /\ EntryOf(u) /\ BehindOf(u)
      BY <1>1, <2>1, <2>2 DEF IInv, EntryInv
    <3> QED
      BY <2>2, <3>1 DEF EntryOf, BehindOf, Behind, Early
  <2>3. CASE Owns(s)
    BY <2>1, <2>2, <2>3
  <2>4. CASE Owns(t)
    BY <2>1, <2>2, <2>4
  <2>5. CASE ~Owns(s) /\ ~Owns(t)
    BY <1>1, <2>1, <2>5 DEF IInv, EntryInv, OneIsClosed
  <2> QED
    BY <2>3, <2>4, <2>5
<1> QED
  BY <1>1, Inductive, PTL

(* While the connection with the server lasts, a scene ends by somebody    *)
(* who closes it, and who closes it erases its entry before the end is     *)
(* posted (Client.cpp:829): connectToScene finds no scene that ended.      *)
THEOREM EndedScenesAreGone == Spec => []EndedScenesLeaveTheTable
<1>1. ASSUME IInv PROVE EndedScenesLeaveTheTable
  <2> SUFFICES ASSUME host = "Connected", entry \in completed PROVE FALSE
    BY DEF EndedScenesLeaveTheTable
  <2>1. PICK s \in Scenes : s = entry
    BY <1>1 DEF IInv, Base, Types
  <2>2. ~Unclosed(s) /\ ClosedWhenConnected(s)
    BY <1>1, <2>1 DEF IInv, Base, SceneInv, EndedByCloser
  <2> QED
    BY <2>1, <2>2 DEF Unclosed, ClosedWhenConnected
<1> QED
  BY <1>1, Inductive, PTL
=============================================================================

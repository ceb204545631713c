---------------------------- MODULE SceneLifecycle ----------------------------
(***************************************************************************)
(* The life of the scenes of one uri: Client.cpp (_scenes, connection,     *)
(* disconnection), Scene.cpp (the connection state, disconnect, the        *)
(* subscription to the host connection) and SceneDispatcher.cpp (the table *)
(* of handles), with a MainThreadActionDispatcher that runs the posted     *)
(* state changes in order.  Each element of Scenes is one call of          *)
(* connectToPublicScene that finds no entry for the uri, and the Scene_Impl*)
(* its factory makes.  Continuations of tasks run on a pool of threads.    *)
(***************************************************************************)
EXTENDS Naturals, Sequences, FiniteSets

CONSTANTS Scenes,
          Handles,   \* the handles the server has for its scenes
          None

ASSUME NoneIsNoScene == None \notin Scenes \cup Handles

States == {"Disconnected", "Connecting", "Connected", "Disconnecting"}
Closers == {"scene", "client"}  \* who called Client::disconnect(scene, ...)
Refused == "refused"

ASSUME RefusedIsNoHandle == Refused \notin Handles

VARIABLES
    entry,       \* the scene of the entry of the uri in Client::_scenes
    entryWatch,  \* the scene the entry's stateChangedSubscription is for
    watching,    \* the scenes whose state changes reach the client's subscription
    evicted,     \* history: scenes whose entry was erased on account of another one
    pc,          \* progress of the connection task of each scene
    userCts,     \* scenes whose caller's token is cancelled
    cts,         \* scenes whose _connectionCts is cancelled
    state,       \* _connectionState
    completed,   \* scenes with _connectionStateObservableCompleted
    queue,       \* the state changes posted on the dispatcher
    followUp,    \* scenes that must post Disconnected since their host is lost
    host,        \* the state of the connection with the server
    hostSeen,    \* the last state of it each scene was told
    handle,      \* ScenePeer::handle of the host of each scene
    handles,     \* SceneDispatcher: the scene at each handle of the connection
    leaving,     \* progress of Scene::disconnect
    closer,      \* progress of Client::disconnect(scene)
    clientClosing, \* progress of Client::disconnect()
    toClose,     \* the scene Client::disconnect() took from _scenes
    server,      \* the server's scene at each handle
    calls,       \* CONNECT_TO_SCENE requests in flight
    answers,     \* what the server answered
    byes         \* DISCONNECT_FROM_SCENE requests in flight

clientVars == <<entry, entryWatch, watching, evicted, clientClosing, toClose>>
sceneVars == <<state, completed, queue, followUp>>
hostVars == <<host, hostSeen>>
serverVars == <<server, calls, answers, byes>>
vars == <<clientVars, pc, userCts, cts, sceneVars, hostVars, handle, handles,
          leaving, closer, serverVars>>

Init ==
    /\ entry = None /\ entryWatch = None /\ watching = {} /\ evicted = {}
    /\ pc = [s \in Scenes |-> "none"]
    /\ userCts = {} /\ cts = {}
    /\ state = [s \in Scenes |-> "Disconnected"]
    /\ completed = {} /\ queue = << >> /\ followUp = {}
    /\ host = "Connected"
    /\ hostSeen = [s \in Scenes |-> "none"]
    /\ handle = [s \in Scenes |-> None]
    /\ handles = [h \in Handles |-> None]
    /\ leaving = [s \in Scenes |-> "no"]
    /\ closer = [s \in Scenes |-> [w \in Closers |-> "no"]]
    /\ clientClosing = "no" /\ toClose = None
    /\ server = [h \in Handles |-> None]
    /\ calls = {} /\ byes = {}
    /\ answers = [s \in Scenes |-> None]

Created(s) == hostSeen[s] # "none"
ConnectOk(s) == pc[s] \in {"opened", "attached"}
ConnectFailed(s) == pc[s] \in {"failed", "gone"}

(* setConnectionState: the change is posted on the dispatcher. *)
Posted(s, to, by) == Append(queue, [scene |-> s, to |-> to, by |-> by])

(* Erasing the entry of the uri destroys its subscription.  What is erased *)
(* on account of s is the entry there is, of s or not.                     *)
EraseEntry(s) ==
    /\ entry' = None
    /\ entryWatch' = None
    /\ watching' = watching \ {entryWatch}
    /\ evicted' = evicted \cup ({entry} \ {s, None})

----------------------------------------------------------------------------
(* Client::connectToScene(address, ...) *)

(* Mutation of Ask: the uri is not looked up in _scenes. *)
AskWithoutLookup(s) ==
    /\ pc[s] = "none"
    /\ entry' = s
    /\ pc' = [pc EXCEPT ![s] = "asked"]
    /\ UNCHANGED <<entryWatch, watching, evicted, clientClosing, toClose, userCts, cts, sceneVars,
                   hostVars, handle, handles, leaving, closer, serverVars>>

Ask(s) ==
    /\ pc[s] = "none"
    /\ entry = None
    /\ entry' = s
    /\ pc' = [pc EXCEPT ![s] = "asked"]
    /\ UNCHANGED <<entryWatch, watching, evicted, clientClosing, toClose, userCts, cts, sceneVars,
                   hostVars, handle, handles, leaving, closer, serverVars>>

(* The endpoint, the connection or the infos of the scene are not to be had, *)
(* or the caller's token is cancelled.                                       *)
FactoryFails(s) ==
    /\ pc[s] = "asked"
    /\ pc' = [pc EXCEPT ![s] = "failed"]
    /\ UNCHANGED <<clientVars, userCts, cts, sceneVars, hostVars, handle, handles, leaving,
                   closer, serverVars>>

(* getSceneInternal: the scene subscribes to the state of its host. *)
CreateScene(s) ==
    /\ pc[s] = "asked"
    /\ pc' = [pc EXCEPT ![s] = "created"]
    /\ hostSeen' = [hostSeen EXCEPT ![s] = host]
    /\ UNCHANGED <<clientVars, userCts, cts, sceneVars, host, handle, handles, leaving,
                   closer, serverVars>>

(* The initializer, then Scene_Impl::connect *)
Connect(s) ==
    /\ pc[s] = "created"
    /\ IF s \in userCts
       THEN pc' = [pc EXCEPT ![s] = "failed"] /\ UNCHANGED queue
       ELSE /\ pc' = [pc EXCEPT ![s] = "connecting"]
            /\ queue' = Posted(s, "Connecting", "connect")
    /\ UNCHANGED <<clientVars, userCts, cts, state, completed, followUp, hostVars, handle,
                   handles, leaving, closer, serverVars>>

(* The request is sent even if its token is cancelled, which ends its task. *)
SendConnect(s) ==
    /\ pc[s] = "ready"
    /\ pc' = [pc EXCEPT ![s] = IF s \in userCts \cup cts THEN "failed" ELSE "requested"]
    /\ calls' = IF host = "Connected" THEN calls \cup {s} ELSE calls
    /\ UNCHANGED <<clientVars, userCts, cts, sceneVars, hostVars, handle, handles, leaving,
                   closer, server, answers, byes>>

(* Mutation of SendConnectFails: the exception is only logged. *)
SendConnectFailsSilently(s) ==
    /\ pc[s] = "ready"
    /\ pc' = [pc EXCEPT ![s] = "requested"]
    /\ UNCHANGED <<clientVars, userCts, cts, sceneVars, hostVars, handle, handles, leaving,
                   closer, serverVars>>

SendConnectFails(s) ==
    /\ pc[s] = "ready"
    /\ pc' = [pc EXCEPT ![s] = "failed"]
    /\ UNCHANGED <<clientVars, userCts, cts, sceneVars, hostVars, handle, handles, leaving,
                   closer, serverVars>>

ConnectRefused(s) ==
    /\ pc[s] = "requested"
    /\ answers[s] = Refused
    /\ answers' = [answers EXCEPT ![s] = None]
    /\ pc' = [pc EXCEPT ![s] = "failed"]
    /\ UNCHANGED <<clientVars, userCts, cts, sceneVars, hostVars, handle, handles, leaving,
                   closer, server, calls, byes>>

(* Mutation of OpenScene: an error is taken for a ConnectionResult. *)
OpenSceneAnyway(s) ==
    /\ pc[s] = "requested"
    /\ answers[s] # None
    /\ pc' = [pc EXCEPT ![s] = "opening"]
    /\ answers' = [answers EXCEPT ![s] = None]
    /\ handle' = [handle EXCEPT ![s] = answers[s]]
    /\ handles' = [handles EXCEPT ![answers[s]] = s]
    /\ queue' = Posted(s, "Connected", "open")
    /\ UNCHANGED <<clientVars, userCts, cts, state, completed, followUp, hostVars, leaving,
                   closer, server, calls, byes>>

(* completeConnectionInitialization, addScene, then Connected is posted. *)
OpenScene(s) ==
    /\ pc[s] = "requested"
    /\ answers[s] \in Handles
    /\ pc' = [pc EXCEPT ![s] = "opening"]
    /\ answers' = [answers EXCEPT ![s] = None]
    /\ handle' = [handle EXCEPT ![s] = answers[s]]
    /\ handles' = [handles EXCEPT ![answers[s]] = s]
    /\ queue' = Posted(s, "Connected", "open")
    /\ UNCHANGED <<clientVars, userCts, cts, state, completed, followUp, hostVars, leaving,
                   closer, server, calls, byes>>

(* The last continuation watches the state of the scene from the entry of  *)
(* the uri, if there is one, unless the caller's token cancels it first.   *)
Attach(s) ==
    /\ pc[s] = "opened"
    /\ IF s \in userCts
       THEN pc' = [pc EXCEPT ![s] = "failed"] /\ UNCHANGED <<entryWatch, watching>>
       ELSE /\ pc' = [pc EXCEPT ![s] = "attached"]
            /\ IF entry # None
               THEN /\ entryWatch' = s
                    /\ watching' = IF s \in completed THEN watching ELSE watching \cup {s}
               ELSE UNCHANGED <<entryWatch, watching>>
    /\ UNCHANGED <<entry, evicted, clientClosing, toClose, userCts, cts, sceneVars, hostVars,
                   handle, handles, leaving, closer, serverVars>>

(* The factory's task failed: whatever entry the uri has is erased. *)
Forget(s) ==
    /\ pc[s] = "failed"
    /\ pc' = [pc EXCEPT ![s] = "gone"]
    /\ EraseEntry(s)
    /\ UNCHANGED <<clientClosing, toClose, userCts, cts, sceneVars, hostVars, handle, handles,
                   leaving, closer, serverVars>>

(* A token of the request ends its task at once, later steps look at it. *)
CancelRequest(s) ==
    IF pc[s] = "requested"
    THEN pc' = [pc EXCEPT ![s] = "failed"] /\ answers' = [answers EXCEPT ![s] = None]
    ELSE UNCHANGED <<pc, answers>>

CancelByCaller(s) ==
    /\ pc[s] \notin {"none", "asked", "attached", "failed", "gone"}
    /\ s \notin userCts
    /\ userCts' = userCts \cup {s}
    /\ CancelRequest(s)
    /\ UNCHANGED <<clientVars, cts, sceneVars, hostVars, handle, handles, leaving, closer,
                   server, calls, byes>>

----------------------------------------------------------------------------
(* The dispatcher: setConnectionStateInternal, then the continuation of    *)
(* the task that was posted becomes ready.                                 *)

ByConnection == {"connect", "open"}

RunPosted ==
    /\ queue # << >>
    /\ queue' = Tail(queue)
    /\ LET p == Head(queue)
           s == p.scene
           changes == state[s] # p.to /\ s \notin completed
       IN /\ IF changes
             THEN /\ state' = [state EXCEPT ![s] = p.to]
                  /\ completed' = IF p.to = "Disconnected" THEN completed \cup {s} ELSE completed
                  /\ IF p.to \in {"Disconnecting", "Disconnected"} /\ s \in watching
                     THEN /\ entry' = None
                          /\ entryWatch' = None
                          /\ watching' = watching \ ({entryWatch} \cup
                                           (IF p.to = "Disconnected" THEN {s} ELSE {}))
                          /\ evicted' = evicted \cup ({entry} \ {s, None})
                     ELSE UNCHANGED <<entry, entryWatch, watching, evicted>>
             ELSE UNCHANGED <<state, completed, entry, entryWatch, watching, evicted>>
          /\ pc' = CASE p.by = "connect" -> [pc EXCEPT ![s] = "ready"]
                     [] p.by = "open" -> [pc EXCEPT ![s] = "opened"]
                     [] OTHER -> pc
          /\ closer' = IF p.by \in Closers
                       THEN [closer EXCEPT ![s][p.by] =
                               IF p.to = "Disconnecting" THEN "ran" ELSE "done"]
                       ELSE closer
          /\ followUp' = IF p.by = "hostLost" THEN followUp \cup {s} ELSE followUp
    /\ UNCHANGED <<clientClosing, toClose, userCts, cts, hostVars, handle, handles, leaving,
                   serverVars>>

----------------------------------------------------------------------------
(* The connection with the server is lost or closed. *)

(* What is in flight is lost; an answer may already have arrived. *)
CloseHost ==
    /\ host = "Connected"
    /\ host' = "Disconnecting"
    /\ calls' = {} /\ byes' = {}
    /\ answers' \in {answers, [s \in Scenes |-> None]}
    /\ UNCHANGED <<clientVars, pc, userCts, cts, sceneVars, hostSeen, handle, handles, leaving,
                   closer, server>>

(* on_next(Disconnected) follows when on_next(Disconnecting) has returned. *)
HostDown ==
    /\ host = "Disconnecting"
    /\ \A s \in Scenes : hostSeen[s] # "Connected"
    /\ host' = "Disconnected"
    /\ UNCHANGED <<clientVars, pc, userCts, cts, sceneVars, hostSeen, handle, handles, leaving,
                   closer, serverVars>>

SeeHostDisconnecting(s) ==
    /\ host # "Connected"
    /\ hostSeen[s] = "Connected"
    /\ hostSeen' = [hostSeen EXCEPT ![s] = "Disconnecting"]
    /\ queue' = IF state[s] \in {"Disconnecting", "Disconnected"} THEN queue
                ELSE Posted(s, "Disconnecting", "host")
    /\ UNCHANGED <<clientVars, pc, userCts, cts, state, completed, followUp, host, handle,
                   handles, leaving, closer, serverVars>>

(* Mutation of SeeHostDisconnected: Disconnecting has no continuation. *)
SeeHostDisconnectedHalfway(s) ==
    /\ host = "Disconnected"
    /\ hostSeen[s] = "Disconnecting"
    /\ hostSeen' = [hostSeen EXCEPT ![s] = "Disconnected"]
    /\ IF state[s] = "Disconnecting"
       THEN followUp' = followUp \cup {s} /\ UNCHANGED queue
       ELSE queue' = Posted(s, "Disconnecting", "host") /\ UNCHANGED followUp
    /\ UNCHANGED <<clientVars, pc, userCts, cts, state, completed, host, handle, handles,
                   leaving, closer, serverVars>>

SeeHostDisconnected(s) ==
    /\ host = "Disconnected"
    /\ hostSeen[s] = "Disconnecting"
    /\ hostSeen' = [hostSeen EXCEPT ![s] = "Disconnected"]
    /\ CASE state[s] = "Disconnected" -> UNCHANGED <<queue, followUp>>
         [] state[s] = "Disconnecting" -> followUp' = followUp \cup {s} /\ UNCHANGED queue
         [] OTHER -> queue' = Posted(s, "Disconnecting", "hostLost") /\ UNCHANGED followUp
    /\ UNCHANGED <<clientVars, pc, userCts, cts, state, completed, host, handle, handles,
                   leaving, closer, serverVars>>

FollowUp(s) ==
    /\ s \in followUp
    /\ followUp' = followUp \ {s}
    /\ queue' = Posted(s, "Disconnected", "host")
    /\ UNCHANGED <<clientVars, pc, userCts, cts, state, completed, hostVars, handle, handles,
                   leaving, closer, serverVars>>

----------------------------------------------------------------------------
(* Client::disconnect(scene, ...) *)

(* Mutation of StartClosing: the entry is left to its subscription. *)
StartClosingKeepsEntry(s, who) ==
    /\ UNCHANGED <<entry, entryWatch, watching, evicted>>
    /\ IF state[s] = "Connected"
       THEN /\ closer' = [closer EXCEPT ![s][who] = "posted"]
            /\ queue' = Posted(s, "Disconnecting", who)
       ELSE UNCHANGED <<closer, queue>>

(* Only a Connected scene is closed. *)
StartClosing(s, who) ==
    IF state[s] = "Connected"
    THEN /\ closer' = [closer EXCEPT ![s][who] = "posted"]
         /\ EraseEntry(s)
         /\ queue' = Posted(s, "Disconnecting", who)
    ELSE UNCHANGED <<closer, entry, entryWatch, watching, evicted, queue>>

(* removeScene, then DISCONNECT_FROM_SCENE, which may fail to be sent; none *)
(* of them when the connection is not in the repository any more.           *)
LeaveServer(s, who) ==
    /\ closer[s][who] = "ran"
    /\ closer' = [closer EXCEPT ![s][who] = "asked"]
    /\ \/ /\ host # "Disconnected"
          /\ handles' = [handles EXCEPT ![handle[s]] = None]
          /\ byes' \in {byes, IF host = "Connected" THEN byes \cup {<<s, who>>} ELSE byes}
       \/ host # "Connected" /\ UNCHANGED <<handles, byes>>
    /\ UNCHANGED <<clientVars, pc, userCts, cts, sceneVars, hostVars, handle, leaving,
                   server, calls, answers>>

(* Mutation of EndClosing: removeScene comes after the request. *)
EndClosingRemovesScene(s, who) ==
    /\ closer[s][who] = "asked"
    /\ closer' = [closer EXCEPT ![s][who] = "ending"]
    /\ handles' = [handles EXCEPT ![handle[s]] = None]
    /\ queue' = Posted(s, "Disconnected", who)
    /\ UNCHANGED <<clientVars, pc, userCts, cts, state, completed, followUp, hostVars, handle,
                   leaving, serverVars>>

(* Mutation of EndClosing: an error of the request ends the continuations. *)
EndClosingOnError(s, who) ==
    /\ closer[s][who] = "asked"
    /\ closer' = [closer EXCEPT ![s][who] = "ending"]
    /\ queue' \in {queue, Posted(s, "Disconnected", who)}
    /\ UNCHANGED <<clientVars, pc, userCts, cts, state, completed, followUp, hostVars, handle,
                   handles, leaving, serverVars>>

(* The answer, an error or the timeout of 5 seconds: Disconnected is posted. *)
EndClosing(s, who) ==
    /\ closer[s][who] = "asked"
    /\ closer' = [closer EXCEPT ![s][who] = "ending"]
    /\ queue' = Posted(s, "Disconnected", who)
    /\ UNCHANGED <<clientVars, pc, userCts, cts, state, completed, followUp, hostVars, handle,
                   handles, leaving, serverVars>>

----------------------------------------------------------------------------
(* Scene_Impl::disconnect.  The first call makes the task all calls return. *)
(* Its continuation, disconnectFromHost, reads the state without the mutex. *)
Disconnect(s) ==
    /\ Created(s)
    /\ leaving[s] = "no"
    /\ leaving' = [leaving EXCEPT ![s] =
                     CASE state[s] = "Connected" -> "calling"
                       [] state[s] = "Connecting" -> "waiting"
                       [] OTHER -> "done"]
    /\ IF state[s] = "Connecting"
       THEN cts' = cts \cup {s} /\ CancelRequest(s)
       ELSE UNCHANGED <<cts, pc, answers>>
    /\ UNCHANGED <<clientVars, userCts, sceneVars, hostVars, handle, handles, closer,
                   server, calls, byes>>

(* Client::disconnect reads it again. *)
CallClient(s) ==
    /\ leaving[s] = "calling"
    /\ leaving' = [leaving EXCEPT ![s] =
                     CASE state[s] = "Connected" -> "closing"
                       [] state[s] = "Disconnected" -> "done"
                       [] OTHER -> "failed"]
    /\ StartClosing(s, "scene")
    /\ UNCHANGED <<clientClosing, toClose, pc, userCts, cts, state, completed, followUp, hostVars,
                   handle, handles, serverVars>>

(* The continuation of _connectTask.  After a connection that succeeded it *)
(* calls disconnect, which returns the task that waits for it.             *)
ConnectTaskEnded(s) ==
    /\ leaving[s] = "waiting"
    /\ ConnectOk(s) \/ ConnectFailed(s)
    /\ leaving' = [leaving EXCEPT ![s] = IF ConnectOk(s) THEN "waitsForItself" ELSE "done"]
    /\ UNCHANGED <<clientVars, pc, userCts, cts, sceneVars, hostVars, handle, handles, closer,
                   serverVars>>

----------------------------------------------------------------------------
(* Client::disconnect().  disconnectAllScenes copies _scenes; destroying   *)
(* the copies of the entries ends the subscriptions they share.            *)

DisconnectClient ==
    /\ clientClosing = "no"
    /\ entry # None
    /\ clientClosing' = "waiting"
    /\ toClose' = entry
    /\ watching' = watching \ {entryWatch}
    /\ UNCHANGED <<entry, entryWatch, evicted, pc, userCts, cts, sceneVars, hostVars, handle,
                   handles, leaving, closer, serverVars>>

DisconnectAllScenes ==
    /\ clientClosing = "waiting"
    /\ clientClosing' = "closing"
    /\ \/ pc[toClose] = "attached" /\ StartClosing(toClose, "client")
       \/ pc[toClose] = "gone" /\ UNCHANGED <<closer, entry, entryWatch, watching, evicted, queue>>
    /\ UNCHANGED <<toClose, pc, userCts, cts, state, completed, followUp, hostVars, handle,
                   handles, leaving, serverVars>>

CloseAllConnections ==
    /\ clientClosing = "closing"
    /\ closer[toClose]["client"] \in {"no", "done"}
    /\ clientClosing' = "closed"
    /\ IF host = "Connected"
       THEN /\ host' = "Disconnecting"
            /\ calls' = {} /\ byes' = {}
            /\ answers' \in {answers, [s \in Scenes |-> None]}
       ELSE UNCHANGED <<host, calls, answers, byes>>
    /\ UNCHANGED <<entry, entryWatch, watching, evicted, toClose, pc, userCts, cts, sceneVars,
                   hostSeen, handle, handles, leaving, closer, server>>

----------------------------------------------------------------------------
(* The server: it gives a scene a handle and takes it back.  A             *)
(* DISCONNECT_FROM_SCENE request names nothing but the handle.             *)

(* An answer nobody waits for any more is dropped. *)
Answer(s, a) == answers' = IF pc[s] = "requested" THEN [answers EXCEPT ![s] = a] ELSE answers

ServerAccepts(s) ==
    /\ s \in calls
    /\ calls' = calls \ {s}
    /\ \E h \in Handles :
        /\ server[h] = None
        /\ server' = [server EXCEPT ![h] = s]
        /\ Answer(s, h)
    /\ UNCHANGED <<clientVars, pc, userCts, cts, sceneVars, hostVars, handle, handles, leaving,
                   closer, byes>>

ServerRefuses(s) ==
    /\ s \in calls
    /\ calls' = calls \ {s}
    /\ Answer(s, Refused)
    /\ UNCHANGED <<clientVars, pc, userCts, cts, sceneVars, hostVars, handle, handles, leaving,
                   closer, server, byes>>

ServerReleases(s, who) ==
    /\ <<s, who>> \in byes
    /\ byes' = byes \ {<<s, who>>}
    /\ server' = [server EXCEPT ![handle[s]] = None]
    /\ UNCHANGED <<clientVars, pc, userCts, cts, sceneVars, hostVars, handle, handles, leaving,
                   closer, calls, answers>>

----------------------------------------------------------------------------
ConnectStep(s) ==
    \/ CreateScene(s) \/ FactoryFails(s) \/ Connect(s) \/ SendConnect(s) \/ SendConnectFails(s)
    \/ ConnectRefused(s) \/ OpenScene(s) \/ Attach(s) \/ Forget(s)
HostStep(s) == SeeHostDisconnecting(s) \/ SeeHostDisconnected(s) \/ FollowUp(s)
DisconnectStep(s) == CallClient(s) \/ ConnectTaskEnded(s)
CloserStep(s) == \E who \in Closers : LeaveServer(s, who) \/ EndClosing(s, who)
ServerStep(s) ==
    ServerAccepts(s) \/ ServerRefuses(s) \/ \E who \in Closers : ServerReleases(s, who)
ClientStep == DisconnectAllScenes \/ CloseAllConnections

Next ==
    \/ \E s \in Scenes : \/ Ask(s) \/ CancelByCaller(s) \/ Disconnect(s)
                         \/ ConnectStep(s) \/ HostStep(s) \/ DisconnectStep(s)
                         \/ CloserStep(s) \/ ServerStep(s)
    \/ RunPosted \/ DisconnectClient \/ ClientStep \/ CloseHost \/ HostDown

Spec == Init /\ [][Next]_vars

(* The dispatcher is updated, continuations are run, and requests answered *)
(* while the connection lasts.  Nobody has to connect, cancel, disconnect  *)
(* or lose the connection.                                                 *)
Fairness ==
    /\ \A s \in Scenes :
        /\ WF_vars(ConnectStep(s)) /\ WF_vars(SeeHostDisconnecting(s))
        /\ WF_vars(SeeHostDisconnected(s)) /\ WF_vars(FollowUp(s))
        /\ WF_vars(DisconnectStep(s)) /\ WF_vars(ServerStep(s))
        /\ \A who \in Closers : WF_vars(LeaveServer(s, who)) /\ WF_vars(EndClosing(s, who))
    /\ WF_vars(RunPosted) /\ WF_vars(ClientStep) /\ WF_vars(HostDown)

FairSpec == Spec /\ Fairness

----------------------------------------------------------------------------
TypeOK ==
    /\ {entry, entryWatch, toClose} \subseteq Scenes \cup {None}
    /\ watching \cup evicted \cup userCts \cup cts \cup completed \cup followUp \cup calls \subseteq Scenes
    /\ pc \in [Scenes -> {"none", "asked", "created", "connecting", "ready", "requested",
                          "opening", "opened", "attached", "failed", "gone"}]
    /\ state \in [Scenes -> States]
    /\ queue \in Seq([scene : Scenes, to : States,
                      by : Closers \cup ByConnection \cup {"host", "hostLost"}])
    /\ host \in {"Connected", "Disconnecting", "Disconnected"}
    /\ hostSeen \in [Scenes -> {"none", "Connected", "Disconnecting", "Disconnected"}]
    /\ handle \in [Scenes -> Handles \cup {None}]
    /\ handles \in [Handles -> Scenes \cup {None}]
    /\ server \in [Handles -> Scenes \cup {None}]
    /\ leaving \in [Scenes -> {"no", "calling", "closing", "waiting", "waitsForItself",
                               "done", "failed"}]
    /\ closer \in [Scenes -> [Closers -> {"no", "posted", "ran", "asked", "ending", "done"}]]
    /\ clientClosing \in {"no", "waiting", "closing", "closed"}
    /\ answers \in [Scenes -> Handles \cup {None, Refused}]
    /\ byes \subseteq Scenes \X Closers

ClosedTwice(s) == \A who \in Closers : closer[s][who] # "no"

(* While the connection lasts, a scene that is Connected and not being     *)
(* closed is where its handle says, on the client and on the server: its   *)
(* messages reach it.  The exception: two closers passed the check of the  *)
(* state of an earlier scene, and the later one takes its handle away again *)
(* from the scene that has it by then.                                     *)
ConnectedScenesAreJoined ==
    \A s \in Scenes :
        /\ state[s] = "Connected" /\ host = "Connected"
        /\ \A who \in Closers : closer[s][who] \in {"no", "posted"}
        /\ \A d \in Scenes : ClosedTwice(d) => handle[d] # handle[s]
        => handles[handle[s]] = s /\ server[handle[s]] = s

(* A uri has at most one Connected scene, also while one is closed and the *)
(* next one connects: unless the caller of one of them cancelled the       *)
(* connection too late and the entry was erased all the same, or the entry *)
(* of one of them was erased on account of another scene of the uri, which *)
(* was closed twice, cancelled too late, or closed before Attach.          *)
OneSceneOfTheUri ==
    \A s, t \in Scenes :
        state[s] = "Connected" /\ state[t] = "Connected" /\ s # t =>
            (userCts \cup evicted) \cap {s, t} # {}

(* The entry of a scene that ended does not stay in _scenes, where every   *)
(* connection to the uri would be answered with it, while the connection   *)
(* with the server lasts.  (When it is lost the entry does stay if the     *)
(* scene ended before the entry watched it, or if a copy of the entry      *)
(* ended its subscription.)                                                *)
EndedScenesLeaveTheTable == host = "Connected" => entry \notin completed

(* Every connection to a scene ends while the connection with the server   *)
(* lasts, and with the connection of the scene or without an entry for it. *)
ConnectionEnds ==
    [](host = "Connected") => \A s \in Scenes : pc[s] = "asked" ~> pc[s] \in {"attached", "gone"}

(* A scene that is not Disconnected when it is told of the loss of its     *)
(* host becomes Disconnected.                                              *)
HostLossEndsScenes ==
    \A s \in Scenes :
        (host # "Connected" /\ hostSeen[s] = "Connected" /\ state[s] # "Disconnected")
            ~> state[s] = "Disconnected"

(* What Client::disconnect started to close becomes Disconnected, whether  *)
(* the server answers or not.                                              *)
ClosingEnds ==
    \A s \in Scenes, who \in Closers : closer[s][who] = "posted" ~> state[s] = "Disconnected"

(* Scene::disconnect "returns a completed task when the operation is       *)
(* finished or cancelled".                                                 *)
DisconnectEnds ==
    \A s \in Scenes :
        leaving[s] # "no" ~> \/ leaving[s] \in {"done", "failed"}
                             \/ leaving[s] = "closing" /\ closer[s]["scene"] = "done"
=============================================================================

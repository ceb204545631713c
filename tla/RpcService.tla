------------------------------ MODULE RpcService ------------------------------
(***************************************************************************)
(* Remote procedure calls over a connected scene: RpcService.cpp, the      *)
(* RpcRequest and RpcRequestContext it uses, and the cancellation of every *)
(* call when RpcPlugin sees the scene disconnected.  Each element of Calls *)
(* is one subscription to rpcObservable, made by a thread of its own; the  *)
(* dispatcher handles the packets of the scene; the peer runs the          *)
(* procedures that addProcedure registered.                                *)
(***************************************************************************)
EXTENDS Integers, SequencesExt

CONSTANTS Calls,
          MaxId,      \* the largest id (0xffff in the code)
          MaxSkew,    \* bound: ids the RpcServices of other scenes take meanwhile
          MaxValues,  \* bound: values a procedure sends
          None

ASSUME RpcBounds == MaxId \in Nat /\ MaxSkew \in Nat /\ MaxValues \in Nat
ASSUME NoneIsNoCall == None \notin Calls

Ids == 0 .. MaxId

VARIABLES
    \* the caller
    counter,         \* the static id of reserveId
    pendingRequests, \* _pendingRequests
    pc,              \* the thread that subscribes: its position in rpcObservable
    rid,             \* RpcRequest::id
    hasCompleted,    \* RpcRequest::hasCompleted
    hasData,         \* waitingForDataTce is set
    completing,      \* complete() attached its continuation to waitingForDataTce
    observer,        \* what the observer was told last
    received,        \* the values the observer was given
    cancelAll,       \* progress of cancelAll on the caller
    toCancel,        \* pendingRequestsCopy
    \* the callee
    runningRequests, \* _runningRequests
    execution,       \* the procedure run for each call
    values,          \* how many values it sent
    cancelRequested, \* the calls whose cancellation_token_source was cancelled
    ordered,         \* the calls to procedures added with ordered = true
    \* the scene
    connected,       \* the scene is connected
    toServer,        \* channel RPC_server (RELIABLE_ORDERED)
    toClient         \* channel RPC_client; unordered values overtake and are overtaken

callerVars == <<counter, pendingRequests, pc, rid, hasCompleted, hasData, completing,
                observer, received, cancelAll, toCancel>>
calleeVars == <<runningRequests, execution, values, cancelRequested, ordered>>
vars == <<callerVars, calleeVars, connected, toServer, toClient>>

Init ==
    /\ counter = 0
    /\ pendingRequests = [i \in Ids |-> None]
    /\ pc = [c \in Calls |-> "idle"]
    /\ rid = [c \in Calls |-> 0]
    /\ hasCompleted = {} /\ hasData = {} /\ completing = {}
    /\ observer = [c \in Calls |-> "open"]
    /\ received = [c \in Calls |-> << >>]
    /\ cancelAll = "no" /\ toCancel = {}
    /\ runningRequests = [i \in Ids |-> None]
    /\ execution = [c \in Calls |-> "none"]
    /\ values = [c \in Calls |-> 0]
    /\ cancelRequested = {}
    /\ ordered \in SUBSET Calls
    /\ connected = TRUE
    /\ toServer = << >> /\ toClient = << >>

----------------------------------------------------------------------------
(* The life of an RpcRequest: its references, its observer, its teardown *)

Started(c) == pc[c] \notin {"idle", "rejected"}
InSubscribe(c) == pc[c] \in {"reserved", "emplaced", "sent"}

(* Somebody other than the slot refers to the request of c. *)
Held(c) == InSubscribe(c) \/ c \in toCancel
Alive(c) == Held(c) \/ pendingRequests[rid[c]] = c

(* The observers once the slot's reference to d is gone: ~RpcRequest reports *)
(* task_canceled unless the request was marked as completed.                 *)
Released(d, obs) ==
    IF d # None /\ ~Held(d) /\ d \notin hasCompleted /\ obs[d] = "open"
    THEN [obs EXCEPT ![d] = "cancelled"]
    ELSE obs

(* Mutation of Erase: the teardown erases the last reserved id. *)
EraseLatest(i, obs) ==
    /\ observer' = Released(pendingRequests[counter], obs)
    /\ pendingRequests' = [pendingRequests EXCEPT ![counter] = None]

(* eraseRequest: by id, whichever call holds the slot *)
Erase(i, obs) ==
    /\ observer' = Released(pendingRequests[i], obs)
    /\ pendingRequests' = [pendingRequests EXCEPT ![i] = None]

(* The observer of c is told how the call ends, which unsubscribes it and  *)
(* runs its teardown if it is attached.                                    *)
EndWith(c, how) ==
    IF observer[c] # "open" THEN UNCHANGED <<observer, pendingRequests>>
    ELSE LET obs == [observer EXCEPT ![c] = how]
         IN IF pc[c] = "subscribed" THEN Erase(rid[c], obs)
            ELSE observer' = obs /\ UNCHANGED pendingRequests

CancelMessage(c) == [kind |-> "cancel", id |-> rid[c], from |-> c]

----------------------------------------------------------------------------
(* The caller's thread: the subscription to rpcObservable *)

Free(i) == pendingRequests[i] = None
Distance(i) == IF i > counter THEN i - counter ELSE i - counter + MaxId + 1
NextId(i) == Free(i) /\ \A j \in Ids : Free(j) => Distance(i) <= Distance(j)

(* Mutation of ReserveId: the id is wider than uint16. *)
ReserveIdWithoutWrap(c) ==
    /\ pc[c] = "idle"
    /\ \E i \in Ids, skew \in 0 .. MaxSkew :
        /\ NextId(i)
        /\ counter' = i + skew
        /\ rid' = [rid EXCEPT ![c] = counter']
    /\ pc' = [pc EXCEPT ![c] = "reserved"]
    /\ UNCHANGED <<pendingRequests, hasCompleted, hasData, completing, observer, received,
                   cancelAll, toCancel, calleeVars, connected, toServer, toClient>>

(* reserveId.  The id is static: the RpcService of another scene, under a  *)
(* mutex of its own, can advance it between the check and the return.      *)
ReserveId(c) ==
    /\ pc[c] = "idle"
    /\ \E i \in Ids, skew \in 0 .. MaxSkew :
        /\ NextId(i)
        /\ counter' = (i + skew) % (MaxId + 1)
        /\ rid' = [rid EXCEPT ![c] = counter']
    /\ pc' = [pc EXCEPT ![c] = "reserved"]
    /\ UNCHANGED <<pendingRequests, hasCompleted, hasData, completing, observer, received,
                   cancelAll, toCancel, calleeVars, connected, toServer, toClient>>

RejectCall(c) ==
    /\ pc[c] = "idle"
    /\ \A i \in Ids : ~Free(i)
    /\ pc' = [pc EXCEPT ![c] = "rejected"]
    /\ observer' = [observer EXCEPT ![c] = "error"]
    /\ UNCHANGED <<counter, pendingRequests, rid, hasCompleted, hasData, completing, received,
                   cancelAll, toCancel, calleeVars, connected, toServer, toClient>>

(* _pendingRequests.emplace keeps the request that is already there. *)
Emplace(c) ==
    /\ pc[c] = "reserved"
    /\ pc' = [pc EXCEPT ![c] = "emplaced"]
    /\ pendingRequests' = [pendingRequests EXCEPT ![rid[c]] = IF @ = None THEN c ELSE @]
    /\ UNCHANGED <<counter, rid, hasCompleted, hasData, completing, observer, received,
                   cancelAll, toCancel, calleeVars, connected, toServer, toClient>>

SendCall(c) ==
    /\ pc[c] = "emplaced"
    /\ connected
    /\ pc' = [pc EXCEPT ![c] = "sent"]
    /\ toServer' = Append(toServer, [kind |-> "call", id |-> rid[c], from |-> c])
    /\ UNCHANGED <<counter, pendingRequests, rid, hasCompleted, hasData, completing, observer,
                   received, cancelAll, toCancel, calleeVars, connected, toClient>>

(* scene->send throws: on_error, and return before a teardown is attached. *)
SendCallFails(c) ==
    /\ pc[c] = "emplaced"
    /\ pc' = [pc EXCEPT ![c] = "failed"]
    /\ EndWith(c, "error")
    /\ UNCHANGED <<counter, rid, hasCompleted, hasData, completing, received,
                   cancelAll, toCancel, calleeVars, connected, toServer, toClient>>

(* Mutation of SendCancel: the test of hasCompleted is inverted. *)
SendCancelOfCompleted(c) ==
    toServer' = IF c \in hasCompleted /\ connected
                THEN Append(toServer, CancelMessage(c)) ELSE toServer

(* What the teardown of a live request does: cancel the call unless it has *)
(* completed, and erase its id.                                            *)
SendCancel(c) ==
    toServer' = IF c \notin hasCompleted /\ connected
                THEN Append(toServer, CancelMessage(c)) ELSE toServer

(* Mutation of AddTeardown: a request the table did not take stays silent. *)
AddTeardownOfLostRequest(c) ==
    /\ pc[c] = "sent"
    /\ pc' = [pc EXCEPT ![c] = "subscribed"]
    /\ IF observer[c] = "open"
       THEN UNCHANGED <<observer, pendingRequests, toServer>>
       ELSE Erase(rid[c], observer) /\ SendCancel(c)
    /\ UNCHANGED <<counter, rid, hasCompleted, hasData, completing, received,
                   cancelAll, toCancel, calleeVars, connected, toClient>>

(* subscriber.add, at the end of the subscription: an observer that was    *)
(* told of the end meanwhile runs the teardown at once.                    *)
AddTeardown(c) ==
    /\ pc[c] = "sent"
    /\ pc' = [pc EXCEPT ![c] = "subscribed"]
    /\ IF observer[c] = "open"
       THEN /\ observer' = IF pendingRequests[rid[c]] = c \/ c \in toCancel \/ c \in hasCompleted
                           THEN observer
                           ELSE [observer EXCEPT ![c] = "cancelled"]
            /\ UNCHANGED <<pendingRequests, toServer>>
       ELSE Erase(rid[c], observer) /\ SendCancel(c)
    /\ UNCHANGED <<counter, rid, hasCompleted, hasData, completing, received,
                   cancelAll, toCancel, calleeVars, connected, toClient>>

(* The subscription is disposed of, by its owner or by a cancellation_token. *)
Dispose(c) ==
    /\ pc[c] = "subscribed"
    /\ observer[c] = "open"
    /\ LET obs == [observer EXCEPT ![c] = "disposed"]
       IN IF Alive(c) THEN Erase(rid[c], obs) /\ SendCancel(c)
          ELSE observer' = obs /\ UNCHANGED <<pendingRequests, toServer>>
    /\ UNCHANGED <<counter, pc, rid, hasCompleted, hasData, completing, received,
                   cancelAll, toCancel, calleeVars, connected, toClient>>

----------------------------------------------------------------------------
(* The caller's dispatcher *)

InOrder(m) == m.kind # "next" \/ m.from \in ordered
Deliverable(k) ==
    InOrder(toClient[k]) => \A j \in 1 .. k - 1 : ~InOrder(toClient[j])

(* next: on_next, then waitingForDataTce.set *)
DeliverNext(m, c) ==
    /\ m.kind = "next"
    /\ received' = [received EXCEPT ![c] = IF observer[c] = "open"
                                           THEN Append(@, [from |-> m.from, n |-> m.n]) ELSE @]
    /\ hasData' = hasData \cup {c}
    /\ UNCHANGED <<pendingRequests, observer, hasCompleted, completing>>

DeliverError(m, c) ==
    /\ m.kind = "error"
    /\ hasCompleted' = hasCompleted \cup {c}
    /\ EndWith(c, "error")
    /\ UNCHANGED <<received, hasData, completing>>

(* Mutation of DeliverComplete: on_completed does not wait for data. *)
DeliverCompleteAtOnce(m, c) ==
    /\ m.kind = "complete"
    /\ hasCompleted' = hasCompleted \cup {c}
    /\ completing' = completing \cup {c}
    /\ hasData' = hasData \cup {c}
    /\ UNCHANGED <<pendingRequests, observer, received>>

(* complete: on_completed waits for data if the callee says it sent some. *)
DeliverComplete(m, c) ==
    /\ m.kind = "complete"
    /\ hasCompleted' = hasCompleted \cup {c}
    /\ completing' = completing \cup {c}
    /\ hasData' = IF m.n = 0 THEN hasData \cup {c} ELSE hasData
    /\ UNCHANGED <<pendingRequests, observer, received>>

(* A packet whose id is not in the table is dropped. *)
Deliver ==
    \E k \in 1 .. Len(toClient) :
        /\ Deliverable(k)
        /\ toClient' = RemoveAt(toClient, k)
        /\ LET m == toClient[k]
               c == pendingRequests[m.id]
           IN IF c = None
              THEN UNCHANGED <<pendingRequests, observer, received, hasData, hasCompleted, completing>>
              ELSE DeliverNext(m, c) \/ DeliverError(m, c) \/ DeliverComplete(m, c)
        /\ UNCHANGED <<counter, pc, rid, cancelAll, toCancel, calleeVars, connected, toServer>>

(* The continuation of waitingForDataTce, on a thread of the task scheduler. *)
FinishCompletion(c) ==
    /\ c \in completing \cap hasData
    /\ completing' = completing \ {c}
    /\ IF Alive(c) THEN EndWith(c, "completed") ELSE UNCHANGED <<observer, pendingRequests>>
    /\ UNCHANGED <<counter, pc, rid, hasCompleted, hasData, received, cancelAll, toCancel,
                   calleeVars, connected, toServer, toClient>>

----------------------------------------------------------------------------
(* The scene is disconnected: packets are lost, then sceneDisconnected     *)
(* calls cancelAll on each side.                                           *)
Disconnect ==
    /\ connected
    /\ connected' = FALSE
    /\ toServer' = << >> /\ toClient' = << >>
    /\ UNCHANGED <<callerVars, calleeVars>>

(* cancelAll copies and clears the table under the mutex ... *)
CancelAllTake ==
    /\ ~connected
    /\ cancelAll = "no"
    /\ cancelAll' = "taken"
    /\ toCancel' = {pendingRequests[i] : i \in Ids} \ {None}
    /\ pendingRequests' = [i \in Ids |-> None]
    /\ UNCHANGED <<counter, pc, rid, hasCompleted, hasData, completing, observer, received,
                   calleeVars, connected, toServer, toClient>>

(* ... and tells the observers that have not completed, without it. *)
CancelAllNotify(c) ==
    /\ c \in toCancel
    /\ IF c \in hasCompleted
       THEN UNCHANGED <<hasCompleted, observer, pendingRequests>>
       ELSE hasCompleted' = hasCompleted \cup {c} /\ EndWith(c, "error")
    /\ toCancel' = toCancel \ {c}
    /\ UNCHANGED <<counter, pc, rid, hasData, completing, received, cancelAll,
                   calleeVars, connected, toServer, toClient>>

CancelAllRunning ==
    /\ ~connected
    /\ \E i \in Ids : runningRequests[i] # None
    /\ cancelRequested' = cancelRequested \cup ({runningRequests[i] : i \in Ids} \ {None})
    /\ runningRequests' = [i \in Ids |-> None]
    /\ UNCHANGED <<callerVars, execution, values, ordered, connected, toServer, toClient>>

----------------------------------------------------------------------------
(* The callee *)

Reply(kind, c, n) ==
    toClient' = IF connected
                THEN Append(toClient, [kind |-> kind, id |-> rid[c], from |-> c, n |-> n])
                ELSE toClient

(* The handler of a procedure's route: a call whose id is already in       *)
(* _runningRequests is not executed.                                       *)
ReceiveCall ==
    /\ toServer # << >>
    /\ LET m == Head(toServer)
       IN /\ m.kind = "call"
          /\ IF runningRequests[m.id] = None
             THEN /\ runningRequests' = [runningRequests EXCEPT ![m.id] = m.from]
                  /\ execution' = [execution EXCEPT ![m.from] = "running"]
             ELSE /\ execution' = [execution EXCEPT ![m.from] = "ignored"]
                  /\ UNCHANGED runningRequests
    /\ toServer' = Tail(toServer)
    /\ UNCHANGED <<callerVars, values, cancelRequested, ordered, connected, toClient>>

(* rpc.cancel *)
ReceiveCancel ==
    /\ toServer # << >>
    /\ LET m == Head(toServer)
       IN /\ m.kind = "cancel"
          /\ cancelRequested' = cancelRequested \cup ({runningRequests[m.id]} \ {None})
          /\ runningRequests' = [runningRequests EXCEPT ![m.id] = None]
    /\ toServer' = Tail(toServer)
    /\ UNCHANGED <<callerVars, execution, values, ordered, connected, toClient>>

SendValue(c) ==
    /\ execution[c] = "running"
    /\ values[c] < MaxValues
    /\ connected
    /\ values' = [values EXCEPT ![c] = @ + 1]
    /\ Reply("next", c, values[c] + 1)
    /\ UNCHANGED <<callerVars, runningRequests, execution, cancelRequested, ordered,
                   connected, toServer>>

(* The handler's task ends: sendComplete, unless a cancellation removed the id. *)
HandlerReturns(c) ==
    /\ execution[c] = "running"
    /\ execution' = [execution EXCEPT ![c] = "completed"]
    /\ IF runningRequests[rid[c]] # None
       THEN /\ runningRequests' = [runningRequests EXCEPT ![rid[c]] = None]
            /\ Reply("complete", c, IF values[c] > 0 THEN 1 ELSE 0)
       ELSE UNCHANGED <<runningRequests, toClient>>
    /\ UNCHANGED <<callerVars, values, cancelRequested, ordered, connected, toServer>>

(* Mutation of HandlerThrows: the exception is swallowed. *)
HandlerThrowsSilently(c) ==
    /\ execution[c] = "running"
    /\ execution' = [execution EXCEPT ![c] = "failed"]
    /\ UNCHANGED <<callerVars, runningRequests, values, cancelRequested, ordered,
                   connected, toServer, toClient>>

(* The handler throws: sendError; the id stays in _runningRequests. *)
HandlerThrows(c) ==
    /\ execution[c] = "running"
    /\ execution' = [execution EXCEPT ![c] = "failed"]
    /\ Reply("error", c, 0)
    /\ UNCHANGED <<callerVars, runningRequests, values, cancelRequested, ordered,
                   connected, toServer>>

----------------------------------------------------------------------------
Subscribe(c) == ReserveId(c) \/ RejectCall(c) \/ Emplace(c) \/ SendCall(c) \/ SendCallFails(c)
                    \/ AddTeardown(c)
Execute(c) == SendValue(c) \/ HandlerReturns(c) \/ HandlerThrows(c)

Next ==
    \/ \E c \in Calls : \/ Subscribe(c) \/ Dispose(c) \/ FinishCompletion(c)
                        \/ CancelAllNotify(c) \/ Execute(c)
    \/ Deliver \/ ReceiveCall \/ ReceiveCancel
    \/ Disconnect \/ CancelAllTake \/ CancelAllRunning

Spec == Init /\ [][Next]_vars

(* Threads and tasks run, packets are delivered, procedures end, and a     *)
(* disconnected scene is torn down.                                        *)
Fairness ==
    /\ \A c \in Calls :
        /\ WF_vars(Emplace(c)) /\ WF_vars(SendCall(c) \/ SendCallFails(c))
        /\ WF_vars(AddTeardown(c)) /\ WF_vars(FinishCompletion(c))
        /\ WF_vars(CancelAllNotify(c))
        /\ WF_vars(HandlerReturns(c) \/ HandlerThrows(c))
    /\ WF_vars(Deliver) /\ WF_vars(ReceiveCall) /\ WF_vars(ReceiveCancel)
    /\ WF_vars(CancelAllTake) /\ WF_vars(CancelAllRunning)

FairSpec == Spec /\ Fairness

----------------------------------------------------------------------------
Events == {"open", "completed", "error", "cancelled", "disposed"}

TypeOK ==
    /\ counter \in Ids
    /\ pendingRequests \in [Ids -> Calls \cup {None}]
    /\ runningRequests \in [Ids -> Calls \cup {None}]
    /\ pc \in [Calls -> {"idle", "reserved", "emplaced", "sent", "subscribed", "failed", "rejected"}]
    /\ rid \in [Calls -> Ids]
    /\ hasCompleted \cup hasData \cup completing \cup toCancel \cup cancelRequested \cup ordered
         \subseteq Calls
    /\ observer \in [Calls -> Events]
    /\ received \in [Calls -> Seq([from : Calls, n : 1 .. MaxValues])]
    /\ cancelAll \in {"no", "taken"}
    /\ execution \in [Calls -> {"none", "running", "ignored", "completed", "failed"}]
    /\ values \in [Calls -> 0 .. MaxValues]
    /\ connected \in BOOLEAN
    /\ toServer \in Seq([kind : {"call", "cancel"}, id : Ids, from : Calls])
    /\ toClient \in Seq([kind : {"next", "error", "complete"}, id : Ids, from : Calls,
                         n : 0 .. MaxValues])

OwnId(c) == \A d \in Calls : Started(d) /\ rid[d] = rid[c] => d = c

(* A subscriber that was told nothing yet has a request somebody can still *)
(* end, even if another call shares its id.  The exception: a call the     *)
(* callee completed, whose on_completed was still to come when cancelAll   *)
(* emptied the table.                                                      *)
WaitingCallsAreHeld ==
    \A c \in Calls :
        Started(c) /\ observer[c] = "open" /\ ~Alive(c) =>
            c \in hasCompleted /\ cancelAll = "taken"

(* A call that is over stays in the table only if its send threw: no       *)
(* teardown was attached to it.                                            *)
EndedCallsLeave ==
    \A i \in Ids : \A c \in Calls :
        pendingRequests[i] = c /\ observer[c] # "open" => pc[c] = "failed" \/ InSubscribe(c)

(* The table and the observers agree: nobody waits for a request that is   *)
(* gone (rpcObservable, cancelAll), and a request that is over does not    *)
(* keep its id (eraseRequest).                                             *)
TableMatchesObservers == WaitingCallsAreHeld /\ EndedCallsLeave

(* A call with an id of its own gets the values and the end that its own   *)
(* execution produced, or the error of its send or of the disconnection.   *)
OwnEvents ==
    \A c \in Calls :
        Started(c) /\ OwnId(c) =>
            /\ \A k \in 1 .. Len(received[c]) : received[c][k].from = c
            /\ observer[c] = "completed" => execution[c] = "completed"
            /\ observer[c] = "error" => execution[c] = "failed" \/ pc[c] = "failed" \/ ~connected
            /\ observer[c] # "cancelled"

(* on_completed does not overtake the data: a procedure that sent values   *)
(* is not completed before the first, an ordered one before the last, and  *)
(* the values of an ordered one come in the order they were sent.          *)
DataBeforeCompletion ==
    \A c \in Calls :
        Started(c) /\ OwnId(c) =>
            /\ observer[c] = "completed" /\ values[c] > 0 => received[c] # << >>
            /\ observer[c] = "completed" /\ c \in ordered => Len(received[c]) = values[c]
            /\ c \in ordered => \A k \in 1 .. Len(received[c]) : received[c][k].n = k

(* Once the packets of a call its owner disposed of have been handled, its *)
(* procedure does not run on without having been told.                     *)
DisposedCallsAreCancelled ==
    \A c \in Calls :
        /\ Started(c) /\ OwnId(c) /\ connected
        /\ observer[c] = "disposed"
        /\ execution[c] = "running"
        /\ \A k \in 1 .. Len(toServer) : toServer[k].from # c
        => c \in cancelRequested

(* Every subscription ends, whether the peer answers or the scene is       *)
(* disconnected.  The exceptions: calls completed when cancelAll ran, and   *)
(* calls with the id of an earlier one: the peer ignored the call if the    *)
(* procedure of that one threw (RpcService.cpp:209), or the late end of a   *)
(* disposed one was taken for the end of the call.                         *)
EveryCallEnds ==
    \A c \in Calls :
        Started(c) ~> \/ observer[c] # "open"
                      \/ c \in hasCompleted /\ cancelAll = "taken"
                      \/ \E d \in Calls \ {c} :
                            /\ rid[d] = rid[c] /\ observer[d] # "open"
                            /\ \/ execution[d] = "failed"
                               \/ execution[d] = "completed" /\ observer[d] = "disposed"
=============================================================================

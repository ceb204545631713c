-------------------------- MODULE RequestProcessor --------------------------
(***************************************************************************)
(* System requests between two peers: RequestProcessor.cpp (the table of   *)
(* pending requests of the caller, the dispatch of the three kinds of      *)
(* response), SystemRequest.cpp (the one-shot result of a request) and     *)
(* RequestContext.cpp (the callee's side of one request).                  *)
(*                                                                         *)
(* Each element of Requests is one call of sendSystemRequest, run by a     *)
(* thread of its own.  The dispatcher thread of the caller handles the     *)
(* responses one at a time.  Ids are the uint16 ids of the code: the       *)
(* counter wraps at MaxId and an id is used again once its slot is free.   *)
(***************************************************************************)
EXTENDS Integers, Sequences, FiniteSets

CONSTANTS Requests,    \* the calls of sendSystemRequest
          MaxId,       \* the largest id (0xffff in the code)
          MaxValues,   \* bound: values a handler sends before it returns
          None         \* no request

ASSUME MaxIdAssumption == MaxId \in Nat
ASSUME MaxValuesAssumption == MaxValues \in Nat
ASSUME NoneAssumption == None \notin Requests

Ids == 0 .. MaxId

Phases == {"idle", "reserved", "sent", "returned", "rejected"}
Outcomes == {"pending", "value", "void", "error", "sendError", "cancelled"}

(* ID_REQUEST_RESPONSE_MSG is "value", ID_REQUEST_RESPONSE_ERROR "error",  *)
(* ID_REQUEST_RESPONSE_COMPLETE "void" without values and "done" with.     *)
Kinds == {"value", "error", "void", "done"}
Responses == [kind : Kinds, from : Requests, id : Ids]
Nobody == [kind |-> "done", from |-> None, req |-> None]
Handlings == [kind : Kinds \ {"done"}, from : Requests, req : Requests]

VARIABLES
    counter,         \* _requestIdCounter
    pendingRequests, \* _pendingRequests: the request that holds each slot
    phase,           \* where the thread of each call is
    rid,             \* SystemRequest::_id
    outcome,         \* what the request's task_completion_event was set to
    cancelled,       \* the requests whose cancellation_token is cancelled
    onWire,          \* the requests sent and not received yet (RELIABLE, unordered)
    context,         \* the callee: state of the RequestContext of each request
    values,          \* the callee: values its handler sent
    responses,       \* the responses in flight (RELIABLE_ORDERED)
    handling,        \* the response the dispatcher took and has not set yet
    up,              \* the connection can carry packets
    answeredBy       \* history: the request whose response set the outcome

callerVars == <<counter, pendingRequests, phase, rid, outcome, cancelled>>
calleeVars == <<onWire, context, values>>
vars == <<counter, pendingRequests, phase, rid, outcome, cancelled,
          onWire, context, values, responses, handling, up, answeredBy>>

Init ==
    /\ counter = 0
    /\ pendingRequests = [i \in Ids |-> None]
    /\ phase = [r \in Requests |-> "idle"]
    /\ rid = [r \in Requests |-> 0]
    /\ outcome = [r \in Requests |-> "pending"]
    /\ cancelled = {}
    /\ onWire = {}
    /\ context = [r \in Requests |-> "none"]
    /\ values = [r \in Requests |-> 0]
    /\ responses = << >>
    /\ handling = Nobody
    /\ up = TRUE
    /\ answeredBy = [r \in Requests |-> None]

Started(r) == phase[r] \in {"reserved", "sent", "returned"}

----------------------------------------------------------------------------
(* The caller's thread: sendSystemRequest *)

Free(i) == pendingRequests[i] = None

(* The id the loop ends on: the first free one after the counter, cyclically. *)
Distance(i) == IF i > counter THEN i - counter ELSE i - counter + MaxId + 1
NextId(i) == /\ Free(i)
             /\ \A j \in Ids : Free(j) => Distance(i) <= Distance(j)

(* A request nobody refers to any more is destroyed, and its event with it: *)
(* a task still waiting on the event is cancelled.                          *)
Dropped(r) == IF outcome[r] = "pending" THEN "cancelled" ELSE outcome[r]

(* reserveRequestSlot, then register_callback, which runs the callback at  *)
(* once when the token is already cancelled.                               *)
ReserveRequestSlot(r) ==
    /\ phase[r] = "idle"
    /\ \E i \in Ids :
        /\ NextId(i)
        /\ counter' = i
        /\ rid' = [rid EXCEPT ![r] = i]
        /\ pendingRequests' = [pendingRequests EXCEPT
                                 ![i] = IF r \in cancelled THEN None ELSE r]
    /\ phase' = [phase EXCEPT ![r] = "reserved"]
    /\ UNCHANGED <<outcome, cancelled, onWire, context, values, responses, handling, up, answeredBy>>

(* Every slot is taken: overflow_error.  The loop went round all the ids,  *)
(* so the counter is back where it was.                                    *)
RejectRequest(r) ==
    /\ phase[r] = "idle"
    /\ \A i \in Ids : ~Free(i)
    /\ phase' = [phase EXCEPT ![r] = "rejected"]
    /\ UNCHANGED <<counter, pendingRequests, rid, outcome, cancelled,
                   onWire, context, values, responses, handling, up, answeredBy>>

Send(r) ==
    /\ phase[r] = "reserved"
    /\ onWire' = IF up THEN onWire \cup {r} ELSE onWire
    /\ phase' = [phase EXCEPT ![r] = "sent"]
    /\ UNCHANGED <<counter, pendingRequests, rid, outcome, cancelled,
                   context, values, responses, handling, up, answeredBy>>

(* Mutation of SendFails: send throws after it queued the packet. *)
SendFailsAfterQueueing(r) ==
    /\ phase[r] = "reserved"
    /\ onWire' = onWire \cup {r}
    /\ outcome' = [outcome EXCEPT ![r] = IF @ = "pending" THEN "sendError" ELSE @]
    /\ phase' = [phase EXCEPT ![r] = "sent"]
    /\ UNCHANGED <<counter, pendingRequests, rid, cancelled,
                   context, values, responses, handling, up, answeredBy>>

(* peer->send throws: the request is given the exception and keeps its slot. *)
SendFails(r) ==
    /\ phase[r] = "reserved"
    /\ outcome' = [outcome EXCEPT ![r] = IF @ = "pending" THEN "sendError" ELSE @]
    /\ phase' = [phase EXCEPT ![r] = "sent"]
    /\ UNCHANGED <<counter, pendingRequests, rid, cancelled,
                   onWire, context, values, responses, handling, up, answeredBy>>

(* Mutation of Return: something else keeps the request, so its event stays. *)
ReturnKeepsRequest(r) ==
    /\ phase[r] = "sent"
    /\ phase' = [phase EXCEPT ![r] = "returned"]
    /\ UNCHANGED <<counter, pendingRequests, rid, outcome, cancelled,
                   onWire, context, values, responses, handling, up, answeredBy>>

(* return request->getTask(ct): the thread lets go of the request. *)
Return(r) ==
    /\ phase[r] = "sent"
    /\ phase' = [phase EXCEPT ![r] = "returned"]
    /\ outcome' = IF pendingRequests[rid[r]] = r \/ handling.req = r
                  THEN outcome
                  ELSE [outcome EXCEPT ![r] = Dropped(r)]
    /\ UNCHANGED <<counter, pendingRequests, rid, cancelled,
                   onWire, context, values, responses, handling, up, answeredBy>>

----------------------------------------------------------------------------
(* Mutation of Cancel: the callback reads _requestIdCounter, not its copy of the id. *)
CancelLatest(r) ==
    /\ r \notin cancelled
    /\ cancelled' = cancelled \cup {r}
    /\ LET holder == pendingRequests[counter]
       IN IF Started(r)
          THEN /\ pendingRequests' = [pendingRequests EXCEPT ![counter] = None]
               /\ outcome' = IF holder # None /\ phase[holder] = "returned"
                             THEN [outcome EXCEPT ![holder] = Dropped(holder)]
                             ELSE outcome
          ELSE UNCHANGED <<pendingRequests, outcome>>
    /\ UNCHANGED <<counter, phase, rid, onWire, context, values,
                   responses, handling, up, answeredBy>>

(* The token of r is cancelled.  Its callback frees the slot with the ID of *)
(* r, whichever request holds it by now; it was never unregistered.         *)
Cancel(r) ==
    /\ r \notin cancelled
    /\ cancelled' = cancelled \cup {r}
    /\ LET holder == pendingRequests[rid[r]]
       IN IF Started(r)
          THEN /\ pendingRequests' = [pendingRequests EXCEPT ![rid[r]] = None]
               /\ outcome' = IF holder # None /\ phase[holder] = "returned"
                             THEN [outcome EXCEPT ![holder] = Dropped(holder)]
                             ELSE outcome
          ELSE UNCHANGED <<pendingRequests, outcome>>
    /\ UNCHANGED <<counter, phase, rid, onWire, context, values,
                   responses, handling, up, answeredBy>>

----------------------------------------------------------------------------
(* The callee: ID_SYSTEM_REQUEST and the RequestContext of one request *)

(* Mutation of Reply: the answer is numbered with the next id. *)
ReplyToNextId(r, kind) ==
    responses' = IF up THEN Append(responses, [kind |-> kind, from |-> r, id |-> rid[r] + 1])
                 ELSE responses

Reply(r, kind) ==
    responses' = IF up THEN Append(responses, [kind |-> kind, from |-> r, id |-> rid[r]])
                 ELSE responses

ReceiveRequest(r) ==
    /\ r \in onWire
    /\ onWire' = onWire \ {r}
    /\ context' = [context EXCEPT ![r] = "running"]
    /\ UNCHANGED <<counter, pendingRequests, phase, rid, outcome, cancelled,
                   values, responses, handling, up, answeredBy>>

(* No handler is registered for the message id. *)
RefuseRequest(r) ==
    /\ r \in onWire
    /\ onWire' = onWire \ {r}
    /\ context' = [context EXCEPT ![r] = "failed"]
    /\ Reply(r, "error")
    /\ UNCHANGED <<counter, pendingRequests, phase, rid, outcome, cancelled,
                   values, handling, up, answeredBy>>

(* RequestContext::send, from a handler *)
SendValue(r) ==
    /\ context[r] = "running"
    /\ values[r] < MaxValues
    /\ values' = [values EXCEPT ![r] = @ + 1]
    /\ Reply(r, "value")
    /\ UNCHANGED <<counter, pendingRequests, phase, rid, outcome, cancelled,
                   onWire, context, handling, up, answeredBy>>

(* The handler's task ends without error: RequestContext::complete *)
HandlerCompletes(r) ==
    /\ context[r] = "running"
    /\ context' = [context EXCEPT ![r] = "completed"]
    /\ Reply(r, IF values[r] > 0 THEN "done" ELSE "void")
    /\ UNCHANGED <<counter, pendingRequests, phase, rid, outcome, cancelled,
                   onWire, values, handling, up, answeredBy>>

(* Mutation of HandlerFails: the exception is only logged. *)
HandlerFailsSilently(r) ==
    /\ context[r] = "running"
    /\ context' = [context EXCEPT ![r] = "failed"]
    /\ UNCHANGED <<counter, pendingRequests, phase, rid, outcome, cancelled,
                   onWire, values, responses, handling, up, answeredBy>>

(* The handler's task ends with an exception: RequestContext::error *)
HandlerFails(r) ==
    /\ context[r] = "running"
    /\ context' = [context EXCEPT ![r] = "failed"]
    /\ Reply(r, "error")
    /\ UNCHANGED <<counter, pendingRequests, phase, rid, outcome, cancelled,
                   onWire, values, handling, up, answeredBy>>

----------------------------------------------------------------------------
(* The caller's dispatcher thread *)

(* A response with no effect: the end of a request that had values, or an  *)
(* id no request holds ("Unknown request id").                             *)
IgnoreResponse ==
    /\ handling = Nobody
    /\ responses # << >>
    /\ Head(responses).kind = "done" \/ Free(Head(responses).id)
    /\ responses' = Tail(responses)
    /\ UNCHANGED <<counter, pendingRequests, phase, rid, outcome, cancelled,
                   onWire, context, values, handling, up, answeredBy>>

(* Mutation of TakeResponse: the slot is looked up and not erased. *)
TakeResponseKeepsSlot ==
    /\ handling = Nobody
    /\ responses # << >>
    /\ LET m == Head(responses)
       IN /\ m.kind # "done"
          /\ ~Free(m.id)
          /\ handling' = [kind |-> m.kind, from |-> m.from, req |-> pendingRequests[m.id]]
    /\ responses' = Tail(responses)
    /\ UNCHANGED <<counter, pendingRequests, phase, rid, outcome, cancelled,
                   onWire, context, values, up, answeredBy>>

(* freeRequestSlot(id): the dispatcher now holds the request it found *)
TakeResponse ==
    /\ handling = Nobody
    /\ responses # << >>
    /\ LET m == Head(responses)
       IN /\ m.kind # "done"
          /\ ~Free(m.id)
          /\ handling' = [kind |-> m.kind, from |-> m.from, req |-> pendingRequests[m.id]]
          /\ pendingRequests' = [pendingRequests EXCEPT ![m.id] = None]
    /\ responses' = Tail(responses)
    /\ UNCHANGED <<counter, phase, rid, outcome, cancelled,
                   onWire, context, values, up, answeredBy>>

(* trySet or trySetException.  A task whose token was cancelled meanwhile  *)
(* ends as cancelled when its event is set.                                *)
SetOutcome ==
    LET r == handling.req
    IN /\ handling # Nobody
       /\ IF outcome[r] = "pending"
          THEN IF r \in cancelled /\ phase[r] = "returned"
               THEN /\ outcome' = [outcome EXCEPT ![r] = "cancelled"]
                    /\ UNCHANGED answeredBy
               ELSE /\ outcome' = [outcome EXCEPT ![r] = handling.kind]
                    /\ answeredBy' = [answeredBy EXCEPT ![r] = handling.from]
          ELSE UNCHANGED <<outcome, answeredBy>>
       /\ handling' = Nobody
       /\ UNCHANGED <<counter, pendingRequests, phase, rid, cancelled,
                      onWire, context, values, responses, up>>

(* The connection is lost with everything in flight.  Nothing in           *)
(* RequestProcessor is told of it: the pending requests stay as they are.  *)
LoseConnection ==
    /\ up
    /\ up' = FALSE
    /\ onWire' = {}
    /\ responses' = << >>
    /\ UNCHANGED <<counter, pendingRequests, phase, rid, outcome, cancelled,
                   context, values, handling, answeredBy>>

----------------------------------------------------------------------------
Call(r) == ReserveRequestSlot(r) \/ RejectRequest(r) \/ Send(r) \/ SendFails(r) \/ Return(r)
Handle(r) == ReceiveRequest(r) \/ RefuseRequest(r) \/ SendValue(r)
                \/ HandlerCompletes(r) \/ HandlerFails(r)
Dispatch == IgnoreResponse \/ TakeResponse \/ SetOutcome

Next == \/ \E r \in Requests : Call(r) \/ Cancel(r) \/ Handle(r)
        \/ Dispatch
        \/ LoseConnection

Spec == Init /\ [][Next]_vars

(* Threads run; the transport delivers while the connection is up; handlers end. *)
Fairness ==
    /\ \A r \in Requests : /\ WF_vars(Send(r) \/ SendFails(r)) /\ WF_vars(Return(r))
                           /\ WF_vars(ReceiveRequest(r) \/ RefuseRequest(r))
                           /\ WF_vars(HandlerCompletes(r) \/ HandlerFails(r))
    /\ WF_vars(Dispatch)

FairSpec == Spec /\ Fairness

----------------------------------------------------------------------------
TypeOK ==
    /\ counter \in Ids
    /\ pendingRequests \in [Ids -> Requests \cup {None}]
    /\ phase \in [Requests -> Phases]
    /\ rid \in [Requests -> Ids]
    /\ outcome \in [Requests -> Outcomes]
    /\ cancelled \subseteq Requests
    /\ onWire \subseteq Requests
    /\ context \in [Requests -> {"none", "running", "completed", "failed"}]
    /\ values \in [Requests -> 0 .. MaxValues]
    /\ responses \in Seq(Responses)
    /\ handling \in Handlings \cup {Nobody}
    /\ up \in BOOLEAN
    /\ answeredBy \in [Requests -> Requests \cup {None}]

(* The caller of sendSystemRequest never waits for a task nothing in the   *)
(* program can still complete: while it waits the request is in the table, *)
(* in the dispatcher's hands, or still held by the sending thread.         *)
NoOrphan ==
    \A r \in Requests :
        Started(r) /\ outcome[r] = "pending" =>
            \/ pendingRequests[rid[r]] = r
            \/ handling.req = r
            \/ phase[r] # "returned"

(* A slot is only ever kept by a request that is over when its send threw: *)
(* whatever else ends a request (an answer, its token) also frees its slot. *)
OnlyFailedSendsLeak ==
    \A i \in Ids : \A r \in Requests :
        pendingRequests[i] = r /\ outcome[r] # "pending" => outcome[r] = "sendError"

(* No other request was ever given the id of r: the counter did not wrap onto it. *)
OwnId(r) == \A s \in Requests : Started(s) /\ rid[s] = rid[r] => s = r

(* A request that shares its id with no other is answered by the peer's    *)
(* handling of that very request, with what the handler did, and it is     *)
(* cancelled only by its own token: a late or second response and a late   *)
(* cancellation of another request do not reach it.                        *)
OwnAnswer ==
    \A r \in Requests :
        Started(r) /\ OwnId(r) =>
            /\ answeredBy[r] \in {None, r}
            /\ outcome[r] = "cancelled" => r \in cancelled
            /\ outcome[r] = "value" => values[r] > 0
            /\ outcome[r] = "void" => context[r] = "completed" /\ values[r] = 0
            /\ outcome[r] = "error" => context[r] = "failed"

(* While the connection lasts every call of sendSystemRequest gets a result. *)
EveryRequestEnds ==
    [](up) => \A r \in Requests : Started(r) ~> outcome[r] # "pending"

(* The table of slots, the ids and the order of the responses are an       *)
(* implementation of RequestContract as long as no id is used twice.       *)
Contract == INSTANCE RequestContract WITH
    Calls <- Requests,
    result <- [r \in Requests |-> IF Started(r) THEN outcome[r] ELSE phase[r]],
    work <- context,
    produced <- {r \in Requests : values[r] > 0},
    withdrawn <- cancelled

ImplementsContract == Contract!Spec
=============================================================================

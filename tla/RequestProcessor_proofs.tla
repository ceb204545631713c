----------------------- MODULE RequestProcessor_proofs -----------------------
(***************************************************************************)
(* Proofs about RequestProcessor, for any set of requests, any number of   *)
(* ids and any number of values a handler sends: its invariants, and that  *)
(* it implements RequestContract.                                          *)
(***************************************************************************)
EXTENDS RequestProcessor, FiniteSetTheorems, TLAPS

(* A slot holds a request under that request's id. *)
SlotsHoldTheirRequests ==
    \A i \in Ids : \A r \in Requests :
        pendingRequests[i] = r => rid[r] = i /\ Started(r)

(* What a response says is true of the handling it comes from. *)
Truthful(kind, r) ==
    /\ Started(r)
    /\ kind = "value" => values[r] > 0
    /\ kind = "void" => context[r] = "completed" /\ values[r] = 0
    /\ kind = "error" => context[r] = "failed"

TruthfulResponses ==
    \A k \in 1 .. Len(responses) :
        /\ Truthful(responses[k].kind, responses[k].from)
        /\ responses[k].id = rid[responses[k].from]

(* The dispatcher holds a request that left the table, and a response to its id. *)
HandlingIsTaken ==
    handling # Nobody =>
        /\ Truthful(handling.kind, handling.from)
        /\ Started(handling.req)
        /\ rid[handling.from] = rid[handling.req]
        /\ pendingRequests[rid[handling.req]] # handling.req

(* The peer only handles what was sent, once. *)
HandledOnce ==
    \A r \in Requests :
        /\ r \in onWire => context[r] = "none" /\ phase[r] \in {"sent", "returned"}
        /\ phase[r] \in {"idle", "reserved", "rejected"} => context[r] = "none"
        /\ context[r] = "none" => values[r] = 0

(* A request starts with no outcome and no answer. *)
IdleIsPending ==
    \A r \in Requests : ~Started(r) => outcome[r] = "pending" /\ answeredBy[r] = None

(* A request with an id of its own leaves the table only for the dispatcher *)
(* or because its token is cancelled.                                       *)
OutOfTable ==
    \A r \in Requests :
        Started(r) /\ OwnId(r) /\ outcome[r] = "pending" =>
            \/ pendingRequests[rid[r]] = r
            \/ handling.req = r
            \/ r \in cancelled

IInv ==
    /\ TypeOK
    /\ SlotsHoldTheirRequests
    /\ TruthfulResponses
    /\ HandlingIsTaken
    /\ HandledOnce
    /\ IdleIsPending
    /\ NoOrphan
    /\ OnlyFailedSendsLeak
    /\ OutOfTable
    /\ OwnAnswer
----------------------------------------------------------------------------
(* A reply is a response to the caller. *)
LEMMA ReplyType ==
    ASSUME TypeOK, NEW r \in Requests, NEW kind \in Kinds, Reply(r, kind)
    PROVE  responses' \in Seq(Responses)
<1> DEFINE m == [kind |-> kind, from |-> r, id |-> rid[r]]
<1>1. m \in Responses
  BY DEF TypeOK, Responses
<1>2. CASE up
  <2>1. responses' = Append(responses, m)
    BY <1>2 DEF Reply
  <2>2. responses \in Seq(Responses)
    BY DEF TypeOK
  <2> HIDE DEF m
  <2> QED
    BY <1>1, <2>1, <2>2
<1>3. CASE ~up
  BY <1>3 DEF Reply, TypeOK
<1> QED
  BY <1>2, <1>3

(* The variables keep their types through every step of the threads, the   *)
(* handlers and the dispatcher.                                            *)
LEMMA TypeOKStep == TypeOK /\ [Next]_vars => TypeOK'
<1> SUFFICES ASSUME TypeOK, [Next]_vars PROVE TypeOK'
  OBVIOUS
<1> USE MaxIdAssumption, MaxValuesAssumption, NoneAssumption DEF TypeOK, Ids
<1>1. ASSUME NEW r \in Requests, ReserveRequestSlot(r) PROVE TypeOK'
  BY <1>1 DEF ReserveRequestSlot, Phases
<1>2. ASSUME NEW r \in Requests, RejectRequest(r) PROVE TypeOK'
  BY <1>2 DEF RejectRequest, Phases
<1>3. ASSUME NEW r \in Requests, Send(r) PROVE TypeOK'
  BY <1>3 DEF Send, Phases
<1>4. ASSUME NEW r \in Requests, SendFails(r) PROVE TypeOK'
  BY <1>4 DEF SendFails, Phases, Outcomes
<1>5. ASSUME NEW r \in Requests, Return(r) PROVE TypeOK'
  <2>1. phase' \in [Requests -> Phases]
    BY <1>5 DEF Return, Phases
  <2>2. Dropped(r) \in Outcomes
    BY DEF Dropped, Outcomes
  <2>3. outcome' = outcome \/ outcome' = [outcome EXCEPT ![r] = Dropped(r)]
    BY <1>5 DEF Return
  <2>4. outcome' \in [Requests -> Outcomes]
    BY <2>2, <2>3
  <2>5. UNCHANGED <<counter, pendingRequests, rid, cancelled, onWire, context, values,
                    responses, handling, up, answeredBy>>
    BY <1>5 DEF Return
  <2> HIDE DEF Ids
  <2> QED
    BY <2>1, <2>4, <2>5
<1>6. ASSUME NEW r \in Requests, Cancel(r) PROVE TypeOK'
  <2> DEFINE holder == pendingRequests[rid[r]]
  <2>1. cancelled' \subseteq Requests
    BY <1>6 DEF Cancel
  <2>2. pendingRequests' = pendingRequests \/ pendingRequests' = [pendingRequests EXCEPT ![rid[r]] = None]
    BY <1>6 DEF Cancel
  <2>3. outcome' = outcome \/ (holder # None /\ outcome' = [outcome EXCEPT ![holder] = Dropped(holder)])
    BY <1>6 DEF Cancel
  <2>4. holder \in Requests \cup {None}
    OBVIOUS
  <2>5. holder # None => Dropped(holder) \in Outcomes
    BY <2>4 DEF Dropped, Outcomes
  <2>6. outcome' \in [Requests -> Outcomes]
    BY <2>3, <2>4, <2>5
  <2>7. pendingRequests' \in [Ids -> Requests \cup {None}]
    BY <2>2
  <2>8. UNCHANGED <<counter, phase, rid, onWire, context, values, responses, handling, up, answeredBy>>
    BY <1>6 DEF Cancel
  <2> HIDE DEF Ids
  <2> QED
    BY <2>1, <2>6, <2>7, <2>8
<1>7. ASSUME NEW r \in Requests, ReceiveRequest(r) PROVE TypeOK'
  BY <1>7 DEF ReceiveRequest
<1>8. ASSUME NEW r \in Requests, RefuseRequest(r) PROVE TypeOK'
  <2>1. Reply(r, "error")
    BY <1>8 DEF RefuseRequest
  <2>2. responses' \in Seq(Responses)
    BY <2>1, ReplyType DEF Kinds
  <2> QED
    BY <1>8, <2>2 DEF RefuseRequest
<1>9. ASSUME NEW r \in Requests, SendValue(r) PROVE TypeOK'
  <2>1. Reply(r, "value")
    BY <1>9 DEF SendValue
  <2>2. responses' \in Seq(Responses)
    BY <2>1, ReplyType DEF Kinds
  <2> QED
    BY <1>9, <2>2 DEF SendValue
<1>10. ASSUME NEW r \in Requests, HandlerCompletes(r) PROVE TypeOK'
  <2>1. Reply(r, IF values[r] > 0 THEN "done" ELSE "void")
    BY <1>10 DEF HandlerCompletes
  <2>2. responses' \in Seq(Responses)
    BY <2>1, ReplyType DEF Kinds
  <2> QED
    BY <1>10, <2>2 DEF HandlerCompletes
<1>11. ASSUME NEW r \in Requests, HandlerFails(r) PROVE TypeOK'
  <2>1. Reply(r, "error")
    BY <1>11 DEF HandlerFails
  <2>2. responses' \in Seq(Responses)
    BY <2>1, ReplyType DEF Kinds
  <2> QED
    BY <1>11, <2>2 DEF HandlerFails
<1>12. ASSUME IgnoreResponse PROVE TypeOK'
  BY <1>12 DEF IgnoreResponse
<1>13. ASSUME TakeResponse PROVE TypeOK'
  <2> DEFINE m == Head(responses)
  <2>1. m \in Responses /\ Tail(responses) \in Seq(Responses)
    BY <1>13 DEF TakeResponse
  <2>2. pendingRequests[m.id] \in Requests
    BY <1>13, <2>1 DEF TakeResponse, Free, Responses
  <2>3. handling' \in Handlings
    BY <1>13, <2>1, <2>2 DEF TakeResponse, Responses, Handlings, Kinds
  <2>4. pendingRequests' \in [Ids -> Requests \cup {None}]
    BY <1>13 DEF TakeResponse
  <2> QED
    BY <1>13, <2>1, <2>3, <2>4 DEF TakeResponse
<1>14. ASSUME SetOutcome PROVE TypeOK'
  <2>1. /\ handling.req \in Requests
        /\ handling.from \in Requests
        /\ handling.kind \in Outcomes
    BY <1>14 DEF SetOutcome, Handlings, Kinds, Outcomes
  <2> DEFINE changed(o) == outcome' = [outcome EXCEPT ![handling.req] = o]
  <2>5. outcome' = outcome \/ changed("cancelled") \/ changed(handling.kind)
    BY <1>14 DEF SetOutcome
  <2>2. outcome' \in [Requests -> Outcomes]
    BY <2>1, <2>5 DEF Outcomes
  <2>3. answeredBy' \in [Requests -> Requests \cup {None}]
    BY <1>14, <2>1 DEF SetOutcome
  <2>4. /\ handling' = Nobody
        /\ UNCHANGED <<counter, pendingRequests, phase, rid, cancelled,
                       onWire, context, values, responses, up>>
    BY <1>14 DEF SetOutcome
  <2> HIDE DEF Ids
  <2> QED
    BY <2>2, <2>3, <2>4
<1>15. ASSUME LoseConnection PROVE TypeOK'
  <2>1. << >> \in Seq(Responses)
    OBVIOUS
  <2> QED
    BY <1>15, <2>1 DEF LoseConnection
<1>16. CASE UNCHANGED vars
  BY <1>16 DEF vars
<1> QED
  BY <1>1, <1>2, <1>3, <1>4, <1>5, <1>6, <1>7, <1>8, <1>9, <1>10, <1>11,
     <1>12, <1>13, <1>14, <1>15, <1>16 DEF Next, Call, Handle, Dispatch

(* Every variable always has its type: ids stay within the uint16 range    *)
(* through every wrap of the counter.                                      *)
THEOREM TypeCorrect == Spec => []TypeOK
<1>1. Init => TypeOK
  BY MaxIdAssumption, MaxValuesAssumption, NoneAssumption
  DEF Init, TypeOK, Ids, Phases, Outcomes, Responses, Nobody, Handlings
<1>2. TypeOK /\ [Next]_vars => TypeOK'
  BY TypeOKStep
<1> QED
  BY <1>1, <1>2, PTL DEF Spec

----------------------------------------------------------------------------
(* The effect of each group of steps on what the invariants relate. *)

(* Reserving a slot fills a free one with a request that had not started. *)
LEMMA ReserveEffect ==
    ASSUME TypeOK, NEW s \in Requests, ReserveRequestSlot(s)
    PROVE  /\ \E i \in Ids :
                /\ pendingRequests[i] = None
                /\ rid' = [rid EXCEPT ![s] = i]
                /\ pendingRequests' = [pendingRequests EXCEPT
                                         ![i] = IF s \in cancelled THEN None ELSE s]
           /\ ~Started(s) /\ Started(s)'
           /\ phase[s] = "idle" /\ phase'[s] = "reserved"
           /\ \A r \in Requests : r # s => phase'[r] = phase[r] /\ (Started(r)' <=> Started(r))
           /\ UNCHANGED <<outcome, cancelled, onWire, context, values, responses, handling, answeredBy>>
<1>1. phase[s] = "idle" /\ phase' = [phase EXCEPT ![s] = "reserved"]
  BY DEF ReserveRequestSlot
<1>2. phase'[s] = "reserved" /\ \A r \in Requests : r # s => phase'[r] = phase[r]
  BY <1>1 DEF TypeOK
<1>3. \E i \in Ids : /\ pendingRequests[i] = None
                     /\ rid' = [rid EXCEPT ![s] = i]
                     /\ pendingRequests' = [pendingRequests EXCEPT
                                              ![i] = IF s \in cancelled THEN None ELSE s]
  BY DEF ReserveRequestSlot, NextId, Free
<1>4. UNCHANGED <<outcome, cancelled, onWire, context, values, responses, handling, answeredBy>>
  BY DEF ReserveRequestSlot
<1> QED
  BY <1>1, <1>2, <1>3, <1>4 DEF Started

LateCall(s) == RejectRequest(s) \/ Send(s) \/ SendFails(s) \/ Return(s)

(* The other steps of a thread start nothing and leave the table alone. *)
LEMMA LateCallEffect ==
    ASSUME TypeOK, NEW s \in Requests, LateCall(s)
    PROVE  /\ \A r \in Requests : Started(r)' <=> Started(r)
           /\ \A r \in Requests : r # s => phase'[r] = phase[r] /\ outcome'[r] = outcome[r]
           /\ UNCHANGED <<pendingRequests, rid, cancelled, context, values, responses, handling, answeredBy>>
<1>1. \E p \in Phases : phase' = [phase EXCEPT ![s] = p] /\ (p = "rejected" <=> phase[s] = "idle")
                           /\ (phase[s] \in {"reserved", "sent"} => p \in {"sent", "returned"})
                           /\ phase[s] \in {"idle", "reserved", "sent"}
  BY DEF LateCall, RejectRequest, Send, SendFails, Return, Phases
<1>2. \A r \in Requests : (Started(r)' <=> Started(r)) /\ (r # s => phase'[r] = phase[r])
  BY <1>1 DEF TypeOK, Started
<1>3. \A r \in Requests : r # s => outcome'[r] = outcome[r]
  BY DEF LateCall, RejectRequest, Send, SendFails, Return, TypeOK
<1>4. UNCHANGED <<pendingRequests, rid, cancelled, context, values, responses, handling, answeredBy>>
  BY DEF LateCall, RejectRequest, Send, SendFails, Return
<1> QED
  BY <1>2, <1>3, <1>4

(* A failed send gives its request an end, if it has none. *)
LEMMA SendFailsEffect ==
    ASSUME TypeOK, NEW s \in Requests, SendFails(s)
    PROVE  /\ outcome[s] = "pending" => outcome'[s] = "sendError"
           /\ outcome[s] # "pending" => outcome'[s] = outcome[s]
           /\ phase[s] = "reserved" /\ phase'[s] = "sent"
           /\ UNCHANGED onWire
BY DEF SendFails, TypeOK

(* The thread that returns takes the event of a request nobody holds with it. *)
LEMMA ReturnEffect ==
    ASSUME TypeOK, NEW s \in Requests, Return(s)
    PROVE  /\ phase[s] = "sent" /\ phase'[s] = "returned"
           /\ \/ /\ pendingRequests[rid[s]] = s \/ handling.req = s
                 /\ outcome'[s] = outcome[s]
              \/ /\ pendingRequests[rid[s]] # s /\ handling.req # s
                 /\ outcome[s] = "pending" => outcome'[s] = "cancelled"
                 /\ outcome[s] # "pending" => outcome'[s] = outcome[s]
           /\ UNCHANGED onWire
BY DEF Return, Dropped, TypeOK

(* The callback of a token empties the slot of one id, and takes the event *)
(* of the request it finds there with it when its thread has returned.     *)
LEMMA CancelEffect ==
    ASSUME TypeOK, NEW s \in Requests, Cancel(s)
    PROVE  /\ cancelled' = cancelled \cup {s}
           /\ UNCHANGED <<phase, rid, onWire, context, values, responses, handling, answeredBy>>
           /\ \/ ~Started(s) /\ UNCHANGED <<pendingRequests, outcome>>
              \/ /\ Started(s)
                 /\ pendingRequests' = [pendingRequests EXCEPT ![rid[s]] = None]
                 /\ \A r \in Requests : r # pendingRequests[rid[s]] \/ phase[r] # "returned" =>
                        outcome'[r] = outcome[r]
                 /\ \A r \in Requests : r = pendingRequests[rid[s]] /\ phase[r] = "returned" =>
                        outcome'[r] = Dropped(r)
<1>1. /\ cancelled' = cancelled \cup {s}
      /\ UNCHANGED <<phase, rid, onWire, context, values, responses, handling, answeredBy>>
  BY DEF Cancel
<1>2. CASE ~Started(s)
  BY <1>1, <1>2 DEF Cancel
<1>3. CASE Started(s)
  <2> DEFINE holder == pendingRequests[rid[s]]
  <2>1. /\ pendingRequests' = [pendingRequests EXCEPT ![rid[s]] = None]
        /\ outcome' = IF holder # None /\ phase[holder] = "returned"
                      THEN [outcome EXCEPT ![holder] = Dropped(holder)]
                      ELSE outcome
    BY <1>3 DEF Cancel
  <2> HIDE DEF holder
  <2>2. \A r \in Requests : r # holder \/ phase[r] # "returned" => outcome'[r] = outcome[r]
    BY <2>1 DEF TypeOK
  <2>3. \A r \in Requests : r = holder /\ phase[r] = "returned" => outcome'[r] = Dropped(r)
    BY <2>1, NoneAssumption DEF TypeOK
  <2> QED
    BY <1>1, <1>3, <2>1, <2>2, <2>3 DEF holder
<1> QED
  BY <1>2, <1>3

(* The callee touches nothing of the caller but the responses in flight. *)
LEMMA HandleEffect ==
    ASSUME NEW s \in Requests, Handle(s)
    PROVE  UNCHANGED <<pendingRequests, phase, rid, outcome, cancelled, handling, answeredBy>>
BY DEF Handle, ReceiveRequest, RefuseRequest, SendValue, HandlerCompletes, HandlerFails

(* The dispatcher takes the request that holds the id of the response. *)
LEMMA TakeResponseEffect ==
    ASSUME TypeOK, TakeResponse
    PROVE  /\ handling = Nobody
           /\ responses # << >> /\ responses' = Tail(responses)
           /\ Head(responses) \in Responses
           /\ pendingRequests[Head(responses).id] \in Requests
           /\ handling' = [kind |-> Head(responses).kind, from |-> Head(responses).from,
                           req |-> pendingRequests[Head(responses).id]]
           /\ pendingRequests' = [pendingRequests EXCEPT ![Head(responses).id] = None]
           /\ UNCHANGED <<phase, rid, outcome, cancelled, onWire, context, values, answeredBy>>
<1>1. Head(responses) \in Responses
  BY DEF TakeResponse, TypeOK
<1>2. pendingRequests[Head(responses).id] # None
  BY DEF TakeResponse, Free
<1>3. pendingRequests[Head(responses).id] \in Requests
  BY <1>1, <1>2 DEF Responses, TypeOK
<1> QED
  BY <1>1, <1>3 DEF TakeResponse

(* It then gives that request an end, if it has none. *)
LEMMA SetOutcomeEffect ==
    ASSUME TypeOK, SetOutcome
    PROVE  /\ handling \in Handlings /\ handling # Nobody /\ handling' = Nobody
           /\ handling.req \in Requests /\ handling.from \in Requests
           /\ handling.kind \in {"value", "error", "void"}
           /\ \A r \in Requests : r # handling.req =>
                  outcome'[r] = outcome[r] /\ answeredBy'[r] = answeredBy[r]
           /\ \/ /\ outcome[handling.req] # "pending"
                 /\ UNCHANGED <<outcome, answeredBy>>
              \/ /\ outcome[handling.req] = "pending" /\ handling.req \in cancelled
                 /\ outcome'[handling.req] = "cancelled"
                 /\ UNCHANGED answeredBy
              \/ /\ outcome[handling.req] = "pending"
                 /\ outcome'[handling.req] = handling.kind
                 /\ answeredBy'[handling.req] = handling.from
           /\ UNCHANGED <<pendingRequests, phase, rid, cancelled, onWire, context, values, responses>>
<1>1. /\ handling # Nobody /\ handling \in Handlings /\ handling' = Nobody
      /\ UNCHANGED <<pendingRequests, phase, rid, cancelled, onWire, context, values, responses>>
  BY DEF SetOutcome, TypeOK
<1>2. /\ handling.req \in Requests /\ handling.from \in Requests
      /\ handling.kind \in {"value", "error", "void"}
  BY <1>1 DEF Handlings, Kinds
<1> DEFINE q == handling.req
<1>3. \/ outcome[q] # "pending" /\ UNCHANGED <<outcome, answeredBy>>
      \/ /\ outcome[q] = "pending" /\ q \in cancelled
         /\ outcome' = [outcome EXCEPT ![q] = "cancelled"]
         /\ UNCHANGED answeredBy
      \/ /\ outcome[q] = "pending"
         /\ outcome' = [outcome EXCEPT ![q] = handling.kind]
         /\ answeredBy' = [answeredBy EXCEPT ![q] = handling.from]
  BY DEF SetOutcome
<1> HIDE DEF q
<1>4. q \in Requests
  BY <1>2 DEF q
<1>5. \A r \in Requests : r # q => outcome'[r] = outcome[r] /\ answeredBy'[r] = answeredBy[r]
  BY <1>3, <1>4 DEF TypeOK
<1>6. \/ outcome[q] # "pending" /\ UNCHANGED <<outcome, answeredBy>>
      \/ /\ outcome[q] = "pending" /\ q \in cancelled
         /\ outcome'[q] = "cancelled"
         /\ UNCHANGED answeredBy
      \/ /\ outcome[q] = "pending"
         /\ outcome'[q] = handling.kind
         /\ answeredBy'[q] = handling.from
  BY <1>3, <1>4 DEF TypeOK
<1> QED
  BY <1>1, <1>2, <1>5, <1>6 DEF q

Quiet == IgnoreResponse \/ LoseConnection \/ UNCHANGED vars

(* The remaining steps disturb nothing but what is in flight. *)
LEMMA QuietEffect ==
    ASSUME Quiet
    PROVE  UNCHANGED <<pendingRequests, phase, rid, outcome, cancelled, context, values, handling, answeredBy>>
BY DEF Quiet, IgnoreResponse, LoseConnection, vars

(* Every step is one of these. *)
LEMMA StepCases ==
    ASSUME [Next]_vars
    PROVE  \/ \E s \in Requests : \/ ReserveRequestSlot(s) \/ LateCall(s) \/ Cancel(s) \/ Handle(s)
           \/ TakeResponse \/ SetOutcome \/ Quiet
BY DEF Next, Call, LateCall, Dispatch, Quiet

(* A thread's id is fixed when it starts, so an id of its own was always its own. *)
LEMMA IdsAreFixed ==
    ASSUME TypeOK, [Next]_vars
    PROVE  /\ \A r \in Requests : Started(r) => Started(r)' /\ rid'[r] = rid[r]
           /\ \A r \in Requests : Started(r) /\ OwnId(r)' => OwnId(r)
<1> DEFINE Fixed == \A r \in Requests : Started(r) => Started(r)' /\ rid'[r] = rid[r]
<1>1. ASSUME NEW s \in Requests, ReserveRequestSlot(s) PROVE Fixed
  BY <1>1, ReserveEffect DEF TypeOK
<1>2. ASSUME NEW s \in Requests, LateCall(s) PROVE Fixed
  BY <1>2, LateCallEffect
<1>3. ASSUME NEW s \in Requests, Cancel(s) PROVE Fixed
  BY <1>3, CancelEffect DEF Started
<1>4. ASSUME NEW s \in Requests, Handle(s) PROVE Fixed
  BY <1>4, HandleEffect DEF Started
<1>5. ASSUME TakeResponse PROVE Fixed
  BY <1>5, TakeResponseEffect DEF Started
<1>6. ASSUME SetOutcome PROVE Fixed
  BY <1>6, SetOutcomeEffect DEF Started
<1>7. ASSUME Quiet PROVE Fixed
  BY <1>7, QuietEffect DEF Started
<1>8. Fixed
  BY <1>1, <1>2, <1>3, <1>4, <1>5, <1>6, <1>7, StepCases
<1>9. ASSUME NEW r \in Requests, Started(r), OwnId(r)' PROVE OwnId(r)
  BY <1>8, <1>9 DEF OwnId
<1> QED
  BY <1>8, <1>9

(* No step makes what a response says untrue: the callee's handling of a   *)
(* request only moves on.                                                  *)
LEMMA TruthKept ==
    ASSUME TypeOK, HandledOnce, [Next]_vars
    PROVE  \A q \in Requests, c \in Kinds : Truthful(c, q) => Truthful(c, q)'
<1> SUFFICES ASSUME NEW q \in Requests, NEW c \in Kinds, Truthful(c, q) PROVE Truthful(c, q)'
  OBVIOUS
<1>1. Started(q)'
  BY IdsAreFixed DEF Truthful
<1>2. ASSUME UNCHANGED <<values, context>> PROVE Truthful(c, q)'
  BY <1>1, <1>2 DEF Truthful
<1>3. ASSUME NEW s \in Requests, ReceiveRequest(s) \/ RefuseRequest(s) PROVE Truthful(c, q)'
  <2>1. UNCHANGED values /\ \A r \in Requests : r # s => context'[r] = context[r]
    BY <1>3 DEF ReceiveRequest, RefuseRequest, TypeOK
  <2>2. context[s] = "none" /\ values[s] = 0
    BY <1>3 DEF ReceiveRequest, RefuseRequest, HandledOnce
  <2> QED
    BY <1>1, <2>1, <2>2 DEF Truthful
<1>4. ASSUME NEW s \in Requests, SendValue(s) PROVE Truthful(c, q)'
  <2>1. UNCHANGED context /\ context[s] = "running"
    BY <1>4 DEF SendValue
  <2>2. values'[s] = values[s] + 1 /\ \A r \in Requests : r # s => values'[r] = values[r]
    BY <1>4 DEF SendValue, TypeOK
  <2>3. values[s] \in Nat
    BY MaxValuesAssumption DEF TypeOK
  <2>4. c = "value" => values'[q] > 0
    BY <2>2, <2>3 DEF Truthful
  <2>5. c = "void" \/ c = "error" => q # s
    BY <2>1 DEF Truthful
  <2> QED
    BY <1>1, <2>1, <2>2, <2>4, <2>5 DEF Truthful
<1>5. ASSUME NEW s \in Requests, HandlerCompletes(s) \/ HandlerFails(s) PROVE Truthful(c, q)'
  <2>1. UNCHANGED values /\ context[s] = "running"
    BY <1>5 DEF HandlerCompletes, HandlerFails
  <2>2. \A r \in Requests : r # s => context'[r] = context[r]
    BY <1>5 DEF HandlerCompletes, HandlerFails, TypeOK
  <2> QED
    BY <1>1, <2>1, <2>2 DEF Truthful
<1>6. ASSUME NEW s \in Requests, ReserveRequestSlot(s) \/ LateCall(s) \/ Cancel(s)
      PROVE  UNCHANGED <<values, context>>
  BY <1>6, ReserveEffect, LateCallEffect, CancelEffect
<1>7. ASSUME TakeResponse \/ SetOutcome \/ Quiet PROVE UNCHANGED <<values, context>>
  BY <1>7, TakeResponseEffect, SetOutcomeEffect, QuietEffect
<1> QED
  BY <1>2, <1>3, <1>4, <1>5, <1>6, <1>7, StepCases DEF Handle

----------------------------------------------------------------------------
(* Reserving a slot is the only step that fills one, and it fills a free one. *)
LEMMA SlotsHoldTheirRequestsStep == IInv /\ [Next]_vars => SlotsHoldTheirRequests'
<1> SUFFICES ASSUME IInv, [Next]_vars PROVE SlotsHoldTheirRequests'
  OBVIOUS
<1>1. TypeOK /\ SlotsHoldTheirRequests
  BY DEF IInv
<1>2. ASSUME NEW s \in Requests, ReserveRequestSlot(s) PROVE SlotsHoldTheirRequests'
  <2>1. PICK i \in Ids : /\ rid' = [rid EXCEPT ![s] = i]
                         /\ pendingRequests' = [pendingRequests EXCEPT
                                                  ![i] = IF s \in cancelled THEN None ELSE s]
    BY <1>1, <1>2, ReserveEffect
  <2>2. ~Started(s) /\ Started(s)' /\ \A r \in Requests : r # s => (Started(r)' <=> Started(r))
    BY <1>1, <1>2, ReserveEffect
  <2> QED
    BY <1>1, <2>1, <2>2, NoneAssumption DEF SlotsHoldTheirRequests, TypeOK
<1>3. ASSUME NEW s \in Requests, LateCall(s) PROVE SlotsHoldTheirRequests'
  BY <1>1, <1>3, LateCallEffect DEF SlotsHoldTheirRequests
<1>4. ASSUME NEW s \in Requests, Cancel(s) PROVE SlotsHoldTheirRequests'
  <2>1. UNCHANGED <<phase, rid>> /\ \A i \in Ids : pendingRequests'[i] \in {pendingRequests[i], None}
    BY <1>1, <1>4, CancelEffect DEF TypeOK
  <2> QED
    BY <1>1, <2>1, NoneAssumption DEF SlotsHoldTheirRequests, Started
<1>5. ASSUME NEW s \in Requests, Handle(s) PROVE SlotsHoldTheirRequests'
  BY <1>1, <1>5, HandleEffect DEF SlotsHoldTheirRequests, Started
<1>6. CASE TakeResponse
  <2>1. UNCHANGED <<phase, rid>> /\ \A i \in Ids : pendingRequests'[i] \in {pendingRequests[i], None}
    BY <1>1, <1>6, TakeResponseEffect DEF TypeOK
  <2> QED
    BY <1>1, <2>1, NoneAssumption DEF SlotsHoldTheirRequests, Started
<1>7. CASE SetOutcome
  BY <1>1, <1>7, SetOutcomeEffect DEF SlotsHoldTheirRequests, Started
<1>8. CASE Quiet
  BY <1>1, <1>8, QuietEffect DEF SlotsHoldTheirRequests, Started
<1> QED
  BY <1>2, <1>3, <1>4, <1>5, <1>6, <1>7, <1>8, StepCases

(* A truthful reply leaves the responses in flight truthful. *)
LEMMA ReplyTruthful ==
    ASSUME TypeOK, TruthfulResponses, NEW r \in Requests, NEW kind \in Kinds,
           Reply(r, kind), UNCHANGED rid, Truthful(kind, r)',
           \A q \in Requests, c \in Kinds : Truthful(c, q) => Truthful(c, q)'
    PROVE  TruthfulResponses'
<1> DEFINE m == [kind |-> kind, from |-> r, id |-> rid[r]]
<1>1. \A k \in 1 .. Len(responses) : responses[k] \in Responses
  BY DEF TypeOK
<1>2. CASE up
  <2>1. responses' = Append(responses, m) /\ responses \in Seq(Responses)
    BY <1>2 DEF Reply, TypeOK
  <2> SUFFICES ASSUME NEW k \in 1 .. Len(responses')
               PROVE  /\ Truthful(responses[k].kind, responses[k].from)'
                      /\ responses'[k].id = rid'[responses'[k].from]
    BY DEF TruthfulResponses
  <2>2. CASE k = Len(responses) + 1
    <3>1. responses'[k] = m
      BY <2>1, <2>2
    <3> QED
      BY <3>1
  <2>3. CASE k # Len(responses) + 1
    <3>1. k \in 1 .. Len(responses) /\ responses'[k] = responses[k]
      BY <2>1, <2>3
    <3> QED
      BY <3>1, <1>1 DEF TruthfulResponses, Responses
  <2> QED
    BY <2>2, <2>3
<1>3. CASE ~up
  BY <1>1, <1>3 DEF Reply, TruthfulResponses, Responses
<1> QED
  BY <1>2, <1>3

(* So do the steps that add no response. *)
LEMMA NoReplyTruthful ==
    ASSUME TypeOK, HandledOnce, TruthfulResponses, [Next]_vars,
           \A k \in 1 .. Len(responses') : \E j \in 1 .. Len(responses) : responses'[k] = responses[j]
    PROVE  TruthfulResponses'
<1> SUFFICES ASSUME NEW k \in 1 .. Len(responses')
             PROVE  /\ Truthful(responses[k].kind, responses[k].from)'
                    /\ responses'[k].id = rid'[responses'[k].from]
  BY DEF TruthfulResponses
<1>1. PICK j \in 1 .. Len(responses) : responses'[k] = responses[j]
  OBVIOUS
<1> DEFINE m == responses[j]
<1>2. m.kind \in Kinds /\ m.from \in Requests
  <2>1. m \in Responses
    BY DEF TypeOK
  <2> QED
    BY <2>1 DEF Responses
<1>3. Truthful(m.kind, m.from) /\ m.id = rid[m.from]
  BY DEF TruthfulResponses
<1>4. rid'[m.from] = rid[m.from]
  BY <1>2, <1>3, IdsAreFixed DEF Truthful
<1> HIDE DEF m
<1>5. \A q \in Requests, c \in Kinds : Truthful(c, q) => Truthful(c, q)'
  BY TruthKept
<1>6. responses'[k] = m
  BY <1>1 DEF m
<1>7. Truthful(responses'[k].kind, responses'[k].from) => Truthful(responses[k].kind, responses[k].from)'
  BY <1>2, <1>5, <1>6 DEF Truthful
<1> QED
  BY <1>3, <1>4, <1>6, <1>7

(* Handlers send the only responses, and what a response says stays true. *)
LEMMA TruthfulResponsesStep == IInv /\ [Next]_vars => TruthfulResponses'
<1> SUFFICES ASSUME IInv, [Next]_vars PROVE TruthfulResponses'
  OBVIOUS
<1>1. TypeOK /\ HandledOnce /\ TruthfulResponses
  BY DEF IInv
<1>2. \A q \in Requests, c \in Kinds : Truthful(c, q) => Truthful(c, q)'
  BY <1>1, TruthKept
<1>3. ASSUME UNCHANGED responses PROVE TruthfulResponses'
  BY <1>1, <1>3, NoReplyTruthful
<1>4. ASSUME NEW s \in Requests, ReserveRequestSlot(s) \/ LateCall(s) \/ Cancel(s) \/ ReceiveRequest(s)
      PROVE  UNCHANGED responses
  BY <1>1, <1>4, ReserveEffect, LateCallEffect, CancelEffect DEF ReceiveRequest
<1>5. ASSUME NEW s \in Requests, RefuseRequest(s) PROVE TruthfulResponses'
  <2>1. Reply(s, "error") /\ UNCHANGED <<phase, rid>>
    BY <1>5 DEF RefuseRequest
  <2>2. context'[s] = "failed"
    BY <1>1, <1>5 DEF RefuseRequest, TypeOK
  <2>3. Started(s)'
    BY <1>1, <1>5, <2>1 DEF RefuseRequest, HandledOnce, Started
  <2> QED
    BY <1>1, <1>2, <2>1, <2>2, <2>3, ReplyTruthful DEF Kinds, Truthful
<1>6. ASSUME NEW s \in Requests, SendValue(s) PROVE TruthfulResponses'
  <2>1. Reply(s, "value") /\ UNCHANGED <<phase, rid>> /\ context[s] = "running"
    BY <1>6 DEF SendValue
  <2>2. values'[s] > 0
    BY <1>1, <1>6, MaxValuesAssumption DEF SendValue, TypeOK
  <2>3. Started(s)'
    BY <1>1, <2>1 DEF HandledOnce, Started, TypeOK, Phases
  <2> QED
    BY <1>1, <1>2, <2>1, <2>2, <2>3, ReplyTruthful DEF Kinds, Truthful
<1>7. ASSUME NEW s \in Requests, HandlerCompletes(s) PROVE TruthfulResponses'
  <2>1. /\ Reply(s, IF values[s] > 0 THEN "done" ELSE "void")
        /\ UNCHANGED <<phase, rid, values>> /\ context[s] = "running"
    BY <1>7 DEF HandlerCompletes
  <2>2. context'[s] = "completed"
    BY <1>1, <1>7 DEF HandlerCompletes, TypeOK
  <2>3. Started(s)'
    BY <1>1, <2>1 DEF HandledOnce, Started, TypeOK, Phases
  <2>4. CASE values[s] > 0
    <3>1. Reply(s, "done") /\ Truthful("done", s)'
      BY <2>1, <2>3, <2>4 DEF Truthful
    <3> QED
      BY <1>1, <1>2, <2>1, <3>1, ReplyTruthful DEF Kinds
  <2>5. CASE ~(values[s] > 0)
    <3>1. values'[s] = 0
      BY <1>1, <2>1, <2>5, MaxValuesAssumption DEF TypeOK
    <3>2. Reply(s, "void") /\ Truthful("void", s)'
      BY <2>1, <2>2, <2>3, <2>5, <3>1 DEF Truthful
    <3> QED
      BY <1>1, <1>2, <2>1, <3>2, ReplyTruthful DEF Kinds
  <2> QED
    BY <2>4, <2>5
<1>8. ASSUME NEW s \in Requests, HandlerFails(s) PROVE TruthfulResponses'
  <2>1. Reply(s, "error") /\ UNCHANGED <<phase, rid>> /\ context[s] = "running"
    BY <1>8 DEF HandlerFails
  <2>2. context'[s] = "failed"
    BY <1>1, <1>8 DEF HandlerFails, TypeOK
  <2>3. Started(s)'
    BY <1>1, <2>1 DEF HandledOnce, Started, TypeOK, Phases
  <2> QED
    BY <1>1, <1>2, <2>1, <2>2, <2>3, ReplyTruthful DEF Kinds, Truthful
<1>9. CASE TakeResponse \/ IgnoreResponse
  <2>1. responses # << >> /\ responses' = Tail(responses) /\ responses \in Seq(Responses)
    BY <1>1, <1>9 DEF TakeResponse, IgnoreResponse, TypeOK
  <2>2. \A k \in 1 .. Len(responses') : k + 1 \in 1 .. Len(responses) /\ responses'[k] = responses[k + 1]
    BY <2>1
  <2> QED
    BY <1>1, <2>2, NoReplyTruthful
<1>10. CASE SetOutcome \/ UNCHANGED vars
  BY <1>1, <1>3, <1>10, SetOutcomeEffect DEF vars
<1>11. CASE LoseConnection
  <2>1. Len(responses') = 0
    BY <1>11 DEF LoseConnection
  <2> QED
    BY <1>1, <2>1, NoReplyTruthful
<1> QED
  BY <1>3, <1>4, <1>5, <1>6, <1>7, <1>8, <1>9, <1>10, <1>11, StepCases DEF Handle, Quiet

(* freeRequestSlot empties the slot it hands to the dispatcher. *)
LEMMA HandlingIsTakenStep == IInv /\ [Next]_vars => HandlingIsTaken'
<1> SUFFICES ASSUME IInv, [Next]_vars, handling' # Nobody PROVE HandlingIsTaken'
  BY DEF HandlingIsTaken
<1>1. TypeOK /\ HandledOnce /\ HandlingIsTaken /\ SlotsHoldTheirRequests /\ TruthfulResponses
  BY DEF IInv
<1>2. \A q \in Requests, c \in Kinds : Truthful(c, q) => Truthful(c, q)'
  BY <1>1, TruthKept
<1>3. ASSUME UNCHANGED handling,
             \A i \in Ids : pendingRequests'[i] = handling.req => pendingRequests[i] = handling.req
      PROVE  HandlingIsTaken'
  <2>1. handling.kind \in Kinds /\ handling.from \in Requests /\ handling.req \in Requests
    BY <1>1, <1>3 DEF TypeOK, Handlings
  <2>2. /\ Truthful(handling.kind, handling.from) /\ Started(handling.req)
        /\ rid[handling.from] = rid[handling.req]
        /\ pendingRequests[rid[handling.req]] # handling.req
    BY <1>1, <1>3 DEF HandlingIsTaken
  <2>3. Started(handling.from)
    BY <2>2 DEF Truthful
  <2>4. /\ rid'[handling.from] = rid[handling.from]
        /\ Started(handling.req)' /\ rid'[handling.req] = rid[handling.req]
    BY <1>1, <1>3, <2>1, <2>2, <2>3, IdsAreFixed DEF Started
  <2>5. rid[handling.req] \in Ids
    BY <1>1, <2>1 DEF TypeOK
  <2>6. Truthful(handling.kind, handling.from)'
    BY <1>2, <1>3, <2>1, <2>2 DEF Truthful
  <2> QED
    BY <1>3, <2>2, <2>4, <2>5, <2>6 DEF HandlingIsTaken
<1>4. ASSUME NEW s \in Requests, ReserveRequestSlot(s) PROVE HandlingIsTaken'
  <2>1. PICK i \in Ids : pendingRequests' = [pendingRequests EXCEPT
                                               ![i] = IF s \in cancelled THEN None ELSE s]
    BY <1>1, <1>4, ReserveEffect
  <2>2. UNCHANGED handling /\ ~Started(s)
    BY <1>1, <1>4, ReserveEffect
  <2>3. handling.req \in Requests /\ handling.req # s
    BY <1>1, <2>2 DEF HandlingIsTaken, TypeOK, Handlings
  <2> QED
    BY <1>1, <1>3, <2>1, <2>2, <2>3, NoneAssumption DEF TypeOK
<1>5. ASSUME NEW s \in Requests, LateCall(s) PROVE HandlingIsTaken'
  BY <1>1, <1>3, <1>5, LateCallEffect
<1>6. ASSUME NEW s \in Requests, Cancel(s) PROVE HandlingIsTaken'
  <2>1. UNCHANGED handling /\ \A i \in Ids : pendingRequests'[i] \in {pendingRequests[i], None}
    BY <1>1, <1>6, CancelEffect DEF TypeOK
  <2>2. handling.req # None
    BY <1>1, <2>1, NoneAssumption DEF TypeOK, Handlings
  <2> QED
    BY <1>3, <2>1, <2>2
<1>7. ASSUME NEW s \in Requests, Handle(s) PROVE HandlingIsTaken'
  BY <1>3, <1>7, HandleEffect
<1>8. CASE TakeResponse
  <2> DEFINE m == Head(responses)
             q == pendingRequests[m.id]
  <2>1. /\ m \in Responses /\ q \in Requests
        /\ handling' = [kind |-> m.kind, from |-> m.from, req |-> q]
        /\ pendingRequests' = [pendingRequests EXCEPT ![m.id] = None]
        /\ UNCHANGED <<phase, rid, context, values>>
    BY <1>1, <1>8, TakeResponseEffect
  <2>2. Truthful(m.kind, m.from) /\ m.id = rid[m.from]
    <3>1. responses # << >> /\ responses \in Seq(Responses)
      BY <1>1, <1>8 DEF TakeResponse, TypeOK
    <3>2. 1 \in 1 .. Len(responses) /\ m = responses[1]
      BY <3>1
    <3> QED
      BY <1>1, <3>2 DEF TruthfulResponses
  <2> HIDE DEF m
  <2>3. m.id \in Ids /\ m.kind \in Kinds /\ m.from \in Requests
    BY <2>1 DEF Responses
  <2>4. rid[q] = m.id /\ Started(q)
    BY <1>1, <2>1, <2>3 DEF SlotsHoldTheirRequests
  <2>5. pendingRequests'[m.id] = None
    BY <1>1, <2>1, <2>3 DEF TypeOK
  <2> HIDE DEF q
  <2>6. PICK c \in Kinds, f \in Requests : c = m.kind /\ f = m.from
    BY <2>3
  <2>7. handling'.kind = c /\ handling'.from = f /\ handling'.req = q
    BY <2>1, <2>6
  <2>8. Truthful(c, f)'
    BY <1>2, <2>2, <2>6
  <2>9. Truthful(handling.kind, handling.from)'
    BY <2>7, <2>8 DEF Truthful
  <2>10. Started(handling.req)'
    BY <2>1, <2>4, <2>7 DEF Started
  <2> QED
    BY <2>1, <2>2, <2>4, <2>5, <2>6, <2>7, <2>9, <2>10, NoneAssumption DEF HandlingIsTaken
<1>9. CASE SetOutcome
  BY <1>1, <1>9, SetOutcomeEffect
<1>10. CASE Quiet
  BY <1>3, <1>10, QuietEffect
<1> QED
  BY <1>4, <1>5, <1>6, <1>7, <1>8, <1>9, <1>10, StepCases

(* A request is sent once and received once. *)
LEMMA HandledOnceStep == IInv /\ [Next]_vars => HandledOnce'
<1> SUFFICES ASSUME IInv, [Next]_vars PROVE HandledOnce'
  OBVIOUS
<1>1. TypeOK /\ HandledOnce
  BY DEF IInv
<1>2. ASSUME UNCHANGED <<onWire, context, values>>,
             \A r \in Requests : \/ phase'[r] = phase[r]
                                 \/ phase'[r] = "reserved" /\ phase[r] = "idle"
                                 \/ phase'[r] = "rejected" /\ phase[r] = "idle"
                                 \/ phase'[r] \in {"sent", "returned"}
      PROVE  HandledOnce'
  BY <1>1, <1>2 DEF HandledOnce
<1>3. ASSUME NEW s \in Requests, ReserveRequestSlot(s) PROVE HandledOnce'
  BY <1>1, <1>2, <1>3, ReserveEffect
<1>4. ASSUME NEW s \in Requests, RejectRequest(s) PROVE HandledOnce'
  BY <1>1, <1>2, <1>4 DEF RejectRequest, TypeOK
<1>5. ASSUME NEW s \in Requests, Send(s) PROVE HandledOnce'
  <2>1. UNCHANGED <<context, values>> /\ phase[s] = "reserved" /\ onWire' \in {onWire, onWire \cup {s}}
    BY <1>5 DEF Send
  <2>2. phase'[s] = "sent" /\ \A r \in Requests : r # s => phase'[r] = phase[r]
    BY <1>1, <1>5 DEF Send, TypeOK
  <2> QED
    BY <1>1, <2>1, <2>2 DEF HandledOnce
<1>6. ASSUME NEW s \in Requests, SendFails(s) \/ Return(s) PROVE HandledOnce'
  <2>1. UNCHANGED <<onWire, context, values>>
    BY <1>6 DEF SendFails, Return
  <2>2. phase'[s] \in {"sent", "returned"} /\ \A r \in Requests : r # s => phase'[r] = phase[r]
    BY <1>1, <1>6 DEF SendFails, Return, TypeOK
  <2> QED
    BY <1>2, <2>1, <2>2
<1>7. ASSUME NEW s \in Requests, Cancel(s) PROVE HandledOnce'
  BY <1>1, <1>2, <1>7, CancelEffect
<1>8. ASSUME NEW s \in Requests, ReceiveRequest(s) \/ RefuseRequest(s) PROVE HandledOnce'
  <2>1. /\ s \in onWire /\ onWire' = onWire \ {s}
        /\ UNCHANGED <<phase, values>>
    BY <1>8 DEF ReceiveRequest, RefuseRequest
  <2>2. context'[s] # "none" /\ \A r \in Requests : r # s => context'[r] = context[r]
    BY <1>1, <1>8 DEF ReceiveRequest, RefuseRequest, TypeOK
  <2>3. phase[s] \in {"sent", "returned"}
    BY <1>1, <2>1 DEF HandledOnce
  <2> QED
    BY <1>1, <2>1, <2>2, <2>3 DEF HandledOnce
<1>9. ASSUME NEW s \in Requests, SendValue(s) PROVE HandledOnce'
  <2>1. UNCHANGED <<onWire, phase, context>> /\ context[s] = "running"
    BY <1>9 DEF SendValue
  <2>2. \A r \in Requests : r # s => values'[r] = values[r]
    BY <1>1, <1>9 DEF SendValue, TypeOK
  <2> QED
    BY <1>1, <2>1, <2>2 DEF HandledOnce
<1>10. ASSUME NEW s \in Requests, HandlerCompletes(s) \/ HandlerFails(s) PROVE HandledOnce'
  <2>1. UNCHANGED <<onWire, phase, values>> /\ context[s] = "running"
    BY <1>10 DEF HandlerCompletes, HandlerFails
  <2>2. context'[s] # "none" /\ \A r \in Requests : r # s => context'[r] = context[r]
    BY <1>1, <1>10 DEF HandlerCompletes, HandlerFails, TypeOK
  <2> QED
    BY <1>1, <2>1, <2>2 DEF HandledOnce
<1>11. CASE TakeResponse \/ SetOutcome
  BY <1>1, <1>2, <1>11, TakeResponseEffect, SetOutcomeEffect
<1>12. CASE Quiet
  <2>1. UNCHANGED <<phase, context, values>> /\ onWire' \in {onWire, {}}
    BY <1>12 DEF Quiet, IgnoreResponse, LoseConnection, vars
  <2> QED
    BY <1>1, <2>1 DEF HandledOnce
<1> QED
  BY <1>3, <1>4, <1>5, <1>6, <1>7, <1>8, <1>9, <1>10, <1>11, <1>12, StepCases DEF LateCall, Handle

(* Nothing touches the outcome of a call that has no slot yet. *)
LEMMA IdleIsPendingStep == IInv /\ [Next]_vars => IdleIsPending'
<1> SUFFICES ASSUME IInv, [Next]_vars PROVE IdleIsPending'
  OBVIOUS
<1>1. TypeOK /\ IdleIsPending /\ SlotsHoldTheirRequests /\ HandlingIsTaken
  BY DEF IInv
<1> SUFFICES ASSUME NEW r \in Requests, ~Started(r)'
             PROVE  outcome'[r] = "pending" /\ answeredBy'[r] = None
  BY DEF IdleIsPending
<1>2. ~Started(r) /\ outcome[r] = "pending" /\ answeredBy[r] = None
  BY <1>1, IdsAreFixed DEF IdleIsPending
<1>3. ASSUME NEW s \in Requests, ReserveRequestSlot(s) \/ Handle(s)
      PROVE  UNCHANGED <<outcome, answeredBy>>
  BY <1>1, <1>3, ReserveEffect, HandleEffect
<1>4. ASSUME NEW s \in Requests, RejectRequest(s) \/ Send(s) PROVE UNCHANGED <<outcome, answeredBy>>
  BY <1>4 DEF RejectRequest, Send
<1>5. ASSUME NEW s \in Requests, SendFails(s) \/ Return(s)
      PROVE  outcome'[r] = outcome[r] /\ UNCHANGED answeredBy
  <2>1. phase[s] \in {"reserved", "sent"} /\ LateCall(s)
    BY <1>5 DEF SendFails, Return, LateCall
  <2>2. r # s
    BY <1>2, <2>1 DEF Started
  <2> QED
    BY <1>1, <2>1, <2>2, LateCallEffect
<1>6. ASSUME NEW s \in Requests, Cancel(s) PROVE outcome'[r] = outcome[r] /\ UNCHANGED answeredBy
  <2>1. r # pendingRequests[rid[s]]
    BY <1>1, <1>2 DEF SlotsHoldTheirRequests, TypeOK
  <2> QED
    BY <1>1, <1>6, <2>1, CancelEffect
<1>7. CASE TakeResponse \/ Quiet
  BY <1>1, <1>2, <1>7, TakeResponseEffect, QuietEffect
<1>8. CASE SetOutcome
  <2>1. r # handling.req
    BY <1>1, <1>2, <1>8, SetOutcomeEffect DEF HandlingIsTaken
  <2> QED
    BY <1>1, <1>2, <1>8, <2>1, SetOutcomeEffect
<1> QED
  BY <1>2, <1>3, <1>4, <1>5, <1>6, <1>7, <1>8, StepCases DEF LateCall

(* What leaves the table goes to the dispatcher or takes its event with it. *)
LEMMA NoOrphanStep == IInv /\ [Next]_vars => NoOrphan'
<1> SUFFICES ASSUME IInv, [Next]_vars PROVE NoOrphan'
  OBVIOUS
<1>1. TypeOK /\ NoOrphan /\ SlotsHoldTheirRequests
  BY DEF IInv
<1> SUFFICES ASSUME NEW r \in Requests, Started(r)', outcome'[r] = "pending", phase'[r] = "returned"
             PROVE  pendingRequests'[rid'[r]] = r \/ handling'.req = r
  BY DEF NoOrphan
<1>2. ASSUME Started(r), outcome[r] = "pending", phase[r] = "returned"
      PROVE  pendingRequests[rid[r]] = r \/ handling.req = r
  BY <1>1, <1>2 DEF NoOrphan
<1>3. ASSUME NEW s \in Requests, ReserveRequestSlot(s)
      PROVE  pendingRequests'[rid'[r]] = r \/ handling'.req = r
  <2>1. PICK i \in Ids : /\ pendingRequests[i] = None
                         /\ rid' = [rid EXCEPT ![s] = i]
                         /\ pendingRequests' = [pendingRequests EXCEPT
                                                  ![i] = IF s \in cancelled THEN None ELSE s]
    BY <1>1, <1>3, ReserveEffect
  <2>2. UNCHANGED <<outcome, handling>> /\ r # s /\ phase'[r] = phase[r] /\ Started(r)
    BY <1>1, <1>3, ReserveEffect
  <2>3. pendingRequests[rid[r]] = r \/ handling.req = r
    BY <1>2, <2>2
  <2> QED
    BY <1>1, <2>1, <2>2, <2>3, NoneAssumption DEF TypeOK
<1>4. ASSUME NEW s \in Requests, LateCall(s)
      PROVE  pendingRequests'[rid'[r]] = r \/ handling'.req = r
  <2>1. /\ UNCHANGED <<pendingRequests, rid, handling>> /\ Started(r)
        /\ r # s => phase'[r] = phase[r] /\ outcome'[r] = outcome[r]
    BY <1>1, <1>4, LateCallEffect
  <2>2. CASE r # s
    BY <1>2, <2>1, <2>2
  <2>3. CASE r = s
    <3>1. Return(s)
      BY <1>1, <1>4, <2>3, SendFailsEffect DEF LateCall, RejectRequest, Send, TypeOK
    <3> QED
      BY <1>1, <2>1, <2>3, <3>1, ReturnEffect
  <2> QED
    BY <2>2, <2>3
<1>5. ASSUME NEW s \in Requests, Cancel(s)
      PROVE  pendingRequests'[rid'[r]] = r \/ handling'.req = r
  <2>1. UNCHANGED <<phase, rid, handling>> /\ Started(r)
    BY <1>1, <1>5, CancelEffect DEF Started
  <2>2. CASE ~Started(s)
    BY <1>1, <1>2, <1>5, <2>1, <2>2, CancelEffect
  <2>3. CASE Started(s)
    <3>1. r # pendingRequests[rid[s]] /\ outcome'[r] = outcome[r]
      BY <1>1, <1>5, <2>1, <2>3, CancelEffect DEF Dropped
    <3>2. pendingRequests[rid[r]] = r \/ handling.req = r
      BY <1>2, <2>1, <3>1
    <3>3. pendingRequests[rid[r]] = r => rid[r] # rid[s]
      BY <3>1
    <3>4. pendingRequests' = [pendingRequests EXCEPT ![rid[s]] = None]
      BY <1>1, <1>5, <2>3, CancelEffect
    <3> QED
      BY <1>1, <2>1, <3>2, <3>3, <3>4 DEF TypeOK
  <2> QED
    BY <2>2, <2>3
<1>6. ASSUME NEW s \in Requests, Handle(s)
      PROVE  pendingRequests'[rid'[r]] = r \/ handling'.req = r
  BY <1>2, <1>6, HandleEffect DEF Started
<1>7. CASE TakeResponse
  <2> DEFINE i == Head(responses).id
  <2>1. /\ handling = Nobody /\ handling'.req = pendingRequests[i]
        /\ pendingRequests' = [pendingRequests EXCEPT ![i] = None]
        /\ UNCHANGED <<phase, rid, outcome>>
    BY <1>1, <1>7, TakeResponseEffect
  <2> HIDE DEF i
  <2>2. Started(r) /\ pendingRequests[rid[r]] = r
    BY <1>2, <2>1, NoneAssumption DEF Started, Nobody
  <2> QED
    BY <1>1, <2>1, <2>2 DEF TypeOK
<1>8. CASE SetOutcome
  <2>1. UNCHANGED <<pendingRequests, phase, rid>> /\ r # handling.req /\ outcome'[r] = outcome[r]
    BY <1>1, <1>8, SetOutcomeEffect
  <2> QED
    BY <1>2, <2>1 DEF Started
<1>9. CASE Quiet
  BY <1>2, <1>9, QuietEffect DEF Started
<1> QED
  BY <1>3, <1>4, <1>5, <1>6, <1>7, <1>8, <1>9, StepCases

(* Only a failed send ends a request that is still in the table. *)
LEMMA OnlyFailedSendsLeakStep == IInv /\ [Next]_vars => OnlyFailedSendsLeak'
<1> SUFFICES ASSUME IInv, [Next]_vars PROVE OnlyFailedSendsLeak'
  OBVIOUS
<1>1. TypeOK /\ OnlyFailedSendsLeak /\ SlotsHoldTheirRequests /\ IdleIsPending /\ HandlingIsTaken
  BY DEF IInv
<1>2. ASSUME \A i \in Ids : \A r \in Requests :
               pendingRequests'[i] = r => /\ pendingRequests[i] = r
                                          /\ outcome'[r] \in {outcome[r], "sendError"}
      PROVE  OnlyFailedSendsLeak'
  BY <1>1, <1>2 DEF OnlyFailedSendsLeak
<1>3. ASSUME NEW s \in Requests, ReserveRequestSlot(s) PROVE OnlyFailedSendsLeak'
  <2>1. PICK i \in Ids : pendingRequests' = [pendingRequests EXCEPT
                                               ![i] = IF s \in cancelled THEN None ELSE s]
    BY <1>1, <1>3, ReserveEffect
  <2>2. outcome[s] = "pending" /\ UNCHANGED outcome
    BY <1>1, <1>3, ReserveEffect DEF IdleIsPending
  <2> QED
    BY <1>1, <2>1, <2>2, NoneAssumption DEF OnlyFailedSendsLeak, TypeOK
<1>4. ASSUME NEW s \in Requests, RejectRequest(s) \/ Send(s) PROVE OnlyFailedSendsLeak'
  BY <1>2, <1>4 DEF RejectRequest, Send
<1>5. ASSUME NEW s \in Requests, SendFails(s) PROVE OnlyFailedSendsLeak'
  <2>1. UNCHANGED pendingRequests /\ \A r \in Requests : outcome'[r] \in {outcome[r], "sendError"}
    BY <1>1, <1>5, SendFailsEffect, LateCallEffect DEF LateCall
  <2> QED
    BY <1>2, <2>1
<1>6. ASSUME NEW s \in Requests, Return(s) PROVE OnlyFailedSendsLeak'
  <2>1. UNCHANGED pendingRequests /\ \A r \in Requests : r # s => outcome'[r] = outcome[r]
    BY <1>1, <1>6, LateCallEffect DEF LateCall
  <2>2. outcome'[s] = outcome[s] \/ pendingRequests[rid[s]] # s
    BY <1>1, <1>6, ReturnEffect
  <2>3. \A i \in Ids : pendingRequests[i] = s => rid[s] = i
    BY <1>1 DEF SlotsHoldTheirRequests
  <2> QED
    BY <1>2, <2>1, <2>2, <2>3
<1>7. ASSUME NEW s \in Requests, Cancel(s) PROVE OnlyFailedSendsLeak'
  <2>1. CASE ~Started(s)
    BY <1>1, <1>2, <1>7, <2>1, CancelEffect
  <2>2. CASE Started(s)
    <3> DEFINE holder == pendingRequests[rid[s]]
    <3>1. pendingRequests' = [pendingRequests EXCEPT ![rid[s]] = None] /\ rid[s] \in Ids
      BY <1>1, <1>7, <2>2, CancelEffect DEF TypeOK
    <3>2. \A r \in Requests : r # holder => outcome'[r] = outcome[r]
      BY <1>1, <1>7, <2>2, CancelEffect
    <3>3. \A i \in Ids : \A r \in Requests : pendingRequests[i] = r /\ r = holder => i = rid[s]
      BY <1>1, <3>1 DEF SlotsHoldTheirRequests
    <3> HIDE DEF holder
    <3>4. \A i \in Ids : \A r \in Requests : pendingRequests'[i] = r => pendingRequests[i] = r /\ i # rid[s]
      BY <1>1, <3>1, NoneAssumption DEF TypeOK
    <3> QED
      BY <1>2, <3>2, <3>3, <3>4
  <2> QED
    BY <2>1, <2>2
<1>8. ASSUME NEW s \in Requests, Handle(s) PROVE OnlyFailedSendsLeak'
  BY <1>2, <1>8, HandleEffect
<1>9. CASE TakeResponse
  <2> DEFINE j == Head(responses).id
  <2>1. UNCHANGED outcome /\ pendingRequests' = [pendingRequests EXCEPT ![j] = None]
    BY <1>1, <1>9, TakeResponseEffect
  <2> HIDE DEF j
  <2>2. \A i \in Ids : \A r \in Requests : pendingRequests'[i] = r => pendingRequests[i] = r
    BY <1>1, <2>1, NoneAssumption DEF TypeOK
  <2> QED
    BY <1>2, <2>1, <2>2
<1>10. CASE SetOutcome
  <2>1. /\ UNCHANGED pendingRequests
        /\ \A r \in Requests : r # handling.req => outcome'[r] = outcome[r]
    BY <1>1, <1>10, SetOutcomeEffect
  <2>2. \A i \in Ids : pendingRequests[i] # handling.req
    BY <1>1, <1>10, SetOutcomeEffect DEF HandlingIsTaken, SlotsHoldTheirRequests
  <2> QED
    BY <1>2, <2>1, <2>2
<1>11. CASE Quiet
  BY <1>2, <1>11, QuietEffect
<1> QED
  BY <1>3, <1>4, <1>5, <1>6, <1>7, <1>8, <1>9, <1>10, <1>11, StepCases DEF LateCall

(* The callback of another request's token frees another id. *)
LEMMA OutOfTableStep == IInv /\ [Next]_vars => OutOfTable'
<1> SUFFICES ASSUME IInv, [Next]_vars PROVE OutOfTable'
  OBVIOUS
<1>1. TypeOK /\ OutOfTable
  BY DEF IInv
<1> DEFINE Found(r) == pendingRequests[rid[r]] = r \/ handling.req = r \/ r \in cancelled
           Waits(r) == Started(r) /\ OwnId(r) /\ outcome[r] = "pending"
<1> SUFFICES ASSUME NEW r \in Requests, Started(r)', OwnId(r)', outcome'[r] = "pending"
             PROVE  Found(r)'
  BY DEF OutOfTable
<1>2. ASSUME Waits(r) PROVE Found(r) /\ rid'[r] = rid[r]
  BY <1>1, <1>2, IdsAreFixed DEF OutOfTable
<1>3. Started(r) => OwnId(r)
  BY <1>1, IdsAreFixed
<1> HIDE DEF Waits
<1>4. ASSUME NEW s \in Requests, ReserveRequestSlot(s) PROVE Found(r)'
  <2>1. PICK i \in Ids : /\ pendingRequests[i] = None
                         /\ rid' = [rid EXCEPT ![s] = i]
                         /\ pendingRequests' = [pendingRequests EXCEPT
                                                  ![i] = IF s \in cancelled THEN None ELSE s]
    BY <1>1, <1>4, ReserveEffect
  <2>2. UNCHANGED <<outcome, cancelled, handling>> /\ (r # s => Started(r))
    BY <1>1, <1>4, ReserveEffect
  <2>3. CASE r = s
    BY <1>1, <2>1, <2>2, <2>3 DEF TypeOK
  <2>4. CASE r # s
    <3>1. Found(r) /\ rid'[r] = rid[r] /\ rid[r] \in Ids
      BY <1>1, <1>2, <1>3, <2>2, <2>4 DEF Waits, TypeOK
    <3>2. pendingRequests[rid[r]] = r => pendingRequests'[rid[r]] = r
      BY <1>1, <2>1, <3>1, NoneAssumption DEF TypeOK
    <3> QED
      BY <2>2, <3>1, <3>2
  <2> QED
    BY <2>3, <2>4
<1>5. ASSUME NEW s \in Requests, LateCall(s) PROVE Found(r)'
  <2>1. UNCHANGED <<pendingRequests, rid, cancelled, handling>> /\ Started(r)
    BY <1>1, <1>5, LateCallEffect
  <2>2. outcome[r] = "pending"
    <3>1. CASE r # s
      BY <1>1, <1>5, <3>1, LateCallEffect
    <3>2. CASE r = s
      BY <1>1, <1>5, <3>2, SendFailsEffect, ReturnEffect DEF LateCall, RejectRequest, Send
    <3> QED
      BY <3>1, <3>2
  <2> QED
    BY <1>2, <1>3, <2>1, <2>2 DEF Waits
<1>6. ASSUME NEW s \in Requests, Cancel(s) PROVE Found(r)'
  <2>1. cancelled' = cancelled \cup {s} /\ UNCHANGED <<phase, rid, handling>>
    BY <1>1, <1>6, CancelEffect
  <2>2. CASE r = s
    BY <2>1, <2>2
  <2>3. CASE r # s
    <3>1. Started(r) /\ OwnId(r)
      BY <1>3, <2>1 DEF Started
    <3>2. Started(s) => rid[r] # rid[s]
      BY <2>3, <3>1 DEF OwnId
    <3>3. pendingRequests'[rid[r]] = pendingRequests[rid[r]]
      BY <1>1, <1>6, <3>2, CancelEffect DEF TypeOK
    <3>4. outcome[r] = "pending"
      BY <1>1, <1>6, CancelEffect DEF Dropped
    <3>5. Found(r) /\ rid'[r] = rid[r]
      BY <1>2, <3>1, <3>4 DEF Waits
    <3> QED
      BY <2>1, <3>3, <3>5
  <2> QED
    BY <2>2, <2>3
<1>7. ASSUME NEW s \in Requests, Handle(s) PROVE Found(r)'
  BY <1>2, <1>3, <1>7, HandleEffect DEF Waits, Started
<1>8. CASE TakeResponse
  <2> DEFINE i == Head(responses).id
  <2>1. /\ handling = Nobody /\ handling'.req = pendingRequests[i]
        /\ pendingRequests' = [pendingRequests EXCEPT ![i] = None]
        /\ UNCHANGED <<phase, rid, outcome, cancelled>>
    BY <1>1, <1>8, TakeResponseEffect
  <2> HIDE DEF i
  <2>2. pendingRequests[rid[r]] = r \/ r \in cancelled
    BY <1>2, <1>3, <2>1, NoneAssumption DEF Waits, Started, Nobody
  <2> QED
    BY <1>1, <2>1, <2>2 DEF TypeOK
<1>9. CASE SetOutcome
  <2>1. /\ UNCHANGED <<pendingRequests, phase, rid, cancelled>>
        /\ r # handling.req /\ outcome'[r] = outcome[r]
    BY <1>1, <1>9, SetOutcomeEffect
  <2> QED
    BY <1>2, <1>3, <2>1 DEF Waits, Started
<1>10. CASE Quiet
  BY <1>2, <1>3, <1>10, QuietEffect DEF Waits, Started
<1> QED
  BY <1>4, <1>5, <1>6, <1>7, <1>8, <1>9, <1>10, StepCases

(* A response or a callback reaches a request only under the request's id. *)
LEMMA OwnAnswerStep == IInv /\ [Next]_vars => OwnAnswer'
<1> SUFFICES ASSUME IInv, [Next]_vars PROVE OwnAnswer'
  OBVIOUS
<1>1. /\ TypeOK /\ OwnAnswer /\ SlotsHoldTheirRequests /\ HandlingIsTaken
      /\ HandledOnce /\ IdleIsPending /\ OutOfTable
  BY DEF IInv
<1> DEFINE Own(r) ==
             /\ answeredBy[r] \in {None, r}
             /\ outcome[r] = "cancelled" => r \in cancelled
             /\ outcome[r] = "value" => values[r] > 0
             /\ outcome[r] = "void" => context[r] = "completed" /\ values[r] = 0
             /\ outcome[r] = "error" => context[r] = "failed"
<1> SUFFICES ASSUME NEW r \in Requests, Started(r)', OwnId(r)' PROVE Own(r)'
  BY DEF OwnAnswer
<1>2. Started(r) => OwnId(r) /\ Own(r)
  BY <1>1, IdsAreFixed DEF OwnAnswer
<1>3. ASSUME Started(r), outcome'[r] = outcome[r], answeredBy'[r] = answeredBy[r] PROVE Own(r)'
  <2>1. Truthful("value", r) => Truthful("value", r)'
    BY <1>1, TruthKept DEF Kinds
  <2>2. Truthful("void", r) => Truthful("void", r)'
    BY <1>1, TruthKept DEF Kinds
  <2>3. Truthful("error", r) => Truthful("error", r)'
    BY <1>1, TruthKept DEF Kinds
  <2>4. cancelled \subseteq cancelled'
    <3>1. ASSUME NEW s \in Requests, ReserveRequestSlot(s) \/ LateCall(s) \/ Cancel(s) \/ Handle(s)
          PROVE  cancelled \subseteq cancelled'
      BY <1>1, <3>1, ReserveEffect, LateCallEffect, CancelEffect, HandleEffect
    <3>2. ASSUME TakeResponse \/ SetOutcome \/ Quiet PROVE cancelled \subseteq cancelled'
      BY <1>1, <3>2, TakeResponseEffect, SetOutcomeEffect, QuietEffect
    <3> QED
      BY <3>1, <3>2, StepCases
  <2> QED
    BY <1>2, <1>3, <2>1, <2>2, <2>3, <2>4 DEF Truthful
<1>4. ASSUME NEW s \in Requests, ReserveRequestSlot(s) PROVE Own(r)'
  <2>1. UNCHANGED <<outcome, answeredBy>> /\ (r # s => Started(r))
    BY <1>1, <1>4, ReserveEffect
  <2>2. CASE r = s
    <3>1. outcome[r] = "pending" /\ answeredBy[r] = None
      BY <1>1, <1>4, <2>2, ReserveEffect DEF IdleIsPending
    <3> QED
      BY <2>1, <3>1
  <2> QED
    BY <1>3, <2>1, <2>2
<1>5. ASSUME NEW s \in Requests, LateCall(s) PROVE Own(r)'
  <2>1. UNCHANGED answeredBy /\ Started(r) /\ (r # s => outcome'[r] = outcome[r])
    BY <1>1, <1>5, LateCallEffect
  <2>2. CASE outcome'[r] = outcome[r]
    BY <1>3, <2>1, <2>2
  <2>3. CASE outcome'[r] = "sendError"
    BY <1>2, <2>1, <2>3
  <2>4. CASE Return(s) /\ r = s /\ outcome'[r] # outcome[r]
    <3>1. /\ outcome[r] = "pending" /\ outcome'[r] = "cancelled"
          /\ pendingRequests[rid[r]] # r /\ handling.req # r
      BY <1>1, <2>4, ReturnEffect
    <3>2. r \in cancelled /\ UNCHANGED cancelled
      BY <1>1, <1>2, <1>5, <2>1, <3>1, LateCallEffect DEF OutOfTable
    <3> QED
      BY <1>2, <2>1, <3>1, <3>2
  <2> QED
    BY <1>1, <1>5, <2>1, <2>2, <2>3, <2>4, SendFailsEffect DEF LateCall, RejectRequest, Send
<1>6. ASSUME NEW s \in Requests, Cancel(s) PROVE Own(r)'
  <2>1. cancelled' = cancelled \cup {s} /\ UNCHANGED <<phase, rid, answeredBy>> /\ Started(r)
    BY <1>1, <1>6, CancelEffect DEF Started
  <2>2. CASE outcome'[r] = outcome[r]
    BY <1>3, <2>1, <2>2
  <2>3. CASE outcome'[r] # outcome[r]
    <3>1. Started(s) /\ r = pendingRequests[rid[s]] /\ outcome'[r] = Dropped(r)
      BY <1>1, <1>6, <2>3, CancelEffect
    <3>2. rid[s] \in Ids
      BY <1>1 DEF TypeOK
    <3>3. r = s
      BY <1>1, <1>2, <2>1, <3>1, <3>2 DEF SlotsHoldTheirRequests, OwnId
    <3>4. outcome'[r] = "cancelled"
      BY <2>3, <3>1 DEF Dropped
    <3> QED
      BY <1>2, <2>1, <3>3, <3>4
  <2> QED
    BY <2>2, <2>3
<1>7. ASSUME NEW s \in Requests, Handle(s) PROVE Own(r)'
  BY <1>3, <1>7, HandleEffect DEF Started
<1>8. CASE TakeResponse
  BY <1>1, <1>3, <1>8, TakeResponseEffect DEF Started
<1>9. CASE SetOutcome
  <2>1. /\ UNCHANGED <<phase, rid, cancelled, context, values>> /\ Started(r)
        /\ r # handling.req => outcome'[r] = outcome[r] /\ answeredBy'[r] = answeredBy[r]
        /\ handling.req \in Requests /\ handling.from \in Requests
        /\ handling.kind \in {"value", "error", "void"} /\ handling # Nobody
    BY <1>1, <1>9, SetOutcomeEffect DEF Started
  <2>2. CASE outcome'[r] = outcome[r] /\ answeredBy'[r] = answeredBy[r]
    BY <1>3, <2>1, <2>2
  <2>3. CASE r = handling.req /\ outcome'[r] = "cancelled" /\ r \in cancelled /\ UNCHANGED answeredBy
    BY <1>2, <2>1, <2>3
  <2>4. CASE r = handling.req /\ outcome'[r] = handling.kind /\ answeredBy'[r] = handling.from
    <3>1. Truthful(handling.kind, handling.from) /\ rid[handling.from] = rid[handling.req]
      BY <1>1, <2>1 DEF HandlingIsTaken
    <3>2. handling.from = r
      BY <1>2, <2>1, <2>4, <3>1 DEF OwnId, Truthful
    <3> QED
      BY <2>1, <2>4, <3>1, <3>2 DEF Truthful
  <2> QED
    BY <1>1, <1>9, <2>1, <2>2, <2>3, <2>4, SetOutcomeEffect
<1>10. CASE Quiet
  BY <1>3, <1>10, QuietEffect DEF Started
<1> QED
  BY <1>4, <1>5, <1>6, <1>7, <1>8, <1>9, <1>10, StepCases

----------------------------------------------------------------------------
(* The inductive invariant is preserved by every step. *)
LEMMA IInvStep == IInv /\ [Next]_vars => IInv'
<1> SUFFICES ASSUME IInv, [Next]_vars PROVE IInv'
  OBVIOUS
<1>1. TypeOK'
  BY TypeOKStep DEF IInv
<1> QED
  BY <1>1, SlotsHoldTheirRequestsStep, TruthfulResponsesStep, HandlingIsTakenStep, HandledOnceStep,
     IdleIsPendingStep, NoOrphanStep, OnlyFailedSendsLeakStep, OutOfTableStep, OwnAnswerStep
  DEF IInv

(* The inductive invariant holds initially: no slot is taken, no request *)
(* has started.                                                          *)
LEMMA IInvInit == Init => IInv
<1> SUFFICES ASSUME Init PROVE IInv
  OBVIOUS
<1>1. TypeOK
  BY MaxIdAssumption, MaxValuesAssumption, NoneAssumption
  DEF Init, TypeOK, Ids, Phases, Outcomes, Responses, Nobody, Handlings
<1>2. \A r \in Requests : ~Started(r)
  BY DEF Init, Started
<1>3. SlotsHoldTheirRequests /\ OnlyFailedSendsLeak
  BY NoneAssumption DEF Init, SlotsHoldTheirRequests, OnlyFailedSendsLeak
<1>4. TruthfulResponses /\ HandlingIsTaken
  BY DEF Init, TruthfulResponses, HandlingIsTaken
<1>5. HandledOnce /\ IdleIsPending
  BY DEF Init, HandledOnce, IdleIsPending
<1>6. NoOrphan /\ OutOfTable /\ OwnAnswer
  BY <1>2 DEF NoOrphan, OutOfTable, OwnAnswer
<1> QED
  BY <1>1, <1>3, <1>4, <1>5, <1>6 DEF IInv

(* The inductive invariant holds in every reachable state. *)
LEMMA Inductive == Spec => []IInv
<1> QED
  BY IInvInit, IInvStep, PTL DEF Spec

(* No caller of sendSystemRequest waits for a request that left both the   *)
(* table and the dispatcher, however ids wrap and tokens are cancelled.    *)
THEOREM NeverOrphaned == Spec => []NoOrphan
<1>1. IInv => NoOrphan
  BY DEF IInv
<1> QED
  BY <1>1, Inductive, PTL

(* Every way a request ends frees its slot, a failed send excepted. *)
THEOREM LeaksOnlyFailedSends == Spec => []OnlyFailedSendsLeak
<1>1. IInv => OnlyFailedSendsLeak
  BY DEF IInv
<1> QED
  BY <1>1, Inductive, PTL

(* A request whose id was given to no other request gets the answer of its *)
(* own handling, and is cancelled by its own token only.                   *)
THEOREM AnsweredByItsOwn == Spec => []OwnAnswer
<1>1. IInv => OwnAnswer
  BY DEF IInv
<1> QED
  BY <1>1, Inductive, PTL

----------------------------------------------------------------------------
(* RequestProcessor implements RequestContract as long as no id is given   *)
(* twice; it is not when there are no more requests than ids.              *)

(* What the exception of OwnAnswer excludes: every request has its own id. *)
NoIdTwice == \A r \in Requests : Started(r) => OwnId(r)

(* A call whose send threw was not sent, and never will be. *)
FailedWasNotSent ==
    \A r \in Requests : outcome[r] = "sendError" =>
        /\ phase[r] \in {"sent", "returned"} /\ r \notin onWire /\ context[r] = "none"

(* Only a call whose send throws ends with that error. *)
LEMMA FailedWasNotSentStep ==
    ASSUME IInv, FailedWasNotSent, [Next]_vars
    PROVE  FailedWasNotSent'
<1> SUFFICES ASSUME NEW r \in Requests, outcome'[r] = "sendError"
             PROVE  /\ phase'[r] \in {"sent", "returned"} /\ r \notin onWire' /\ context'[r] = "none"
  BY DEF FailedWasNotSent
<1>1. TypeOK /\ HandledOnce
  BY DEF IInv
<1>2. CASE /\ outcome[r] = "sendError"
           /\ UNCHANGED <<phase, onWire, context>>
  BY <1>2 DEF FailedWasNotSent
<1>3. ASSUME NEW s \in Requests, ReserveRequestSlot(s)
      PROVE  /\ phase'[r] \in {"sent", "returned"} /\ r \notin onWire' /\ context'[r] = "none"
  <2>1. /\ UNCHANGED <<outcome, onWire, context>> /\ phase[s] = "idle"
        /\ r # s => phase'[r] = phase[r]
    BY <1>1, <1>3, ReserveEffect
  <2> QED
    BY <2>1 DEF FailedWasNotSent
<1>4. ASSUME NEW s \in Requests, LateCall(s)
      PROVE  /\ phase'[r] \in {"sent", "returned"} /\ r \notin onWire' /\ context'[r] = "none"
  <2>1. /\ r # s => phase'[r] = phase[r] /\ outcome'[r] = outcome[r]
        /\ context' = context /\ onWire' \subseteq onWire \cup {s}
    BY <1>1, <1>4, LateCallEffect DEF LateCall, RejectRequest, Send, SendFails, Return
  <2>2. CASE r # s
    BY <2>1, <2>2 DEF FailedWasNotSent
  <2>3. CASE r = s /\ (RejectRequest(s) \/ Send(s))
    BY <1>1, <2>3 DEF RejectRequest, Send, FailedWasNotSent
  <2>4. CASE r = s /\ SendFails(s)
    BY <1>1, <2>1, <2>4, SendFailsEffect DEF HandledOnce
  <2>5. CASE r = s /\ Return(s)
    BY <1>1, <2>1, <2>5, ReturnEffect DEF FailedWasNotSent
  <2> QED
    BY <1>4, <2>2, <2>3, <2>4, <2>5 DEF LateCall
<1>5. ASSUME NEW s \in Requests, Cancel(s)
      PROVE  outcome[r] = "sendError" /\ UNCHANGED <<phase, onWire, context>>
  BY <1>1, <1>5, CancelEffect DEF Dropped
<1>6. ASSUME NEW s \in Requests, Handle(s)
      PROVE  /\ phase'[r] \in {"sent", "returned"} /\ r \notin onWire' /\ context'[r] = "none"
  <2>1. UNCHANGED <<phase, outcome>>
    BY <1>6, HandleEffect
  <2>2. r # s
    BY <1>6, <2>1 DEF FailedWasNotSent, Handle, ReceiveRequest, RefuseRequest, SendValue,
                      HandlerCompletes, HandlerFails
  <2>3. onWire' \subseteq onWire /\ context'[r] = context[r]
    BY <1>1, <1>6, <2>2 DEF TypeOK, Handle, ReceiveRequest, RefuseRequest, SendValue,
                            HandlerCompletes, HandlerFails
  <2> QED
    BY <2>1, <2>3 DEF FailedWasNotSent
<1>7. CASE TakeResponse
  BY <1>1, <1>2, <1>7, TakeResponseEffect
<1>8. CASE SetOutcome
  <2>1. outcome[r] = "sendError" /\ UNCHANGED <<phase, onWire, context>>
    BY <1>1, <1>8, SetOutcomeEffect
  <2> QED
    BY <1>2, <2>1
<1>9. CASE Quiet
  <2>1. UNCHANGED <<phase, outcome, context>> /\ onWire' \subseteq onWire
    BY <1>9 DEF Quiet, IgnoreResponse, LoseConnection, vars
  <2> QED
    BY <2>1 DEF FailedWasNotSent
<1> QED
  BY <1>2, <1>3, <1>4, <1>5, <1>6, <1>7, <1>8, <1>9, StepCases

----------------------------------------------------------------------------
(* The result of RequestContract, of each request. *)
Result(r) == IF Started(r) THEN outcome[r] ELSE phase[r]

Results == [r \in Requests |-> Result(r)]
Produced == {r \in Requests : values[r] > 0}

(* What a request ends with is one of the results of the contract. *)
LEMMA EndsAsPromised ==
    ASSUME IInv, IInv', NoIdTwice', NEW r \in Requests, Started(r), Started(r)',
           \A s \in Requests : s # r => Result(s)' = Result(s),
           outcome[r] = "pending", outcome'[r] # "pending",
           outcome'[r] = "sendError" => context[r] = "none",
           UNCHANGED <<context, values, cancelled>>
    PROVE  Contract!End(r)
<1>1. /\ outcome'[r] = "cancelled" => r \in cancelled
      /\ outcome'[r] = "value" => values[r] > 0
      /\ outcome'[r] = "void" => context[r] = "completed" /\ values[r] = 0
      /\ outcome'[r] = "error" => context[r] = "failed"
  BY DEF IInv, OwnAnswer, NoIdTwice
<1>2. outcome'[r] \in {"value", "void", "error", "sendError", "cancelled"}
  BY DEF IInv, TypeOK, Outcomes
<1>3. Results[r] = "pending" /\ Results' = [Results EXCEPT ![r] = outcome'[r]]
  BY DEF Results, Result
<1>4. values[r] = 0 => r \notin Produced
  BY DEF Produced
<1>5. values[r] > 0 => r \in Produced
  BY DEF Produced
<1>6. Contract!Justified(r, outcome'[r])
  BY <1>1, <1>2, <1>4, <1>5 DEF Contract!Justified, Produced
<1>7. UNCHANGED <<context, Produced, cancelled>>
  BY DEF Produced
<1> QED
  BY <1>2, <1>3, <1>6, <1>7 DEF Contract!End, Results, Result, Produced

(* What the contract does not see. *)
Unseen == UNCHANGED <<Results, context, Produced, cancelled>>

(* What callers do not see is a stutter of the contract. *)
LEMMA UnseenStutters == Unseen => UNCHANGED Contract!cvars
  BY DEF Unseen, Contract!cvars, Results, Result, Produced

(* Results change only with the phases and outcomes. *)
LEMMA SameResults ==
    ASSUME \A r \in Requests : Result(r)' = Result(r), UNCHANGED <<context, values, cancelled>>
    PROVE  Unseen
  BY DEF Unseen, Results, Produced

(* A call gets a slot, or is rejected. *)
LEMMA AsksAsPromised ==
    ASSUME IInv, NEW s \in Requests, ReserveRequestSlot(s) \/ RejectRequest(s)
    PROVE  Contract!Ask(s)
<1>1. TypeOK
  BY DEF IInv
<1>2. Result(s) = "idle"
  BY DEF ReserveRequestSlot, RejectRequest, Result, Started
<1>3. \E answer \in {"pending", "rejected"} :
        Result(s)' = answer /\ \A r \in Requests : r # s => Result(r)' = Result(r)
  <2>1. CASE ReserveRequestSlot(s)
    <3>1. /\ ~Started(s) /\ Started(s)' /\ outcome' = outcome
          /\ \A r \in Requests : r # s => phase'[r] = phase[r] /\ (Started(r)' <=> Started(r))
      BY <1>1, <2>1, ReserveEffect
    <3>2. Result(s)' = "pending"
      BY <3>1 DEF IInv, IdleIsPending, Result
    <3>3. \A r \in Requests : r # s => Result(r)' = Result(r)
      BY <3>1 DEF Result
    <3> QED
      BY <3>2, <3>3
  <2>2. CASE RejectRequest(s)
    <3>1. phase'[s] = "rejected" /\ outcome' = outcome
          /\ \A r \in Requests : r # s => phase'[r] = phase[r]
      BY <1>1, <2>2 DEF RejectRequest, TypeOK
    <3> QED
      BY <3>1 DEF Result, Started
  <2> QED
    BY <2>1, <2>2
<1>4. Results[s] = "idle" /\ \E answer \in {"pending", "rejected"} :
        Results' = [Results EXCEPT ![s] = answer]
  BY <1>2, <1>3 DEF Results
<1>5. UNCHANGED <<context, Produced, cancelled>>
  BY DEF ReserveRequestSlot, RejectRequest, Produced
<1> QED
  BY <1>4, <1>5 DEF Contract!Ask, Results, Result, Produced

(* The thread of the caller ends the call if its send throws, or if the    *)
(* request lost its slot to the cancellation before it returned.           *)
LEMMA CallsAsPromised ==
    ASSUME IInv, IInv', NoIdTwice', FailedWasNotSent', NEW s \in Requests,
           Send(s) \/ SendFails(s) \/ Return(s)
    PROVE  Contract!End(s) \/ Unseen
<1>1. TypeOK /\ LateCall(s)
  BY DEF IInv, LateCall
<1>2. /\ \A r \in Requests : Started(r)' <=> Started(r)
      /\ \A r \in Requests : r # s => phase'[r] = phase[r] /\ outcome'[r] = outcome[r]
      /\ UNCHANGED <<cancelled, context, values>>
  BY <1>1, LateCallEffect
<1>3. \A r \in Requests : r # s => Result(r)' = Result(r)
  BY <1>2 DEF Result
<1>4. Started(s) /\ Started(s)'
  BY <1>2 DEF Send, SendFails, Return, Started
<1>5. CASE outcome'[s] = outcome[s]
  <2>1. Result(s)' = Result(s)
    BY <1>4, <1>5 DEF Result
  <2> QED
    BY <1>2, <1>3, <2>1, SameResults
<1>6. CASE outcome'[s] # outcome[s]
  <2>1. outcome[s] = "pending" /\ outcome'[s] # "pending"
    BY <1>1, <1>6, SendFailsEffect, ReturnEffect DEF Send
  <2>2. outcome'[s] = "sendError" => context[s] = "none"
    BY <1>2 DEF FailedWasNotSent
  <2> QED
    BY <1>2, <1>3, <1>4, <2>1, <2>2, EndsAsPromised
<1> QED
  BY <1>5, <1>6

(* A token only reaches the call it belongs to. *)
LEMMA CancelsAsPromised ==
    ASSUME IInv, NoIdTwice, NEW s \in Requests, Cancel(s)
    PROVE  Contract!Withdraw(s)
<1>1. TypeOK
  BY DEF IInv
<1>2. /\ cancelled' = cancelled \cup {s} /\ s \notin cancelled
      /\ UNCHANGED <<phase, rid, onWire, context, values, responses, handling, answeredBy>>
  BY <1>1, CancelEffect DEF Cancel
<1>3. \A r \in Requests : Started(r)' <=> Started(r)
  BY <1>2 DEF Started
<1>4. ASSUME NEW r \in Requests, outcome'[r] # outcome[r]
      PROVE  r = s /\ outcome[s] = "pending" /\ outcome'[s] = "cancelled" /\ Started(s)
  <2>1. Started(s) /\ r = pendingRequests[rid[s]] /\ outcome'[r] = Dropped(r)
    BY <1>1, <1>4, CancelEffect
  <2>2. rid[s] \in Ids
    BY <1>1 DEF TypeOK
  <2>3. r = s
    BY <2>1, <2>2 DEF IInv, SlotsHoldTheirRequests, NoIdTwice, OwnId
  <2> QED
    BY <1>4, <2>1, <2>3 DEF Dropped
<1>5. CASE outcome'[s] = outcome[s]
  <2>1. \A r \in Requests : outcome'[r] = outcome[r]
    BY <1>4, <1>5
  <2>2. \A r \in Requests : Result(r)' = Result(r)
    BY <1>2, <1>3, <2>1 DEF Result
  <2>3. UNCHANGED <<Results, context, Produced>>
    BY <1>2, <2>2 DEF Results, Produced
  <2> QED
    BY <1>2, <2>3 DEF Contract!Withdraw, Results, Result, Produced
<1>6. CASE outcome'[s] # outcome[s]
  <2>1. Result(s) = "pending" /\ Result(s)' = "cancelled"
    BY <1>3, <1>4, <1>6 DEF Result
  <2>2. \A r \in Requests : r # s => Result(r)' = Result(r)
    BY <1>2, <1>3, <1>4 DEF Result
  <2>3. Results[s] = "pending" /\ Results' = [Results EXCEPT ![s] = "cancelled"]
    BY <2>1, <2>2 DEF Results
  <2>4. UNCHANGED <<context, Produced>>
    BY <1>2 DEF Produced
  <2> QED
    BY <1>2, <2>3, <2>4 DEF Contract!Withdraw, Results, Result, Produced
<1> QED
  BY <1>5, <1>6

LEMMA HandlesAsPromised ==
    ASSUME IInv, IInv', FailedWasNotSent, NEW s \in Requests, Handle(s)
    PROVE  Contract!Execute(s) \/ Unseen
<1>1. TypeOK /\ HandledOnce
  BY DEF IInv
<1>2. UNCHANGED <<phase, outcome, cancelled>> /\ UNCHANGED <<Results, cancelled>>
  BY HandleEffect DEF Results, Result, Started
<1>3. s \in onWire \/ context[s] # "none"
  BY DEF Handle, ReceiveRequest, RefuseRequest, SendValue, HandlerCompletes, HandlerFails
<1>4. Started(s) /\ outcome[s] # "sendError"
  <2>1. phase[s] \in Phases
    BY <1>1 DEF TypeOK
  <2> QED
    BY <1>1, <1>3, <2>1 DEF HandledOnce, FailedWasNotSent, Started, Phases
<1>5. Results[s] \notin {"idle", "rejected", "sendError"}
  BY <1>1, <1>4 DEF Results, Result, TypeOK, Outcomes
<1>6. \/ /\ context[s] = "none"
         /\ context' = [context EXCEPT ![s] = "running"] \/ context' = [context EXCEPT ![s] = "failed"]
         /\ UNCHANGED Produced
      \/ /\ context[s] = "running" /\ UNCHANGED context
         /\ Produced' = Produced \cup {s}
      \/ /\ context[s] = "running" /\ UNCHANGED Produced
         /\ \E end \in {"completed", "failed"} : context' = [context EXCEPT ![s] = end]
  <2>1. CASE ReceiveRequest(s) \/ RefuseRequest(s)
    BY <1>1, <2>1 DEF ReceiveRequest, RefuseRequest, HandledOnce, Produced
  <2>2. CASE SendValue(s)
    <3>1. context[s] = "running" /\ UNCHANGED context /\ values' = [values EXCEPT ![s] = values[s] + 1]
      BY <2>2 DEF SendValue
    <3>2. /\ values'[s] = values[s] + 1 /\ values[s] \in 0 .. MaxValues
          /\ \A r \in Requests : r # s => values'[r] = values[r]
      BY <1>1, <3>1 DEF TypeOK
    <3>3. values'[s] > 0
      BY <3>2, MaxValuesAssumption
    <3>4. Produced' = Produced \cup {s}
      BY <3>2, <3>3 DEF Produced
    <3> QED
      BY <3>1, <3>4
  <2>3. CASE HandlerCompletes(s) \/ HandlerFails(s)
    BY <2>3 DEF HandlerCompletes, HandlerFails, Produced
  <2> QED
    BY <2>1, <2>2, <2>3 DEF Handle
<1> QED
  BY <1>2, <1>5, <1>6 DEF Contract!Execute, Results, Result, Produced

(* The dispatcher sets the first result, and only the first. *)
LEMMA SetsAsPromised ==
    ASSUME IInv, IInv', NoIdTwice', SetOutcome
    PROVE  Unseen \/ \E r \in Requests : Contract!End(r)
<1>1. TypeOK
  BY DEF IInv
<1>2. PICK q \in Requests : q = handling.req
  BY <1>1, SetOutcomeEffect
<1>3. /\ UNCHANGED <<phase, context, values, cancelled>>
      /\ \A r \in Requests : r # q => outcome'[r] = outcome[r]
      /\ outcome[q] # "pending" => outcome'[q] = outcome[q]
      /\ outcome'[q] \in {outcome[q], "cancelled", "value", "error", "void"}
      /\ Started(q)
  <2>1. handling # Nobody
    BY DEF SetOutcome
  <2> QED
    BY <1>1, <1>2, <2>1, SetOutcomeEffect DEF IInv, HandlingIsTaken
<1>4. \A r \in Requests : Started(r)' <=> Started(r)
  BY <1>3 DEF Started
<1>5. \A r \in Requests : r # q => Result(r)' = Result(r)
  BY <1>3, <1>4 DEF Result
<1>6. CASE outcome'[q] = outcome[q]
  <2>1. Result(q)' = Result(q)
    BY <1>3, <1>4, <1>6 DEF Result
  <2> QED
    BY <1>3, <1>5, <2>1, SameResults
<1>7. CASE outcome'[q] # outcome[q]
  <2>1. outcome[q] = "pending" /\ outcome'[q] # "pending" /\ outcome'[q] # "sendError"
    BY <1>3, <1>7
  <2> QED
    BY <1>3, <1>4, <1>5, <2>1, EndsAsPromised
<1> QED
  BY <1>6, <1>7

(* Every step is one of the contract, or a stutter of it. *)
LEMMA StepsAsPromised ==
    ASSUME IInv, IInv', NoIdTwice, NoIdTwice', FailedWasNotSent, FailedWasNotSent', [Next]_vars
    PROVE  Contract!Next \/ UNCHANGED Contract!cvars
<1>1. ASSUME NEW s \in Requests, ReserveRequestSlot(s) \/ RejectRequest(s) PROVE Contract!Next
  BY <1>1, AsksAsPromised DEF Contract!Next
<1>2. ASSUME NEW s \in Requests, Send(s) \/ SendFails(s) \/ Return(s) PROVE Contract!Next \/ Unseen
  BY <1>2, CallsAsPromised DEF Contract!Next
<1>3. ASSUME NEW s \in Requests, Cancel(s) PROVE Contract!Next
  BY <1>3, CancelsAsPromised DEF Contract!Next
<1>4. ASSUME NEW s \in Requests, Handle(s) PROVE Contract!Next \/ Unseen
  BY <1>4, HandlesAsPromised DEF Contract!Next
<1>5. CASE SetOutcome
  BY <1>5, SetsAsPromised, UnseenStutters DEF Contract!Next
<1>6. CASE TakeResponse \/ Quiet
  <2>1. UNCHANGED <<phase, outcome, context, values, cancelled>>
    BY <1>6, TakeResponseEffect, QuietEffect DEF IInv
  <2>2. Unseen
    BY <2>1 DEF Unseen, Results, Result, Started, Produced
  <2> QED
    BY <2>2, UnseenStutters
<1> QED
  BY <1>1, <1>2, <1>3, <1>4, <1>5, <1>6, StepCases, UnseenStutters DEF LateCall

(* No call was made, none is executed. *)
LEMMA StartsAsPromised == Init => Contract!Init
<1> SUFFICES ASSUME Init PROVE Contract!Init
  OBVIOUS
<1>1. \A r \in Requests : Result(r) = "idle" /\ ~(values[r] > 0)
  BY DEF Init, Result, Started
<1>2. Results = [r \in Requests |-> "idle"] /\ Produced = {}
  BY <1>1 DEF Results, Produced
<1> QED
  BY <1>2 DEF Init, Contract!Init, Results, Result, Produced

(* The table of slots, the ids and the responses of RequestProcessor.cpp   *)
(* are an implementation of what sendSystemRequest promises, in every      *)
(* behaviour in which the counter gives no id a second time.               *)
THEOREM PromisesKept == Spec /\ []NoIdTwice => ImplementsContract
<1>1. Init => FailedWasNotSent
  BY DEF Init, FailedWasNotSent
<1>2. IInv /\ FailedWasNotSent /\ [Next]_vars => FailedWasNotSent'
  BY FailedWasNotSentStep
<1>3. Spec => []FailedWasNotSent
  BY <1>1, <1>2, Inductive, PTL DEF Spec
<1>4. /\ IInv /\ IInv' /\ NoIdTwice /\ NoIdTwice' /\ FailedWasNotSent /\ FailedWasNotSent'
      /\ [Next]_vars
      => [Contract!Next]_Contract!cvars
  BY StepsAsPromised
<1> QED
  BY <1>3, <1>4, Inductive, StartsAsPromised, PTL DEF Spec, ImplementsContract, Contract!Spec

----------------------------------------------------------------------------
(* Until every request has an id, the counter is how many there are, and   *)
(* the ids are those up to it.                                             *)
StartedOnes == {r \in Requests : Started(r)}

CountedIds ==
    /\ NoIdTwice
    /\ StartedOnes # Requests =>
         /\ Cardinality(StartedOnes) = counter
         /\ \A r \in StartedOnes : rid[r] \in 1 .. counter

(* No more requests over the connection than there are ids (0xffff + 1). *)
EnoughIds == IsFiniteSet(Requests) /\ Cardinality(Requests) <= MaxId + 1

(* The id after the counter is free, and it is the next one. *)
LEMMA NextIsFresh ==
    ASSUME IInv, CountedIds, StartedOnes # Requests, NEW i \in Ids, NextId(i)
    PROVE  i = IF counter < MaxId THEN counter + 1 ELSE 0
<1> USE MaxIdAssumption
<1>1. counter \in Ids /\ i \in Ids
  BY DEF IInv, TypeOK
<1>2. ASSUME NEW j \in Ids, j \notin 1 .. counter PROVE Free(j)
  <2>1. ASSUME NEW r \in Requests, pendingRequests[j] = r PROVE FALSE
    BY <1>2, <2>1 DEF IInv, SlotsHoldTheirRequests, CountedIds, StartedOnes
  <2> QED
    BY <1>2, <2>1 DEF Free, IInv, TypeOK
<1>3. CASE counter < MaxId
  <2>1. counter + 1 \in Ids /\ counter + 1 \notin 1 .. counter /\ Distance(counter + 1) = 1
    BY <1>1, <1>3 DEF Ids, Distance
  <2>2. Distance(i) <= 1
    BY <1>2, <2>1 DEF NextId
  <2> QED
    BY <1>1, <1>3, <2>2 DEF Ids, Distance
<1>4. CASE ~(counter < MaxId)
  <2>1. counter = MaxId /\ 0 \in Ids /\ 0 \notin 1 .. counter /\ Distance(0) = 1
    BY <1>1, <1>4 DEF Ids, Distance
  <2>2. Distance(i) <= 1
    BY <1>2, <2>1 DEF NextId
  <2> QED
    BY <1>1, <2>1, <2>2 DEF Ids, Distance
<1> QED
  BY <1>3, <1>4

(* The counter goes on counting: no step but a new request moves it. *)
LEMMA CountedIdsStep ==
    ASSUME EnoughIds, IInv, CountedIds, [Next]_vars
    PROVE  CountedIds'
<1> USE MaxIdAssumption
<1>1. TypeOK
  BY DEF IInv
<1>2. ASSUME NEW s \in Requests, ReserveRequestSlot(s) PROVE CountedIds'
  <2>1. /\ ~Started(s) /\ Started(s)'
        /\ \A r \in Requests : r # s => (Started(r)' <=> Started(r))
    BY <1>1, <1>2, ReserveEffect
  <2>2. StartedOnes # Requests /\ s \notin StartedOnes /\ StartedOnes' = StartedOnes \cup {s}
    BY <2>1 DEF StartedOnes
  <2>3. Cardinality(StartedOnes) = counter /\ \A r \in StartedOnes : rid[r] \in 1 .. counter
    BY <2>2 DEF CountedIds
  <2>4. PICK i \in Ids : NextId(i) /\ counter' = i /\ rid' = [rid EXCEPT ![s] = i]
    BY <1>2 DEF ReserveRequestSlot
  <2>5. i = IF counter < MaxId THEN counter + 1 ELSE 0
    BY <2>2, <2>4, NextIsFresh
  <2>6. i \notin 1 .. counter /\ counter \in 0 .. MaxId
    BY <1>1, <2>5 DEF TypeOK, Ids
  <2>7. /\ rid'[s] = i
        /\ \A r \in Requests : r # s => rid'[r] = rid[r]
    BY <1>1, <2>4 DEF TypeOK
  <2>8. NoIdTwice'
    <3> SUFFICES ASSUME NEW r \in Requests, NEW t \in Requests, Started(r)', Started(t)',
                        rid'[t] = rid'[r]
                 PROVE  t = r
      BY DEF NoIdTwice, OwnId
    <3>1. \A u \in Requests : u # s /\ Started(u)' => u \in StartedOnes
      BY <2>1 DEF StartedOnes
    <3>2. CASE r # s /\ t # s
      BY <2>1, <2>7, <3>2 DEF CountedIds, NoIdTwice, OwnId
    <3>3. CASE r = s /\ t # s
      BY <2>3, <2>6, <2>7, <3>1, <3>3
    <3>4. CASE t = s /\ r # s
      BY <2>3, <2>6, <2>7, <3>1, <3>4
    <3> QED
      BY <3>2, <3>3, <3>4
  <2>9. IsFiniteSet(StartedOnes) /\ Cardinality(StartedOnes \cup {s}) = counter + 1
    BY <2>2, <2>3, FS_Subset, FS_AddElement DEF EnoughIds, StartedOnes
  <2>10. CASE counter < MaxId
    <3>1. \A r \in StartedOnes' : rid'[r] \in 1 .. counter'
      <4> SUFFICES ASSUME NEW r \in StartedOnes \cup {s} PROVE rid'[r] \in 1 .. counter + 1
        BY <2>2, <2>4, <2>5, <2>10
      <4>1. CASE r = s
        BY <2>5, <2>6, <2>7, <2>10, <4>1
      <4>2. CASE r # s /\ r \in StartedOnes
        <5>1. rid'[r] \in 1 .. counter
          BY <2>3, <2>7, <4>2 DEF StartedOnes
        <5> QED
          BY <2>6, <5>1
      <4> QED
        BY <4>1, <4>2
    <3> QED
      BY <2>2, <2>4, <2>5, <2>8, <2>9, <2>10, <3>1 DEF CountedIds
  <2>11. CASE ~(counter < MaxId)
    <3>1. Cardinality(StartedOnes') = MaxId + 1
      BY <2>2, <2>6, <2>9, <2>11
    <3>2. StartedOnes' \in SUBSET Requests /\ IsFiniteSet(Requests)
      BY DEF StartedOnes, EnoughIds
    <3>3. Cardinality(StartedOnes') <= Cardinality(Requests) /\ Cardinality(Requests) \in Nat
      BY <3>2, FS_Subset, FS_CardinalityType
    <3>4. Cardinality(Requests) = Cardinality(StartedOnes')
      BY <3>1, <3>3 DEF EnoughIds
    <3>5. StartedOnes' = Requests
      BY <3>2, <3>4, FS_Subset
    <3> QED
      BY <2>8, <3>5 DEF CountedIds
  <2> QED
    BY <2>10, <2>11
<1>3. CASE \A s \in Requests : ~ReserveRequestSlot(s)
  <2>1. UNCHANGED <<counter, rid>>
    BY <1>3 DEF Next, Call, Dispatch, Handle, RejectRequest, Send, SendFails, Return, Cancel,
                ReceiveRequest, RefuseRequest, SendValue, HandlerCompletes, HandlerFails,
                IgnoreResponse, TakeResponse, SetOutcome, LoseConnection, vars
  <2>2. \A r \in Requests : Started(r)' <=> Started(r)
    <3>1. ASSUME NEW s \in Requests, LateCall(s) PROVE \A r \in Requests : Started(r)' <=> Started(r)
      BY <1>1, <3>1, LateCallEffect
    <3>2. ASSUME ~(\E s \in Requests : LateCall(s)) PROVE UNCHANGED phase
      BY <1>1, <1>3, <3>2, StepCases, CancelEffect, HandleEffect, TakeResponseEffect,
         SetOutcomeEffect, QuietEffect
    <3> QED
      BY <3>1, <3>2 DEF Started
  <2>3. StartedOnes' = StartedOnes
    BY <2>2 DEF StartedOnes
  <2> QED
    BY <2>1, <2>2, <2>3 DEF CountedIds, NoIdTwice, OwnId
<1> QED
  BY <1>2, <1>3

(* The counter gives no id a second time before it has given them all: 64K *)
(* requests over one connection (RequestProcessor.cpp, reserveRequestSlot).*)
THEOREM IdsAreFresh ==
    ASSUME EnoughIds
    PROVE  Spec => []NoIdTwice
<1>1. Init => CountedIds
  <2> SUFFICES ASSUME Init PROVE CountedIds
    OBVIOUS
  <2>1. StartedOnes = {} /\ counter = 0
    BY DEF Init, StartedOnes, Started
  <2> QED
    BY <2>1, FS_EmptySet DEF CountedIds, NoIdTwice, StartedOnes
<1>2. IInv /\ CountedIds /\ [Next]_vars => CountedIds'
  BY CountedIdsStep
<1>3. CountedIds => NoIdTwice
  BY DEF CountedIds
<1> QED
  BY <1>1, <1>2, <1>3, Inductive, PTL DEF Spec

(* Callers of sendSystemRequest get what RequestContract promises when     *)
(* there are no more requests than ids, however they are interleaved,      *)
(* cancelled, answered or lost.                                            *)
THEOREM ContractIsImplemented ==
    ASSUME EnoughIds
    PROVE  Spec => ImplementsContract
  BY IdsAreFresh, PromisesKept, PTL
=============================================================================

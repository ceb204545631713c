---------------------------- MODULE RpcService_proofs ----------------------------
(***************************************************************************)
(* Proofs about RpcService, for any number of calls, of ids, of values and *)
(* of ids that the services of other scenes take meanwhile.                *)
(***************************************************************************)
EXTENDS RpcService, TLAPS

(***************************************************************************)
(* The inductive invariant.  Each part speaks of one call, so that a step  *)
(* of one call leaves the parts of the others alone (LeftAlone, below).    *)
(***************************************************************************)
FromServer == 1 .. Len(toClient)
FromClient == 1 .. Len(toServer)

(* A subscription that has not reached the table has left no trace.        *)
FreshCall(c) ==
    pc[c] \in {"idle", "reserved", "rejected"} =>
        /\ c \notin hasCompleted /\ c \notin hasData /\ c \notin completing /\ c \notin toCancel
        /\ received[c] = << >>
        /\ observer[c] = IF pc[c] = "rejected" THEN "error" ELSE "open"

(* A slot is held by the call that was given its id, until its teardown.   *)
SlotHolder(c) ==
    \A i \in Ids :
        pendingRequests[i] = c =>
            /\ rid[c] = i
            /\ pc[c] \in {"emplaced", "sent", "subscribed", "failed"}
            /\ observer[c] # "open" => pc[c] # "subscribed"

(* Before cancelAll, a call something happened to keeps its slot until its *)
(* own teardown erases it: no other call erases it.                        *)
SlotKept(c) ==
    /\ InSubscribe(c)
    /\ c \in hasCompleted \/ observer[c] # "open"
    => cancelAll = "taken" \/ pendingRequests[rid[c]] = c

(* Who waits is held by the table, by cancelAll, or by its own thread.     *)
WaitingIsHeld(c) ==
    Started(c) /\ observer[c] = "open" /\ ~Alive(c) => c \in hasCompleted /\ cancelAll = "taken"

EndOf(c) ==
    /\ c \in completing => c \in hasCompleted
    /\ observer[c] = "disposed" => pc[c] = "subscribed"
    /\ pc[c] = "failed" => observer[c] # "open"

CallInv(c) == FreshCall(c) /\ SlotHolder(c) /\ SlotKept(c) /\ WaitingIsHeld(c) /\ EndOf(c)

(* What the callee did for a call that reached it. *)
ExecutionOf(c) ==
    /\ execution[c] # "none" => pc[c] \in {"sent", "subscribed"}
    /\ values[c] > 0 => execution[c] # "none"
    /\ \A i \in Ids : runningRequests[i] = c => rid[c] = i /\ execution[c] # "none"

(* The call is sent once, and its cancellation after it. *)
PacketsOf(c) ==
    /\ \A k \in FromClient :
        toServer[k].from = c =>
            /\ toServer[k].id = rid[c]
            /\ pc[c] \in {"sent", "subscribed"}
            /\ toServer[k].kind = "call" => execution[c] = "none"
    /\ \A j, k \in FromClient :
        /\ j # k /\ toServer[j].from = c /\ toServer[k].from = c
        /\ toServer[k].kind = "call"
        => toServer[j].kind = "cancel" /\ k < j

(* A packet was sent when it says; what is ordered keeps its order.        *)
RepliesOf(c) ==
    /\ \A k \in FromServer :
        toClient[k].from = c =>
            /\ toClient[k].id = rid[c]
            /\ execution[c] # "none"
            /\ toClient[k].kind = "next" => toClient[k].n \in 1 .. values[c]
            /\ toClient[k].kind = "error" => execution[c] = "failed"
            /\ toClient[k].kind = "complete" =>
                  execution[c] = "completed" /\ (toClient[k].n = 0 => values[c] = 0)
    /\ \A j, k \in FromServer :
        /\ j < k /\ toClient[j].from = c /\ toClient[k].from = c
        /\ c \in ordered /\ toClient[k].kind = "next"
        => toClient[j].kind = "next" /\ toClient[j].n < toClient[k].n

NetworkInv(c) == ExecutionOf(c) /\ PacketsOf(c) /\ RepliesOf(c)

(* The rest is about a call whose id nobody else has taken.  It is in the  *)
(* table until it ends or completes; what completes it is its own.         *)
Own(c) == Started(c) /\ OwnId(c)

OwnSlot(c) ==
    /\ pc[c] \in {"emplaced", "sent", "subscribed"} /\ observer[c] = "open" =>
          pendingRequests[rid[c]] = c \/ c \in toCancel \/ c \in hasCompleted
    /\ c \in completing => execution[c] = "completed"
    /\ c \in hasCompleted => execution[c] \in {"completed", "failed"} \/ ~connected

(* Data was received, unless there was none. *)
OwnData(c) ==
    c \in hasData /\ observer[c] = "open" =>
        received[c] # << >> \/ (execution[c] = "completed" /\ values[c] = 0)

(* The values of an ordered procedure that were not received yet are in    *)
(* the channel, and no others are.                                         *)
OwnOrder(c) ==
    c \in ordered /\ observer[c] = "open" =>
        /\ \A k \in FromServer :
             toClient[k].from = c /\ toClient[k].kind = "next" => toClient[k].n > Len(received[c])
        /\ connected => \A v \in Len(received[c]) + 1 .. values[c] :
                           \E k \in FromServer :
                               toClient[k].from = c /\ toClient[k].kind = "next" /\ toClient[k].n = v
        /\ c \in completing => Len(received[c]) = values[c]
        /\ Len(received[c]) <= values[c]

(* A procedure of a disposed call has its cancellation on its way.         *)
OwnCancel(c) ==
    connected =>
        /\ execution[c] = "running" => runningRequests[rid[c]] = c \/ c \in cancelRequested
        /\ observer[c] = "disposed" /\ execution[c] \in {"none", "running"} =>
             \/ c \in cancelRequested
             \/ \E k \in FromClient : toServer[k].from = c /\ toServer[k].kind = "cancel"
             \/ execution[c] = "none" /\ \A k \in FromClient : toServer[k].from # c

EventsOf(c) ==
    /\ \A k \in 1 .. Len(received[c]) : received[c][k].from = c
    /\ observer[c] = "completed" => execution[c] = "completed"
    /\ observer[c] = "error" => execution[c] = "failed" \/ pc[c] = "failed" \/ ~connected
    /\ observer[c] # "cancelled"

DataOf(c) ==
    /\ observer[c] = "completed" /\ values[c] > 0 => received[c] # << >>
    /\ observer[c] = "completed" /\ c \in ordered => Len(received[c]) = values[c]
    /\ c \in ordered => \A k \in 1 .. Len(received[c]) : received[c][k].n = k

OwnInv(c) == OwnSlot(c) /\ OwnData(c) /\ OwnOrder(c) /\ OwnCancel(c) /\ EventsOf(c) /\ DataOf(c)

(* cancelAll comes after the disconnection, which emptied the channels.    *)
CancelAllComesLast ==
    /\ cancelAll = "taken" => ~connected
    /\ toCancel # {} => cancelAll = "taken"
    /\ ~connected => toServer = << >> /\ toClient = << >>

IInv ==
    /\ TypeOK
    /\ CancelAllComesLast
    /\ \A c \in Calls : CallInv(c) /\ NetworkInv(c) /\ (Own(c) => OwnInv(c))
-----------------------------------------------------------------------------
(* Queues: what is appended, consumed at the head, or taken out. *)

LEMMA Appended ==
    ASSUME NEW T, NEW s \in Seq(T), NEW e \in T
    PROVE  /\ Append(s, e) \in Seq(T) /\ Len(s) \in Nat /\ Len(Append(s, e)) = Len(s) + 1
           /\ Append(s, e)[Len(s) + 1] = e
           /\ \A j \in 1 .. Len(s) : Append(s, e)[j] = s[j]
  OBVIOUS

LEMMA Tailed ==
    ASSUME NEW T, NEW s \in Seq(T), s # << >>
    PROVE  /\ Tail(s) \in Seq(T) /\ Len(Tail(s)) = Len(s) - 1 /\ Len(s) \in Nat \ {0}
           /\ Head(s) = s[1] /\ s[1] \in T
           /\ \A j \in 1 .. Len(s) - 1 : Tail(s)[j] = s[j + 1]
<1>1. Tail(s) \in Seq(T) /\ Len(Tail(s)) = Len(s) - 1
  OBVIOUS
<1>2. Len(s) \in Nat \ {0}
  OBVIOUS
<1>3. \A j \in 1 .. Len(s) - 1 : Tail(s)[j] = s[j + 1]
  OBVIOUS
<1> QED
  BY <1>1, <1>2, <1>3

LEMMA Joined ==
    ASSUME NEW T, NEW a \in Seq(T), NEW b \in Seq(T)
    PROVE  /\ a \o b \in Seq(T) /\ Len(a \o b) = Len(a) + Len(b)
           /\ \A j \in 1 .. Len(a) + Len(b) :
                (a \o b)[j] = IF j <= Len(a) THEN a[j] ELSE b[j - Len(a)]
  OBVIOUS

LEMMA RemovedAt ==
    ASSUME NEW T, NEW s \in Seq(T), NEW k \in 1 .. Len(s)
    PROVE  /\ RemoveAt(s, k) \in Seq(T)
           /\ Len(RemoveAt(s, k)) = Len(s) - 1 /\ Len(s) \in Nat \ {0}
           /\ \A j \in 1 .. Len(s) - 1 : j < k => RemoveAt(s, k)[j] = s[j]
           /\ \A j \in 1 .. Len(s) - 1 : j >= k => RemoveAt(s, k)[j] = s[j + 1]
<1> DEFINE a == SubSeq(s, 1, k - 1)
           b == SubSeq(s, k + 1, Len(s))
<1>1. a \in Seq(T) /\ Len(a) = k - 1 /\ \A j \in 1 .. k - 1 : a[j] = s[j]
  OBVIOUS
<1>2. b \in Seq(T) /\ Len(b) = Len(s) - k /\ \A j \in 1 .. Len(s) - k : b[j] = s[k + j]
  OBVIOUS
<1>3. RemoveAt(s, k) = a \o b
  BY DEF RemoveAt
<1>0. Len(s) \in Nat \ {0} /\ k \in Int
  OBVIOUS
<1> HIDE DEF a, b
<1> DEFINE c == a \o b
<1>4. c \in Seq(T) /\ Len(c) = Len(a) + Len(b)
  BY <1>1, <1>2, Joined
<1>5. \A j \in 1 .. Len(a) + Len(b) : c[j] = IF j <= Len(a) THEN a[j] ELSE b[j - Len(a)]
  BY <1>1, <1>2, Joined
<1> HIDE DEF c
<1>6. Len(c) = Len(s) - 1
  BY <1>0, <1>1, <1>2, <1>4
<1>7. \A j \in 1 .. Len(s) - 1 : j < k => c[j] = s[j]
  BY <1>0, <1>1, <1>2, <1>5
<1>8. ASSUME NEW j \in 1 .. Len(s) - 1, j >= k PROVE c[j] = s[j + 1]
  <2>1. j - (k - 1) \in 1 .. Len(s) - k /\ k + (j - (k - 1)) = j + 1
    BY <1>0, <1>8
  <2>2. b[j - (k - 1)] = s[j + 1]
    BY <1>2, <2>1
  <2>3. j \in 1 .. Len(a) + Len(b) /\ ~(j <= Len(a)) /\ j - Len(a) = j - (k - 1)
    BY <1>0, <1>1, <1>2, <1>8
  <2>4. c[j] = b[j - (k - 1)]
    BY <1>5, <2>3
  <2> QED
    BY <2>2, <2>4
<1> QED
  BY <1>0, <1>3, <1>4, <1>6, <1>7, <1>8 DEF c

(* The packets of d are the same ones in r as in q, in the same order.     *)
KeepsPackets(q, r, d, p) ==
    /\ \A k \in 1 .. Len(r) :
        r[k].from = d => p[k] \in 1 .. Len(q) /\ q[p[k]] = r[k]
    /\ \A j, k \in 1 .. Len(r) :
        r[j].from = d /\ r[k].from = d => (j < k <=> p[j] < p[k]) /\ (p[j] = p[k] => j = k)
    /\ \A k \in 1 .. Len(q) : q[k].from = d => \E j \in 1 .. Len(r) : p[j] = k /\ r[j].from = d

SamePackets(q, r, d) == \E p \in [Int -> Int] : KeepsPackets(q, r, d, p)

Packets == [kind : {"call", "cancel"}, id : Ids, from : Calls]
Replies == [kind : {"next", "error", "complete"}, id : Ids, from : Calls, n : 0 .. MaxValues]

LEMMA SameQueue ==
    ASSUME NEW T, NEW q \in Seq(T), NEW d
    PROVE  SamePackets(q, q, d)
<1> DEFINE p == [k \in Int |-> k]
<1>1. KeepsPackets(q, q, d, p)
  BY DEF KeepsPackets
<1> QED
  BY <1>1 DEF SamePackets

LEMMA SameAfterAppend ==
    ASSUME NEW T, NEW q \in Seq(T), NEW e \in T, NEW d, e.from # d
    PROVE  SamePackets(q, Append(q, e), d)
<1> DEFINE p == [k \in Int |-> k]
           r == Append(q, e)
<1>1. /\ r \in Seq(T) /\ Len(q) \in Nat /\ Len(r) = Len(q) + 1
      /\ r[Len(q) + 1] = e /\ \A j \in 1 .. Len(q) : r[j] = q[j]
  BY Appended
<1> HIDE DEF r
<1>2. KeepsPackets(q, r, d, p)
  BY <1>1 DEF KeepsPackets
<1> QED
  BY <1>2 DEF SamePackets, r

LEMMA SameAfterTail ==
    ASSUME NEW T, NEW q \in Seq(T), q # << >>, NEW d, Head(q).from # d
    PROVE  SamePackets(q, Tail(q), d)
<1> DEFINE p == [k \in Int |-> k + 1]
<1>1. PICK r \in Seq(T) : /\ r = Tail(q) /\ Len(q) \in Nat \ {0} /\ Len(r) = Len(q) - 1
                          /\ Head(q) = q[1] /\ \A j \in 1 .. Len(q) - 1 : r[j] = q[j + 1]
  BY Tailed
<1>2. \A k \in 1 .. Len(r) : p[k] \in 1 .. Len(q) /\ q[p[k]] = r[k]
  BY <1>1
<1>3. ASSUME NEW k \in 1 .. Len(q), q[k].from = d
      PROVE  \E j \in 1 .. Len(r) : p[j] = k /\ r[j].from = d
  <2>1. k # 1 /\ k - 1 \in 1 .. Len(r) /\ p[k - 1] = k
    BY <1>1, <1>3
  <2> QED
    BY <1>2, <1>3, <2>1
<1>4. KeepsPackets(q, r, d, p)
  BY <1>1, <1>2, <1>3 DEF KeepsPackets
<1> QED
  BY <1>1, <1>4 DEF SamePackets

LEMMA SameAfterRemoval ==
    ASSUME NEW T, NEW q \in Seq(T), NEW i \in 1 .. Len(q), NEW d, q[i].from # d
    PROVE  SamePackets(q, RemoveAt(q, i), d)
<1> DEFINE p == [k \in Int |-> IF k < i THEN k ELSE k + 1]
<1>1. PICK r \in Seq(T) : /\ r = RemoveAt(q, i) /\ Len(q) \in Nat \ {0} /\ Len(r) = Len(q) - 1
                          /\ \A j \in 1 .. Len(q) - 1 : j < i => r[j] = q[j]
                          /\ \A j \in 1 .. Len(q) - 1 : j >= i => r[j] = q[j + 1]
  BY RemovedAt
<1>2. \A k \in 1 .. Len(r) : p[k] \in 1 .. Len(q) /\ q[p[k]] = r[k]
  BY <1>1
<1>3. ASSUME NEW k \in 1 .. Len(q), q[k].from = d
      PROVE  \E j \in 1 .. Len(r) : p[j] = k /\ r[j].from = d
  <2>1. CASE k < i
    <3>1. k \in 1 .. Len(r) /\ p[k] = k
      BY <1>1, <2>1
    <3> QED
      BY <1>2, <1>3, <3>1
  <2>2. CASE k > i
    <3>1. k - 1 \in 1 .. Len(r) /\ p[k - 1] = k
      BY <1>1, <2>2
    <3> QED
      BY <1>2, <1>3, <3>1
  <2> QED
    BY <1>3, <2>1, <2>2
<1>4. KeepsPackets(q, r, d, p)
  BY <1>1, <1>2, <1>3 DEF KeepsPackets
<1> QED
  BY <1>1, <1>4 DEF SamePackets
-----------------------------------------------------------------------------
(* Type correctness, one lemma for each group of operations. *)

LEMMA ReleasedTypes ==
    ASSUME TypeOK, NEW i \in Ids, NEW obs \in [Calls -> Events]
    PROVE  Released(pendingRequests[i], obs) \in [Calls -> Events]
  BY DEF TypeOK, Released, Events

LEMMA EraseTypes ==
    ASSUME TypeOK, NEW i \in Ids, NEW obs \in [Calls -> Events], Erase(i, obs)
    PROVE  /\ observer' \in [Calls -> Events]
           /\ pendingRequests' \in [Ids -> Calls \cup {None}]
<1>1. observer' \in [Calls -> Events]
  BY ReleasedTypes DEF Erase
<1>2. pendingRequests' \in [Ids -> Calls \cup {None}]
  BY DEF TypeOK, Erase
<1> QED
  BY <1>1, <1>2

LEMMA EndWithTypes ==
    ASSUME TypeOK, NEW c \in Calls, NEW how \in Events, EndWith(c, how)
    PROVE  /\ observer' \in [Calls -> Events]
           /\ pendingRequests' \in [Ids -> Calls \cup {None}]
<1>1. [observer EXCEPT ![c] = how] \in [Calls -> Events] /\ rid[c] \in Ids
  BY DEF TypeOK
<1>2. CASE observer[c] # "open" /\ pc[c] = "subscribed"
  BY <1>2 DEF TypeOK, EndWith
<1>3. CASE observer[c] = "open" /\ pc[c] = "subscribed"
  BY <1>1, <1>3, EraseTypes DEF EndWith
<1>4. CASE pc[c] # "subscribed"
  BY <1>1, <1>4 DEF TypeOK, EndWith
<1> QED
  BY <1>2, <1>3, <1>4

LEMMA PacketTypes ==
    ASSUME TypeOK, NEW c \in Calls
    PROVE  /\ CancelMessage(c) \in Packets
           /\ [kind |-> "call", id |-> rid[c], from |-> c] \in Packets
           /\ CancelMessage(c).kind = "cancel" /\ CancelMessage(c).id = rid[c]
           /\ CancelMessage(c).from = c
  BY DEF TypeOK, CancelMessage, Packets

LEMMA QueueTypes ==
    ASSUME TypeOK
    PROVE  toServer \in Seq(Packets) /\ toClient \in Seq(Replies)
  BY DEF TypeOK, Packets, Replies

LEMMA SendCancelTypes ==
    ASSUME TypeOK, NEW c \in Calls, SendCancel(c)
    PROVE  toServer' \in Seq(Packets)
  BY QueueTypes, PacketTypes, Appended DEF SendCancel

LEMMA ReplyTypes ==
    ASSUME TypeOK, NEW c \in Calls, NEW kind \in {"next", "error", "complete"},
           NEW n \in 0 .. MaxValues, Reply(kind, c, n)
    PROVE  toClient' \in Seq(Replies)
<1>1. [kind |-> kind, id |-> rid[c], from |-> c, n |-> n] \in Replies
  BY DEF TypeOK, Replies
<1> QED
  BY <1>1, QueueTypes, Appended DEF Reply

LEMMA SubscribeTypes ==
    ASSUME TypeOK, NEW c \in Calls, ReserveId(c) \/ RejectCall(c) \/ Emplace(c)
    PROVE  TypeOK'
<1>1. CASE ReserveId(c)
  <2>1. PICK i \in Ids, skew \in 0 .. MaxSkew : counter' = (i + skew) % (MaxId + 1)
    BY <1>1 DEF ReserveId
  <2>2. counter' \in Ids
    <3>1. i + skew \in Nat /\ MaxId + 1 \in Nat /\ MaxId + 1 > 0
      BY RpcBounds DEF Ids
    <3>2. (i + skew) % (MaxId + 1) \in 0 .. (MaxId + 1) - 1
      BY <3>1
    <3> QED
      BY <2>1, <3>2, RpcBounds DEF Ids
  <2>3. rid' = [rid EXCEPT ![c] = counter'] /\ pc' = [pc EXCEPT ![c] = "reserved"]
        /\ UNCHANGED <<pendingRequests, hasCompleted, hasData, completing, observer, received,
                   cancelAll, toCancel, calleeVars, connected, toServer, toClient>>
    BY <1>1 DEF ReserveId
  <2> QED
    BY <2>2, <2>3 DEF TypeOK, calleeVars
<1>2. CASE RejectCall(c)
  <2>1. observer' \in [Calls -> Events]
    BY <1>2 DEF RejectCall, TypeOK, Events
  <2> QED
    BY <1>2, <2>1 DEF RejectCall, TypeOK, calleeVars
<1>3. CASE Emplace(c)
  <2>1. pendingRequests' \in [Ids -> Calls \cup {None}]
    BY <1>3 DEF Emplace, TypeOK
  <2> QED
    BY <1>3, <2>1 DEF Emplace, TypeOK, calleeVars
<1> QED
  BY <1>1, <1>2, <1>3

LEMMA SendTypes ==
    ASSUME TypeOK, NEW c \in Calls, SendCall(c) \/ SendCallFails(c) \/ AddTeardown(c)
    PROVE  TypeOK'
<1>1. CASE SendCall(c)
  <2>1. toServer' \in Seq(Packets)
    BY <1>1, QueueTypes, PacketTypes, Appended DEF SendCall
  <2> QED
    BY <1>1, <2>1 DEF SendCall, TypeOK, calleeVars, Packets
<1>2. CASE SendCallFails(c)
  <2>1. observer' \in [Calls -> Events] /\ pendingRequests' \in [Ids -> Calls \cup {None}]
    BY <1>2, EndWithTypes DEF SendCallFails, Events
  <2> QED
    BY <1>2, <2>1 DEF SendCallFails, TypeOK, calleeVars
<1>3. CASE AddTeardown(c)
  <2>1. observer' \in [Calls -> Events] /\ pendingRequests' \in [Ids -> Calls \cup {None}]
        /\ toServer' \in Seq(Packets)
    <3>1. CASE observer[c] = "open"
      <4>1. [observer EXCEPT ![c] = "cancelled"] \in [Calls -> Events]
        BY DEF TypeOK, Events
      <4> QED
        BY <1>3, <3>1, <4>1, QueueTypes DEF AddTeardown, TypeOK
    <3>2. CASE observer[c] # "open"
      <4>1. rid[c] \in Ids /\ observer \in [Calls -> Events]
        BY DEF TypeOK
      <4>2. Erase(rid[c], observer) /\ SendCancel(c)
        BY <1>3, <3>2 DEF AddTeardown
      <4> QED
        BY <4>1, <4>2, EraseTypes, SendCancelTypes
    <3> QED
      BY <3>1, <3>2
  <2> QED
    BY <1>3, <2>1 DEF AddTeardown, TypeOK, calleeVars, Packets
<1> QED
  BY <1>1, <1>2, <1>3

LEMMA EndTypes ==
    ASSUME TypeOK, NEW c \in Calls, Dispose(c) \/ FinishCompletion(c) \/ CancelAllNotify(c)
    PROVE  TypeOK'
<1>1. CASE Dispose(c)
  <2>1. observer' \in [Calls -> Events] /\ pendingRequests' \in [Ids -> Calls \cup {None}]
        /\ toServer' \in Seq(Packets)
    <3>1. [observer EXCEPT ![c] = "disposed"] \in [Calls -> Events] /\ rid[c] \in Ids
      BY DEF TypeOK, Events
    <3>2. CASE Alive(c)
      <4>1. Erase(rid[c], [observer EXCEPT ![c] = "disposed"]) /\ SendCancel(c)
        BY <1>1, <3>2 DEF Dispose
      <4> QED
        BY <3>1, <4>1, EraseTypes, SendCancelTypes
    <3>3. CASE ~Alive(c)
      BY <1>1, <3>1, <3>3, QueueTypes DEF Dispose, TypeOK
    <3> QED
      BY <3>2, <3>3
  <2> QED
    BY <1>1, <2>1 DEF Dispose, TypeOK, calleeVars, Packets
<1>2. CASE FinishCompletion(c)
  <2>1. observer' \in [Calls -> Events] /\ pendingRequests' \in [Ids -> Calls \cup {None}]
    <3>1. CASE Alive(c)
      BY <1>2, <3>1, EndWithTypes DEF FinishCompletion, Events
    <3>2. CASE ~Alive(c)
      BY <1>2, <3>2 DEF FinishCompletion, TypeOK
    <3> QED
      BY <3>1, <3>2
  <2> QED
    BY <1>2, <2>1 DEF FinishCompletion, TypeOK, calleeVars
<1>3. CASE CancelAllNotify(c)
  <2>1. /\ observer' \in [Calls -> Events] /\ pendingRequests' \in [Ids -> Calls \cup {None}]
        /\ hasCompleted' \subseteq Calls
    <3>1. CASE c \in hasCompleted
      BY <1>3, <3>1 DEF CancelAllNotify, TypeOK
    <3>2. CASE c \notin hasCompleted
      BY <1>3, <3>2, EndWithTypes DEF CancelAllNotify, Events, TypeOK
    <3> QED
      BY <3>1, <3>2
  <2> QED
    BY <1>3, <2>1 DEF CancelAllNotify, TypeOK, calleeVars
<1> QED
  BY <1>1, <1>2, <1>3

LEMMA ExecuteTypes ==
    ASSUME TypeOK, NEW c \in Calls, Execute(c)
    PROVE  TypeOK'
<1>0. values[c] \in 0 .. MaxValues /\ MaxValues \in Nat
  BY RpcBounds DEF TypeOK
<1>1. CASE SendValue(c)
  <2>1. values[c] + 1 \in 0 .. MaxValues
    BY <1>0, <1>1 DEF SendValue
  <2>2. toClient' \in Seq(Replies)
    BY <1>1, <2>1, ReplyTypes DEF SendValue
  <2>3. values' \in [Calls -> 0 .. MaxValues]
    BY <1>1, <2>1 DEF SendValue, TypeOK
  <2> QED
    BY <1>1, <2>2, <2>3 DEF SendValue, TypeOK, callerVars, Replies
<1>2. CASE HandlerReturns(c)
  <2>1. (IF values[c] > 0 THEN 1 ELSE 0) \in 0 .. MaxValues
    BY <1>0
  <2>2. toClient' \in Seq(Replies) /\ runningRequests' \in [Ids -> Calls \cup {None}]
    <3>1. CASE runningRequests[rid[c]] # None
      BY <1>2, <2>1, <3>1, ReplyTypes DEF HandlerReturns, TypeOK
    <3>2. CASE runningRequests[rid[c]] = None
      BY <1>2, <3>2, QueueTypes DEF HandlerReturns, TypeOK
    <3> QED
      BY <3>1, <3>2
  <2> QED
    BY <1>2, <2>2 DEF HandlerReturns, TypeOK, callerVars, Replies
<1>3. CASE HandlerThrows(c)
  <2>1. toClient' \in Seq(Replies)
    BY <1>0, <1>3, ReplyTypes DEF HandlerThrows
  <2> QED
    BY <1>3, <2>1 DEF HandlerThrows, TypeOK, callerVars, Replies
<1> QED
  BY <1>1, <1>2, <1>3 DEF Execute

LEMMA ReceiveTypes ==
    ASSUME TypeOK, ReceiveCall \/ ReceiveCancel
    PROVE  TypeOK'
<1>1. toServer # << >> /\ toServer' = Tail(toServer)
  BY DEF ReceiveCall, ReceiveCancel
<1>2. toServer' \in Seq(Packets) /\ Head(toServer) \in Packets
  BY <1>1, QueueTypes, Tailed
<1>3. PICK m \in Packets : m = Head(toServer)
  BY <1>2
<1>4. m.id \in Ids /\ m.from \in Calls
  BY DEF Packets
<1>5. CASE ReceiveCall
  <2>1. /\ runningRequests' \in [Ids -> Calls \cup {None}]
        /\ execution' \in [Calls -> {"none", "running", "ignored", "completed", "failed"}]
    BY <1>3, <1>4, <1>5 DEF ReceiveCall, TypeOK
  <2> QED
    BY <1>2, <1>5, <2>1 DEF ReceiveCall, TypeOK, callerVars, Packets
<1>6. CASE ReceiveCancel
  <2>1. runningRequests' \in [Ids -> Calls \cup {None}] /\ cancelRequested' \subseteq Calls
    BY <1>3, <1>4, <1>6 DEF ReceiveCancel, TypeOK
  <2> QED
    BY <1>2, <1>6, <2>1 DEF ReceiveCancel, TypeOK, callerVars, Packets
<1> QED
  BY <1>5, <1>6

LEMMA DisconnectTypes ==
    ASSUME TypeOK, Disconnect \/ CancelAllTake \/ CancelAllRunning
    PROVE  TypeOK'
<1>1. CASE Disconnect
  <2>0. toServer' = << >> /\ toClient' = << >> /\ connected' = FALSE
    BY <1>1 DEF Disconnect
  <2>1. toServer' \in Seq(Packets) /\ toClient' \in Seq(Replies) /\ connected' \in BOOLEAN
    <3>1. << >> \in Seq(Packets) /\ << >> \in Seq(Replies)
      OBVIOUS
    <3> QED
      BY <2>0, <3>1
  <2>2. UNCHANGED <<callerVars, calleeVars>>
    BY <1>1 DEF Disconnect
  <2> QED
    BY <2>1, <2>2 DEF TypeOK, callerVars, calleeVars, Packets, Replies
<1>2. CASE CancelAllTake
  <2>1. toCancel' \subseteq Calls /\ pendingRequests' \in [Ids -> Calls \cup {None}]
        /\ cancelAll' = "taken"
    BY <1>2 DEF CancelAllTake, TypeOK
  <2>2. UNCHANGED <<counter, pc, rid, hasCompleted, hasData, completing, observer, received,
                   calleeVars, connected, toServer, toClient>>
    BY <1>2 DEF CancelAllTake
  <2> QED
    BY <2>1, <2>2 DEF TypeOK, calleeVars
<1>3. CASE CancelAllRunning
  <2>1. cancelRequested' \subseteq Calls /\ runningRequests' \in [Ids -> Calls \cup {None}]
    BY <1>3 DEF CancelAllRunning, TypeOK
  <2>2. UNCHANGED <<callerVars, execution, values, ordered, connected, toServer, toClient>>
    BY <1>3 DEF CancelAllRunning
  <2> QED
    BY <2>1, <2>2 DEF TypeOK, callerVars
<1> QED
  BY <1>1, <1>2, <1>3

(* The packet that a step delivers, and who it is delivered to. *)
LEMMA Delivered ==
    ASSUME TypeOK, Deliver
    PROVE  \E k \in FromServer : \E m \in Replies :
             /\ m = toClient[k] /\ Deliverable(k) /\ toClient' = RemoveAt(toClient, k)
             /\ toClient' \in Seq(Replies)
             /\ m.id \in Ids /\ m.from \in Calls /\ m.kind \in {"next", "error", "complete"}
             /\ UNCHANGED <<counter, pc, rid, cancelAll, toCancel, calleeVars, connected, toServer>>
             /\ \/ /\ pendingRequests[m.id] = None
                   /\ UNCHANGED <<pendingRequests, observer, received, hasData, hasCompleted,
                                  completing>>
                \/ \E c \in Calls :
                     /\ c = pendingRequests[m.id]
                     /\ DeliverNext(m, c) \/ DeliverError(m, c) \/ DeliverComplete(m, c)
<1>1. PICK k \in FromServer :
        /\ Deliverable(k) /\ toClient' = RemoveAt(toClient, k)
        /\ IF pendingRequests[toClient[k].id] = None
           THEN UNCHANGED <<pendingRequests, observer, received, hasData, hasCompleted, completing>>
           ELSE LET c == pendingRequests[toClient[k].id] IN
                DeliverNext(toClient[k], c) \/ DeliverError(toClient[k], c)
                  \/ DeliverComplete(toClient[k], c)
        /\ UNCHANGED <<counter, pc, rid, cancelAll, toCancel, calleeVars, connected, toServer>>
  BY DEF Deliver, FromServer
<1>2. toClient[k] \in Replies /\ toClient' \in Seq(Replies)
  BY <1>1, QueueTypes, RemovedAt DEF FromServer
<1>3. PICK m \in Replies : m = toClient[k]
  BY <1>2
<1>4. m.id \in Ids /\ m.from \in Calls /\ m.kind \in {"next", "error", "complete"}
  BY DEF Replies
<1>5. pendingRequests[m.id] \in Calls \cup {None}
  BY <1>4 DEF TypeOK
<1> QED
  BY <1>1, <1>2, <1>3, <1>4, <1>5

LEMMA DeliverTypes ==
    ASSUME TypeOK, \A c \in Calls : RepliesOf(c), Deliver
    PROVE  TypeOK'
<1>1. PICK k \in FromServer, m \in Replies :
             /\ m = toClient[k]
             /\ toClient' \in Seq(Replies)
             /\ m.id \in Ids /\ m.from \in Calls /\ m.kind \in {"next", "error", "complete"}
             /\ UNCHANGED <<counter, pc, rid, cancelAll, toCancel, calleeVars, connected, toServer>>
             /\ \/ UNCHANGED <<pendingRequests, observer, received, hasData, hasCompleted,
                                  completing>>
                \/ \E c \in Calls :
                     DeliverNext(m, c) \/ DeliverError(m, c) \/ DeliverComplete(m, c)
  BY Delivered
<1>2. m.kind = "next" => m.n \in 1 .. MaxValues
  <2>1. m.kind = "next" => m.n \in 1 .. values[m.from]
    BY <1>1 DEF RepliesOf
  <2>2. values[m.from] \in 0 .. MaxValues
    BY <1>1 DEF TypeOK
  <2> QED
    BY <2>1, <2>2, RpcBounds
<1>3. ASSUME observer' \in [Calls -> Events], pendingRequests' \in [Ids -> Calls \cup {None}],
             hasCompleted' \subseteq Calls, hasData' \subseteq Calls, completing' \subseteq Calls,
             received' \in [Calls -> Seq([from : Calls, n : 1 .. MaxValues])]
      PROVE  TypeOK'
  <2>1. UNCHANGED <<counter, pc, rid, cancelAll, toCancel, runningRequests, execution, values,
                    cancelRequested, ordered, connected, toServer>>
    BY <1>1 DEF calleeVars
  <2> QED
    BY <1>1, <1>3, <2>1 DEF TypeOK, Replies
<1>4. /\ observer \in [Calls -> Events] /\ pendingRequests \in [Ids -> Calls \cup {None}]
      /\ hasCompleted \subseteq Calls /\ hasData \subseteq Calls /\ completing \subseteq Calls
      /\ received \in [Calls -> Seq([from : Calls, n : 1 .. MaxValues])]
  BY DEF TypeOK
<1>5. ASSUME NEW c \in Calls, DeliverNext(m, c) PROVE TypeOK'
  <2>1. [from |-> m.from, n |-> m.n] \in [from : Calls, n : 1 .. MaxValues]
    BY <1>1, <1>2, <1>5 DEF DeliverNext
  <2>2. received[c] \in Seq([from : Calls, n : 1 .. MaxValues])
    BY <1>4
  <2>3. Append(received[c], [from |-> m.from, n |-> m.n]) \in Seq([from : Calls, n : 1 .. MaxValues])
    BY <2>1, <2>2, Appended
  <2>4. received' \in [Calls -> Seq([from : Calls, n : 1 .. MaxValues])]
    BY <1>4, <1>5, <2>2, <2>3 DEF DeliverNext
  <2> QED
    BY <1>3, <1>4, <1>5, <2>4 DEF DeliverNext
<1>6. ASSUME NEW c \in Calls, DeliverError(m, c) PROVE TypeOK'
  <2>1. observer' \in [Calls -> Events] /\ pendingRequests' \in [Ids -> Calls \cup {None}]
    BY <1>6, EndWithTypes DEF DeliverError, Events
  <2> QED
    BY <1>3, <1>4, <1>6, <2>1 DEF DeliverError
<1>7. ASSUME NEW c \in Calls, DeliverComplete(m, c) PROVE TypeOK'
  BY <1>3, <1>4, <1>7 DEF DeliverComplete
<1> QED
  BY <1>1, <1>3, <1>4, <1>5, <1>6, <1>7
-----------------------------------------------------------------------------
(* What a step leaves alone.  A step of one call may still touch another   *)
(* one that has the same id, in two ways: erasing the id releases whoever  *)
(* holds the slot, and its packets are taken for those of the holder.      *)

(* The callee has done nothing for d. *)
CalleeQuiet(d) ==
    /\ rid'[d] = rid[d] /\ execution'[d] = execution[d] /\ values'[d] = values[d]
    /\ ordered' = ordered
    /\ pc[d] \in {"sent", "subscribed"} => pc'[d] \in {"sent", "subscribed"}
    /\ \A i \in Ids : runningRequests'[i] = d => runningRequests[i] = d

(* d was given nothing. *)
CallerQuiet(d) ==
    /\ received'[d] = received[d] /\ connected' = connected
    /\ d \in hasData' => d \in hasData
    /\ d \in completing' => d \in completing
    /\ observer'[d] = "open" => observer[d] = "open"

LEMMA ExecutionKept ==
    ASSUME NEW d \in Calls, CalleeQuiet(d), ExecutionOf(d)
    PROVE  ExecutionOf(d)'
  BY DEF CalleeQuiet, ExecutionOf

LEMMA PacketsKept ==
    ASSUME NEW d \in Calls, CalleeQuiet(d), SamePackets(toServer, toServer', d), PacketsOf(d)
    PROVE  PacketsOf(d)'
<1>1. PICK p \in [Int -> Int] : KeepsPackets(toServer, toServer', d, p)
  BY DEF SamePackets
<1>2. ASSUME NEW k \in FromClient', toServer'[k].from = d
      PROVE  /\ toServer'[k].id = rid'[d]
             /\ pc'[d] \in {"sent", "subscribed"}
             /\ toServer'[k].kind = "call" => execution'[d] = "none"
  BY <1>1, <1>2 DEF KeepsPackets, PacketsOf, CalleeQuiet, FromClient
<1>3. ASSUME NEW j \in FromClient', NEW k \in FromClient', j # k,
             toServer'[j].from = d, toServer'[k].from = d, toServer'[k].kind = "call"
      PROVE  toServer'[j].kind = "cancel" /\ k < j
  <2>1. /\ p[j] \in FromClient /\ p[k] \in FromClient /\ p[j] # p[k]
        /\ toServer[p[j]] = toServer'[j] /\ toServer[p[k]] = toServer'[k]
        /\ p[k] < p[j] <=> k < j
    BY <1>1, <1>3 DEF KeepsPackets, FromClient
  <2> QED
    BY <1>3, <2>1 DEF PacketsOf
<1> QED
  BY <1>2, <1>3 DEF PacketsOf

LEMMA RepliesKept ==
    ASSUME NEW d \in Calls, CalleeQuiet(d), SamePackets(toClient, toClient', d), RepliesOf(d)
    PROVE  RepliesOf(d)'
<1>1. PICK p \in [Int -> Int] : KeepsPackets(toClient, toClient', d, p)
  BY DEF SamePackets
<1>2. ASSUME NEW k \in FromServer', toClient'[k].from = d
      PROVE  p[k] \in FromServer /\ toClient[p[k]] = toClient'[k]
  BY <1>1, <1>2 DEF KeepsPackets, FromServer
<1>3. ASSUME NEW j \in FromServer', NEW k \in FromServer', j < k,
             toClient'[j].from = d, toClient'[k].from = d
      PROVE  p[j] < p[k]
  BY <1>1, <1>3 DEF KeepsPackets, FromServer
<1>4. rid'[d] = rid[d] /\ execution'[d] = execution[d] /\ values'[d] = values[d] /\ ordered' = ordered
  BY DEF CalleeQuiet
<1> QED
  BY <1>2, <1>3, <1>4 DEF RepliesOf

LEMMA OwnDataKept ==
    ASSUME NEW d \in Calls, CalleeQuiet(d), CallerQuiet(d), OwnData(d)
    PROVE  OwnData(d)'
  BY DEF CalleeQuiet, CallerQuiet, OwnData

LEMMA OwnOrderKept ==
    ASSUME NEW d \in Calls, CalleeQuiet(d), CallerQuiet(d),
           SamePackets(toClient, toClient', d), OwnOrder(d)
    PROVE  OwnOrder(d)'
<1> SUFFICES ASSUME d \in ordered', observer'[d] = "open"
             PROVE  OwnOrder(d)'
  BY DEF OwnOrder
<1>1. PICK p \in [Int -> Int] : KeepsPackets(toClient, toClient', d, p)
  BY DEF SamePackets
<1>2. d \in ordered /\ observer[d] = "open" /\ received'[d] = received[d] /\ values'[d] = values[d]
      /\ connected' = connected
  BY DEF CalleeQuiet, CallerQuiet
<1>3. ASSUME NEW k \in FromServer', toClient'[k].from = d, toClient'[k].kind = "next"
      PROVE  toClient'[k].n > Len(received'[d])
  <2>1. p[k] \in FromServer /\ toClient[p[k]] = toClient'[k]
    BY <1>1, <1>3 DEF KeepsPackets, FromServer
  <2> QED
    BY <1>2, <1>3, <2>1 DEF OwnOrder
<1>4. ASSUME connected, NEW v \in Len(received[d]) + 1 .. values[d]
      PROVE  \E k \in FromServer' :
                 toClient'[k].from = d /\ toClient'[k].kind = "next" /\ toClient'[k].n = v
  <2>1. PICK k \in FromServer :
            toClient[k].from = d /\ toClient[k].kind = "next" /\ toClient[k].n = v
    BY <1>2, <1>4 DEF OwnOrder
  <2>2. PICK j \in FromServer' : p[j] = k /\ toClient'[j].from = d
    BY <1>1, <2>1 DEF KeepsPackets, FromServer
  <2>3. toClient'[j] = toClient[k]
    BY <1>1, <2>2 DEF KeepsPackets, FromServer
  <2> QED
    BY <2>1, <2>2, <2>3
<1> QED
  BY <1>2, <1>3, <1>4 DEF OwnOrder, CallerQuiet

LEMMA OwnCancelKept ==
    ASSUME NEW d \in Calls, CalleeQuiet(d), SamePackets(toServer, toServer', d), OwnCancel(d),
           connected' = connected, observer'[d] = "disposed" => observer[d] = "disposed",
           d \in cancelRequested => d \in cancelRequested',
           runningRequests[rid[d]] = d => runningRequests'[rid[d]] = d \/ d \in cancelRequested'
    PROVE  OwnCancel(d)'
<1>1. PICK p \in [Int -> Int] : KeepsPackets(toServer, toServer', d, p)
  BY DEF SamePackets
<1>2. ASSUME NEW k \in FromClient, toServer[k].from = d, toServer[k].kind = "cancel"
      PROVE  \E j \in FromClient' : toServer'[j].from = d /\ toServer'[j].kind = "cancel"
  <2>1. PICK j \in FromClient' : p[j] = k /\ toServer'[j].from = d
    BY <1>1, <1>2 DEF KeepsPackets, FromClient
  <2>2. toServer'[j] = toServer[k]
    BY <1>1, <2>1 DEF KeepsPackets, FromClient
  <2> QED
    BY <1>2, <2>1, <2>2
<1>3. ASSUME \A k \in FromClient : toServer[k].from # d
      PROVE  \A k \in FromClient' : toServer'[k].from # d
  BY <1>1, <1>3 DEF KeepsPackets, FromClient
<1>4. execution'[d] = execution[d] /\ rid'[d] = rid[d]
  BY DEF CalleeQuiet
<1> QED
  BY <1>2, <1>3, <1>4 DEF OwnCancel

(* The step is about another call than d: d may lose its slot, and be told *)
(* that it is cancelled, only to a call with the same id.                  *)
TableSpared(d) ==
    /\ \/ observer'[d] = observer[d]
       \/ /\ observer[d] = "open" /\ observer'[d] = "cancelled" /\ pc[d] = "subscribed"
          /\ pendingRequests'[rid[d]] # d /\ ~Own(d)
    /\ \A i \in Ids : pendingRequests'[i] = d => pendingRequests[i] = d
    /\ pendingRequests[rid[d]] = d =>
         \/ pendingRequests'[rid[d]] = d
         \/ /\ cancelAll = "taken" /\ ~Own(d)
            /\ Held(d) \/ d \in hasCompleted \/ observer'[d] # "open"

Spared(d) ==
    /\ pc'[d] = pc[d] /\ cancelAll' = cancelAll
    /\ d \in hasCompleted' <=> d \in hasCompleted
    /\ d \in completing' <=> d \in completing
    /\ d \in hasData' <=> d \in hasData
    /\ d \in toCancel' <=> d \in toCancel
    /\ d \in cancelRequested => d \in cancelRequested'
    /\ TableSpared(d)
    /\ Own(d) /\ runningRequests[rid[d]] = d =>
         runningRequests'[rid[d]] = d \/ d \in cancelRequested'
    /\ Own(d)' => Own(d)

LEMMA SparedCall ==
    ASSUME NEW d \in Calls, TypeOK, Spared(d), CalleeQuiet(d), CallerQuiet(d), CallInv(d)
    PROVE  CallInv(d)'
<1>1. FreshCall(d)'
  BY DEF Spared, TableSpared, CallerQuiet, CallInv, FreshCall
<1>2. SlotHolder(d)'
  BY DEF Spared, TableSpared, CalleeQuiet, CallInv, SlotHolder
<1>3. SlotKept(d)'
  BY DEF Spared, TableSpared, CalleeQuiet, CallInv, SlotKept, InSubscribe
<1>4. WaitingIsHeld(d)'
  <2> SUFFICES ASSUME Started(d)', observer'[d] = "open", ~Alive(d)'
               PROVE  d \in hasCompleted' /\ cancelAll' = "taken"
    BY DEF WaitingIsHeld
  <2>1. Started(d) /\ observer[d] = "open" /\ (Held(d)' <=> Held(d))
    BY DEF Spared, TableSpared, Started, Held, InSubscribe
  <2>2. CASE Alive(d)
    <3>1. ~Held(d) /\ pendingRequests[rid[d]] = d /\ pendingRequests'[rid[d]] # d
      BY <2>1, <2>2 DEF Alive, CalleeQuiet
    <3> QED
      BY <3>1 DEF Spared, TableSpared
  <2>3. CASE ~Alive(d)
    BY <2>1, <2>3 DEF CallInv, WaitingIsHeld, Spared, TableSpared
  <2> QED
    BY <2>2, <2>3
<1>5. EndOf(d)'
  BY DEF Spared, TableSpared, CallInv, EndOf
<1> QED
  BY <1>1, <1>2, <1>3, <1>4, <1>5 DEF CallInv

LEMMA SparedNetwork ==
    ASSUME NEW d \in Calls, CalleeQuiet(d), NetworkInv(d),
           SamePackets(toServer, toServer', d), SamePackets(toClient, toClient', d)
    PROVE  NetworkInv(d)'
  BY ExecutionKept, PacketsKept, RepliesKept DEF NetworkInv

LEMMA SparedOwn ==
    ASSUME NEW d \in Calls, TypeOK, Spared(d), CalleeQuiet(d), CallerQuiet(d),
           SamePackets(toServer, toServer', d),
           SamePackets(toClient, toClient', d) \/ observer'[d] # "open",
           Own(d) => OwnInv(d), Own(d)'
    PROVE  OwnInv(d)'
<1>1. Own(d) /\ OwnInv(d)
  BY DEF Spared, TableSpared
<1>2. observer'[d] = observer[d]
  BY <1>1 DEF Spared, TableSpared
<1>3. OwnSlot(d)'
  BY <1>1, <1>2 DEF OwnInv, OwnSlot, Spared, TableSpared, CalleeQuiet, CallerQuiet
<1>4. OwnData(d)' /\ OwnOrder(d)'
  <2>1. OwnData(d)'
    BY <1>1, OwnDataKept DEF OwnInv
  <2>2. CASE observer'[d] # "open"
    BY <2>1, <2>2 DEF OwnOrder
  <2>3. CASE SamePackets(toClient, toClient', d)
    BY <1>1, <2>1, <2>3, OwnOrderKept DEF OwnInv
  <2> QED
    BY <2>2, <2>3
<1>5. OwnCancel(d)'
  BY <1>1, <1>2, OwnCancelKept DEF OwnInv, Spared, TableSpared, CallerQuiet
<1>6. EventsOf(d)'
  BY <1>1, <1>2 DEF OwnInv, EventsOf, Spared, TableSpared, CalleeQuiet, CallerQuiet
<1>7. DataOf(d)'
  BY <1>1, <1>2 DEF OwnInv, DataOf, CalleeQuiet, CallerQuiet
<1> QED
  BY <1>3, <1>4, <1>5, <1>6, <1>7 DEF OwnInv

LeftAlone(d) ==
    /\ Spared(d) /\ CalleeQuiet(d) /\ CallerQuiet(d)
    /\ SamePackets(toServer, toServer', d) /\ SamePackets(toClient, toClient', d)

(* One call moves, the others are left alone. *)
Moves(c) ==
    /\ TypeOK' /\ CancelAllComesLast'
    /\ \A d \in Calls \ {c} : LeftAlone(d)
    /\ CallInv(c)' /\ NetworkInv(c)' /\ (Own(c)' => OwnInv(c)')

LEMMA OneCallMoves ==
    ASSUME IInv, NEW c \in Calls, Moves(c)
    PROVE  IInv'
<1>1. ASSUME NEW d \in Calls \ {c}
      PROVE  CallInv(d)' /\ NetworkInv(d)' /\ (Own(d)' => OwnInv(d)')
  <2>1. LeftAlone(d) /\ TypeOK /\ CallInv(d) /\ NetworkInv(d) /\ (Own(d) => OwnInv(d))
    BY DEF Moves, IInv
  <2>2. CallInv(d)'
    BY <2>1, SparedCall DEF LeftAlone
  <2>3. NetworkInv(d)'
    BY <2>1, SparedNetwork DEF LeftAlone
  <2>4. Own(d)' => OwnInv(d)'
    BY <2>1, SparedOwn DEF LeftAlone
  <2> QED
    BY <2>2, <2>3, <2>4
<1>2. \A d \in Calls : CallInv(d)' /\ NetworkInv(d)' /\ (Own(d)' => OwnInv(d)')
  BY <1>1 DEF Moves
<1> QED
  BY <1>2 DEF IInv, Moves

LEMMA OwnUnchanged ==
    ASSUME rid' = rid, \A e \in Calls : Started(e)' <=> Started(e), NEW d \in Calls
    PROVE  Own(d)' <=> Own(d)
  BY DEF Own, OwnId

LEMMA QueuesUnchanged ==
    ASSUME TypeOK, NEW d
    PROVE  /\ toServer' = toServer => SamePackets(toServer, toServer', d)
           /\ toClient' = toClient => SamePackets(toClient, toClient', d)
  BY QueueTypes, SameQueue

(* What the parts say of the holder of a slot: whoever has an id of its    *)
(* own does not share the slot.                                            *)
LEMMA HolderHasTheId ==
    ASSUME IInv, NEW i \in Ids, NEW d \in Calls, pendingRequests[i] = d
    PROVE  /\ rid[d] = i /\ pc[d] \in {"emplaced", "sent", "subscribed", "failed"} /\ Started(d)
           /\ \A e \in Calls : Started(e) /\ rid[e] = i /\ e # d => ~Own(d) /\ ~Own(e)
  BY DEF IInv, CallInv, SlotHolder, Started, Own, OwnId

LEMMA FreshIsQuiet ==
    ASSUME IInv, NEW c \in Calls, pc[c] \notin {"sent", "subscribed"}
    PROVE  /\ execution[c] = "none" /\ values[c] = 0
           /\ \A i \in Ids : runningRequests[i] # c
           /\ \A k \in FromClient : toServer[k].from # c
           /\ \A k \in FromServer : toClient[k].from # c
<1>1. ExecutionOf(c) /\ PacketsOf(c) /\ RepliesOf(c) /\ values[c] \in 0 .. MaxValues
  BY DEF IInv, NetworkInv, TypeOK
<1>2. execution[c] = "none"
  BY <1>1 DEF ExecutionOf
<1>3. values[c] = 0
  BY <1>1, <1>2, RpcBounds DEF ExecutionOf
<1>4. \A i \in Ids : runningRequests[i] # c
  BY <1>1, <1>2 DEF ExecutionOf
<1>5. \A k \in FromClient : toServer[k].from # c
  BY <1>1 DEF PacketsOf
<1>6. \A k \in FromServer : toClient[k].from # c
  BY <1>1, <1>2 DEF RepliesOf
<1> QED
  BY <1>2, <1>3, <1>4, <1>5, <1>6

(* Erasing an id releases the call that holds the slot and no other. *)
LEMMA EraseSpares ==
    ASSUME IInv, NEW c \in Calls, Started(c), NEW obs \in [Calls -> Events],
           \A d \in Calls \ {c} : obs[d] = observer[d],
           cancelAll = "no" => pendingRequests[rid[c]] \in {c, None},
           obs[c] # "open", Erase(rid[c], obs)
    PROVE  /\ \A d \in Calls \ {c} : TableSpared(d)
           /\ observer'[c] = obs[c] /\ pendingRequests'[rid[c]] = None
           /\ \A i \in Ids \ {rid[c]} : pendingRequests'[i] = pendingRequests[i]
<1>1. /\ rid[c] \in Ids /\ pendingRequests \in [Ids -> Calls \cup {None}]
      /\ observer \in [Calls -> Events] /\ cancelAll \in {"no", "taken"} /\ rid \in [Calls -> Ids]
  BY DEF IInv, TypeOK
<1>2. /\ pendingRequests'[rid[c]] = None
      /\ \A i \in Ids \ {rid[c]} : pendingRequests'[i] = pendingRequests[i]
  BY <1>1 DEF Erase
<1>3. observer' = Released(pendingRequests[rid[c]], obs)
  BY DEF Erase
<1>4. observer'[c] = obs[c]
  BY <1>3 DEF Released
<1>5. ASSUME NEW d \in Calls \ {c} PROVE TableSpared(d)
  <2>1. CASE pendingRequests[rid[c]] # d
    <3>1. observer'[d] = observer[d]
      BY <1>3, <2>1 DEF Released
    <3>2. \A i \in Ids : pendingRequests'[i] = d => pendingRequests[i] = d
      BY <1>2, NoneIsNoCall
    <3>3. pendingRequests[rid[d]] = d => pendingRequests'[rid[d]] = d
      BY <1>1, <1>2, <2>1
    <3> QED
      BY <3>1, <3>2, <3>3 DEF TableSpared
  <2>2. CASE pendingRequests[rid[c]] = d
    <3>1. /\ rid[d] = rid[c] /\ ~Own(d) /\ cancelAll = "taken"
          /\ pc[d] \in {"emplaced", "sent", "subscribed", "failed"}
      BY <1>1, <2>2, HolderHasTheId, NoneIsNoCall
    <3>2. \A i \in Ids : pendingRequests'[i] = d => pendingRequests[i] = d
      BY <1>2, NoneIsNoCall
    <3>3. CASE Held(d) \/ d \in hasCompleted \/ observer[d] # "open"
      <4>1. observer'[d] = observer[d]
        BY <1>3, <2>2, <3>3 DEF Released
      <4> QED
        BY <3>1, <3>2, <3>3, <4>1 DEF TableSpared
    <3>4. CASE ~Held(d) /\ d \notin hasCompleted /\ observer[d] = "open"
      <4>1. observer'[d] = "cancelled"
        BY <1>3, <2>2, <3>4, NoneIsNoCall DEF Released
      <4>2. pc[d] = "subscribed"
        BY <3>1, <3>4 DEF Held, InSubscribe, IInv, CallInv, EndOf
      <4>3. pendingRequests'[rid[d]] # d
        BY <1>2, <3>1, NoneIsNoCall
      <4> QED
        BY <3>1, <3>2, <3>4, <4>1, <4>2, <4>3 DEF TableSpared
    <3> QED
      BY <3>3, <3>4
  <2> QED
    BY <2>1, <2>2
<1> QED
  BY <1>2, <1>4, <1>5

LEMMA NothingErased ==
    ASSUME NEW d \in Calls, observer'[d] = observer[d], UNCHANGED pendingRequests
    PROVE  TableSpared(d)
  BY DEF TableSpared

(* Before cancelAll, a live subscription erases its own slot. *)
LEMMA ErasesItsOwn ==
    ASSUME IInv, NEW c \in Calls, cancelAll = "no",
           \/ pc[c] = "subscribed" /\ observer[c] = "open"
           \/ pc[c] = "sent" /\ observer[c] # "open"
    PROVE  pendingRequests[rid[c]] = c
<1>1. CallInv(c) /\ toCancel = {}
  BY DEF IInv, CancelAllComesLast
<1> QED
  BY <1>1 DEF CallInv, WaitingIsHeld, SlotKept, Started, Alive, Held, InSubscribe

(* The end of c as its observer sees it. *)
Ends(c, how) ==
    /\ \A d \in Calls \ {c} : TableSpared(d)
    /\ observer'[c] = IF observer[c] = "open" THEN how ELSE observer[c]
    /\ \A i \in Ids :
        pendingRequests'[i] = IF observer[c] = "open" /\ pc[c] = "subscribed" /\ i = rid[c]
                              THEN None ELSE pendingRequests[i]

LEMMA EndWithEnds ==
    ASSUME IInv, NEW c \in Calls, Started(c), NEW how \in Events \ {"open"}, EndWith(c, how)
    PROVE  Ends(c, how)
<1>1. observer \in [Calls -> Events] /\ cancelAll \in {"no", "taken"}
  BY DEF IInv, TypeOK
<1> DEFINE obs == [observer EXCEPT ![c] = how]
<1>2. obs \in [Calls -> Events] /\ obs[c] = how /\ \A d \in Calls \ {c} : obs[d] = observer[d]
  BY <1>1
<1>3. CASE observer[c] # "open"
  BY <1>3, NothingErased DEF EndWith, Ends
<1>4. CASE observer[c] = "open" /\ pc[c] # "subscribed"
  <2>1. observer' = obs /\ UNCHANGED pendingRequests
    BY <1>4 DEF EndWith
  <2> HIDE DEF obs
  <2> QED
    BY <1>2, <1>4, <2>1, NothingErased DEF Ends
<1>5. CASE observer[c] = "open" /\ pc[c] = "subscribed"
  <2>1. Erase(rid[c], obs)
    BY <1>5 DEF EndWith
  <2> HIDE DEF obs
  <2>2. cancelAll = "no" => pendingRequests[rid[c]] \in {c, None}
    BY <1>5, ErasesItsOwn
  <2>3. /\ \A d \in Calls \ {c} : TableSpared(d)
        /\ observer'[c] = obs[c] /\ pendingRequests'[rid[c]] = None
        /\ \A i \in Ids \ {rid[c]} : pendingRequests'[i] = pendingRequests[i]
    BY <1>2, <2>1, <2>2, EraseSpares
  <2> QED
    BY <1>2, <1>5, <2>3 DEF Ends
<1> QED
  BY <1>3, <1>4, <1>5
-----------------------------------------------------------------------------
(* The operations: first the caller's thread. *)

(* What holds of every step of the caller that gives the callee nothing. *)
LEMMA CalleeUnchanged ==
    ASSUME TypeOK, NEW d \in Calls, UNCHANGED calleeVars, rid'[d] = rid[d],
           pc[d] \in {"sent", "subscribed"} => pc'[d] \in {"sent", "subscribed"}
    PROVE  /\ CalleeQuiet(d)
           /\ runningRequests' = runningRequests /\ cancelRequested' = cancelRequested
  BY DEF CalleeQuiet, calleeVars

LEMMA ReserveIdMoves ==
    ASSUME IInv, NEW c \in Calls, ReserveId(c)
    PROVE  Moves(c)
<1>1. /\ pc[c] = "idle" /\ rid' = [rid EXCEPT ![c] = counter'] /\ pc' = [pc EXCEPT ![c] = "reserved"]
      /\ UNCHANGED <<pendingRequests, hasCompleted, hasData, completing, observer, received,
                   cancelAll, toCancel, calleeVars, connected, toServer, toClient>>
  BY DEF ReserveId
<1>2. TypeOK /\ TypeOK'
  BY SubscribeTypes DEF IInv
<1>3. CancelAllComesLast'
  BY <1>1 DEF IInv, CancelAllComesLast
<1>4. rid \in [Calls -> Ids] /\ pc'[c] = "reserved"
      /\ \A d \in Calls \ {c} : rid'[d] = rid[d] /\ pc'[d] = pc[d]
  BY <1>1, <1>2 DEF TypeOK
<1>5. ASSUME NEW d \in Calls \ {c} PROVE LeftAlone(d)
  <2>1. Own(d)' => Own(d)
    BY <1>1, <1>4 DEF Own, OwnId, Started
  <2>2. TableSpared(d)
    BY <1>1, NothingErased
  <2>3. CalleeQuiet(d) /\ runningRequests' = runningRequests /\ cancelRequested' = cancelRequested
    BY <1>1, <1>2, <1>4, CalleeUnchanged
  <2>4. Spared(d) /\ CallerQuiet(d)
    BY <1>1, <1>4, <2>1, <2>2, <2>3 DEF Spared, CallerQuiet
  <2> QED
    BY <1>1, <1>2, <2>3, <2>4, QueuesUnchanged DEF LeftAlone
<1>6. FreshCall(c) /\ SlotHolder(c)
  BY DEF IInv, CallInv
<1>7. /\ execution[c] = "none" /\ values[c] = 0
      /\ \A i \in Ids : runningRequests[i] # c
      /\ \A k \in FromClient : toServer[k].from # c
      /\ \A k \in FromServer : toClient[k].from # c
  BY <1>1, FreshIsQuiet
<1>8. CallInv(c)'
  BY <1>1, <1>4, <1>6 DEF CallInv, FreshCall, SlotHolder, SlotKept, WaitingIsHeld, EndOf,
        InSubscribe, Started, Alive, Held
<1>9. NetworkInv(c)'
  BY <1>1, <1>4, <1>7 DEF NetworkInv, ExecutionOf, PacketsOf, RepliesOf, FromClient, FromServer,
        calleeVars
<1>10. OwnInv(c)'
  <2>1. c \notin hasCompleted /\ c \notin hasData /\ c \notin completing /\ received[c] = << >>
        /\ observer[c] = "open" /\ Len(<< >>) = 0
    BY <1>1, <1>6 DEF FreshCall
  <2>2. OwnSlot(c)' /\ OwnData(c)' /\ OwnCancel(c)'
    BY <1>1, <1>4, <1>7, <2>1 DEF OwnSlot, OwnData, OwnCancel, calleeVars
  <2>3. OwnOrder(c)'
    BY <1>1, <1>4, <1>7, <2>1 DEF OwnOrder, calleeVars, FromServer
  <2>4. EventsOf(c)' /\ DataOf(c)'
    BY <1>1, <1>4, <1>7, <2>1 DEF EventsOf, DataOf, calleeVars
  <2> QED
    BY <2>2, <2>3, <2>4 DEF OwnInv
<1> QED
  BY <1>2, <1>3, <1>5, <1>8, <1>9, <1>10 DEF Moves

LEMMA RejectCallMoves ==
    ASSUME IInv, NEW c \in Calls, RejectCall(c)
    PROVE  Moves(c)
<1>1. /\ pc[c] = "idle" /\ observer' = [observer EXCEPT ![c] = "error"]
      /\ pc' = [pc EXCEPT ![c] = "rejected"]
      /\ UNCHANGED <<counter, pendingRequests, rid, hasCompleted, hasData, completing, received,
                   cancelAll, toCancel, calleeVars, connected, toServer, toClient>>
  BY DEF RejectCall
<1>2. TypeOK /\ TypeOK'
  BY SubscribeTypes DEF IInv
<1>3. CancelAllComesLast'
  BY <1>1 DEF IInv, CancelAllComesLast
<1>4. pc'[c] = "rejected" /\ observer'[c] = "error"
      /\ \A d \in Calls \ {c} : observer'[d] = observer[d] /\ pc'[d] = pc[d]
  BY <1>1, <1>2 DEF TypeOK
<1>5. \A e \in Calls : Started(e)' <=> Started(e)
  BY <1>1, <1>4 DEF Started
<1>6. ASSUME NEW d \in Calls \ {c} PROVE LeftAlone(d)
  <2>1. Own(d)' => Own(d)
    BY <1>1, <1>5, OwnUnchanged
  <2>2. TableSpared(d)
    BY <1>1, <1>4, NothingErased
  <2>3. CalleeQuiet(d) /\ runningRequests' = runningRequests /\ cancelRequested' = cancelRequested
    BY <1>1, <1>2, <1>4, CalleeUnchanged
  <2>4. Spared(d) /\ CallerQuiet(d)
    BY <1>1, <1>4, <2>1, <2>2, <2>3 DEF Spared, CallerQuiet
  <2> QED
    BY <1>1, <1>2, <2>3, <2>4, QueuesUnchanged DEF LeftAlone
<1>7. FreshCall(c) /\ SlotHolder(c)
  BY DEF IInv, CallInv
<1>8. CallInv(c)'
  BY <1>1, <1>4, <1>7 DEF CallInv, FreshCall, SlotHolder, SlotKept, WaitingIsHeld, EndOf,
        InSubscribe, Started, Alive, Held
<1>9. NetworkInv(c)'
  <2>1. CalleeQuiet(c)
    BY <1>1, <1>2, CalleeUnchanged
  <2> QED
    BY <1>1, <1>2, <2>1, SparedNetwork, QueuesUnchanged DEF IInv
<1>10. ~Own(c)'
  BY <1>4 DEF Own, Started
<1> QED
  BY <1>2, <1>3, <1>6, <1>8, <1>9, <1>10 DEF Moves

LEMMA EmplaceMoves ==
    ASSUME IInv, NEW c \in Calls, Emplace(c)
    PROVE  Moves(c)
<1>1. /\ pc[c] = "reserved" /\ pc' = [pc EXCEPT ![c] = "emplaced"]
      /\ pendingRequests' = [pendingRequests EXCEPT ![rid[c]] = IF @ = None THEN c ELSE @]
      /\ UNCHANGED <<counter, rid, hasCompleted, hasData, completing, observer, received,
                   cancelAll, toCancel, calleeVars, connected, toServer, toClient>>
  BY DEF Emplace
<1>2. TypeOK /\ TypeOK'
  BY SubscribeTypes DEF IInv
<1>3. CancelAllComesLast'
  BY <1>1 DEF IInv, CancelAllComesLast
<1>4. pc'[c] = "emplaced" /\ (\A d \in Calls \ {c} : pc'[d] = pc[d])
      /\ rid[c] \in Ids /\ pendingRequests \in [Ids -> Calls \cup {None}]
  BY <1>1, <1>2 DEF TypeOK
<1>5. \A e \in Calls : Started(e)' <=> Started(e)
  BY <1>1, <1>4 DEF Started
<1>6. /\ \A i \in Ids \ {rid[c]} : pendingRequests'[i] = pendingRequests[i]
      /\ pendingRequests'[rid[c]] = IF pendingRequests[rid[c]] = None THEN c
                                    ELSE pendingRequests[rid[c]]
  BY <1>1, <1>4
<1>7. ASSUME NEW d \in Calls \ {c} PROVE LeftAlone(d)
  <2>1. Own(d)' => Own(d)
    BY <1>1, <1>5, OwnUnchanged
  <2>2. TableSpared(d)
    <3>1. \A i \in Ids : pendingRequests'[i] = d <=> pendingRequests[i] = d
      BY <1>6, NoneIsNoCall
    <3>2. rid[d] \in Ids
      BY <1>2 DEF TypeOK
    <3> QED
      BY <1>1, <3>1, <3>2 DEF TableSpared
  <2>3. CalleeQuiet(d) /\ runningRequests' = runningRequests /\ cancelRequested' = cancelRequested
    BY <1>1, <1>2, <1>4, CalleeUnchanged
  <2>4. Spared(d) /\ CallerQuiet(d)
    BY <1>1, <1>4, <2>1, <2>2, <2>3 DEF Spared, CallerQuiet
  <2> QED
    BY <1>1, <1>2, <2>3, <2>4, QueuesUnchanged DEF LeftAlone
<1>8. FreshCall(c) /\ SlotHolder(c)
  BY DEF IInv, CallInv
<1>9. CallInv(c)'
  BY <1>1, <1>4, <1>6, <1>8 DEF CallInv, FreshCall, SlotHolder, SlotKept, WaitingIsHeld, EndOf,
        InSubscribe, Started, Alive, Held
<1>10. CalleeQuiet(c)
  BY <1>1, <1>2, CalleeUnchanged
<1>11. NetworkInv(c)'
  BY <1>1, <1>2, <1>10, SparedNetwork, QueuesUnchanged DEF IInv
<1>12. ASSUME Own(c)' PROVE OwnInv(c)'
  <2>1. Own(c) /\ OwnInv(c)
    BY <1>1, <1>5, <1>12, OwnUnchanged DEF IInv
  <2>2. pendingRequests[rid[c]] \in {None, c}
    BY <1>2, <1>4, <2>1, HolderHasTheId DEF Own
  <2>3. OwnSlot(c)'
    BY <1>1, <1>4, <1>6, <2>1, <2>2 DEF OwnInv, OwnSlot, calleeVars
  <2>4. CallerQuiet(c)
    BY <1>1 DEF CallerQuiet
  <2>5. OwnData(c)' /\ OwnOrder(c)'
    BY <1>1, <1>2, <1>10, <2>1, <2>4, OwnDataKept, OwnOrderKept, QueuesUnchanged DEF OwnInv
  <2>6. OwnCancel(c)'
    BY <1>1, <1>2, <1>10, <2>1, OwnCancelKept, QueuesUnchanged DEF OwnInv, calleeVars
  <2>7. EventsOf(c)' /\ DataOf(c)'
    BY <1>1, <1>4, <1>8, <2>1 DEF OwnInv, EventsOf, DataOf, calleeVars, FreshCall
  <2> QED
    BY <2>3, <2>5, <2>6, <2>7 DEF OwnInv
<1> QED
  BY <1>2, <1>3, <1>7, <1>9, <1>11, <1>12 DEF Moves

(* A packet that c sends, the call itself or its cancellation. *)
LEMMA PacketSent ==
    ASSUME TypeOK, NEW c \in Calls, NEW e \in Packets, e.from = c, e.id = rid[c],
           toServer' = Append(toServer, e), CalleeQuiet(c), PacketsOf(c),
           pc'[c] \in {"sent", "subscribed"},
           e.kind = "call" => execution[c] = "none" /\ \A k \in FromClient : toServer[k].from # c
    PROVE  /\ PacketsOf(c)'
           /\ \A d \in Calls \ {c} : SamePackets(toServer, toServer', d)
           /\ \E k \in FromClient' : toServer'[k] = e
<1>1. /\ Len(toServer) \in Nat /\ Len(toServer') = Len(toServer) + 1
      /\ toServer'[Len(toServer) + 1] = e
      /\ \A j \in 1 .. Len(toServer) : toServer'[j] = toServer[j]
  BY QueueTypes, Appended
<1>2. \A d \in Calls \ {c} : SamePackets(toServer, toServer', d)
  BY QueueTypes, SameAfterAppend
<1>3. ASSUME NEW k \in FromClient'
      PROVE  \/ k \in FromClient /\ toServer'[k] = toServer[k]
             \/ k = Len(toServer) + 1 /\ toServer'[k] = e
  BY <1>1, <1>3 DEF FromClient
<1>4. /\ \A k \in FromClient : k < Len(toServer) + 1 /\ k # Len(toServer) + 1
      /\ Len(toServer) + 1 \in FromClient'
  BY <1>1 DEF FromClient
<1>9. \A k \in FromClient : toServer'[k] = toServer[k]
  BY <1>1 DEF FromClient
<1>5. rid'[c] = rid[c] /\ execution'[c] = execution[c]
  BY DEF CalleeQuiet
<1>6. e.kind \in {"call", "cancel"}
  BY DEF Packets
<1>7. ASSUME NEW k \in FromClient', toServer'[k].from = c
      PROVE  /\ toServer'[k].id = rid'[c]
             /\ pc'[c] \in {"sent", "subscribed"}
             /\ toServer'[k].kind = "call" => execution'[c] = "none"
  BY <1>3, <1>5, <1>7 DEF PacketsOf
<1>8. ASSUME NEW j \in FromClient', NEW k \in FromClient', j # k,
             toServer'[j].from = c, toServer'[k].from = c, toServer'[k].kind = "call"
      PROVE  toServer'[j].kind = "cancel" /\ k < j
  <2>1. CASE k \in FromClient /\ j \in FromClient
    <3>1. toServer'[j] = toServer[j] /\ toServer'[k] = toServer[k]
      BY <1>9, <2>1
    <3> QED
      BY <1>8, <2>1, <3>1 DEF PacketsOf
  <2>2. CASE k \in FromClient /\ j = Len(toServer) + 1
    <3>1. e.kind = "cancel" /\ k < j
      <4>1. toServer[k].from = c
        BY <1>8, <1>9, <2>2
      <4> QED
        BY <1>4, <1>6, <2>2, <4>1
    <3> QED
      BY <1>1, <2>2, <3>1
  <2>3. CASE k = Len(toServer) + 1 /\ j \in FromClient
    <3>1. toServer[j].from = c /\ e.kind = "call"
      BY <1>1, <1>8, <1>9, <2>3
    <3> QED
      BY <2>3, <3>1
  <2> QED
    BY <1>3, <1>8, <2>1, <2>2, <2>3
<1> QED
  BY <1>1, <1>2, <1>4, <1>7, <1>8 DEF PacketsOf

LEMMA CancelSent ==
    ASSUME IInv, NEW c \in Calls, CalleeQuiet(c), SendCancel(c), pc'[c] \in {"sent", "subscribed"}
    PROVE  /\ PacketsOf(c)'
           /\ \A d \in Calls \ {c} : SamePackets(toServer, toServer', d)
           /\ connected /\ c \notin hasCompleted =>
                 \E k \in FromClient' : toServer'[k].from = c /\ toServer'[k].kind = "cancel"
           /\ ~connected => toServer' = toServer
<1>1. TypeOK /\ PacketsOf(c)
  BY DEF IInv, NetworkInv
<1>2. CASE c \notin hasCompleted /\ connected
  <2>1. toServer' = Append(toServer, CancelMessage(c))
    BY <1>2 DEF SendCancel
  <2>2. PICK e \in Packets : /\ e = CancelMessage(c) /\ e.kind = "cancel"
                             /\ e.from = c /\ e.id = rid[c]
    BY <1>1, PacketTypes
  <2>3. /\ PacketsOf(c)' /\ (\A d \in Calls \ {c} : SamePackets(toServer, toServer', d))
        /\ \E k \in FromClient' : toServer'[k] = e
    BY <1>1, <2>1, <2>2, PacketSent
  <2> QED
    BY <1>2, <2>2, <2>3
<1>3. CASE ~(c \notin hasCompleted /\ connected)
  <2>1. toServer' = toServer
    BY <1>3 DEF SendCancel
  <2> QED
    BY <1>1, <1>3, <2>1, QueuesUnchanged, PacketsKept
<1> QED
  BY <1>2, <1>3

LEMMA SendCallMoves ==
    ASSUME IInv, NEW c \in Calls, SendCall(c)
    PROVE  Moves(c)
<1>1. /\ pc[c] = "emplaced" /\ connected /\ pc' = [pc EXCEPT ![c] = "sent"]
      /\ toServer' = Append(toServer, [kind |-> "call", id |-> rid[c], from |-> c])
      /\ UNCHANGED <<counter, pendingRequests, rid, hasCompleted, hasData, completing, observer,
                   received, cancelAll, toCancel, calleeVars, connected, toClient>>
  BY DEF SendCall
<1>2. TypeOK /\ TypeOK'
  BY SendTypes DEF IInv
<1>3. CancelAllComesLast'
  BY <1>1 DEF IInv, CancelAllComesLast
<1>4. pc'[c] = "sent" /\ (\A d \in Calls \ {c} : pc'[d] = pc[d])
  BY <1>1, <1>2 DEF TypeOK
<1>5. \A e \in Calls : Started(e)' <=> Started(e)
  BY <1>1, <1>4 DEF Started
<1>6. CalleeQuiet(c)
  BY <1>1, <1>2, <1>4, CalleeUnchanged
<1>7. /\ execution[c] = "none" /\ values[c] = 0
      /\ \A i \in Ids : runningRequests[i] # c
      /\ \A k \in FromClient : toServer[k].from # c
  BY <1>1, FreshIsQuiet
<1>8. PacketsOf(c)' /\ (\A d \in Calls \ {c} : SamePackets(toServer, toServer', d))
  <2>1. PacketsOf(c)
    BY DEF IInv, NetworkInv
  <2>2. PICK e \in Packets : /\ e = [kind |-> "call", id |-> rid[c], from |-> c]
                             /\ e.from = c /\ e.id = rid[c]
    BY <1>2, PacketTypes
  <2> QED
    BY <1>1, <1>2, <1>4, <1>6, <1>7, <2>1, <2>2, PacketSent
<1>9. ASSUME NEW d \in Calls \ {c} PROVE LeftAlone(d)
  <2>1. Own(d)' => Own(d)
    BY <1>1, <1>5, OwnUnchanged
  <2>2. TableSpared(d)
    BY <1>1, NothingErased
  <2>3. CalleeQuiet(d) /\ runningRequests' = runningRequests /\ cancelRequested' = cancelRequested
    BY <1>1, <1>2, <1>4, CalleeUnchanged
  <2>4. Spared(d) /\ CallerQuiet(d)
    BY <1>1, <1>4, <2>1, <2>2, <2>3 DEF Spared, CallerQuiet
  <2> QED
    BY <1>1, <1>2, <1>8, <2>3, <2>4, QueuesUnchanged DEF LeftAlone
<1>10. CallInv(c)
  BY DEF IInv
<1>11. CallInv(c)'
  BY <1>1, <1>4, <1>10 DEF CallInv, FreshCall, SlotHolder, SlotKept, WaitingIsHeld, EndOf,
        InSubscribe, Started, Alive, Held
<1>12. NetworkInv(c)'
  BY <1>1, <1>2, <1>6, <1>8, ExecutionKept, RepliesKept, QueuesUnchanged DEF IInv, NetworkInv
<1>13. ASSUME Own(c)' PROVE OwnInv(c)'
  <2>1. Own(c) /\ OwnInv(c)
    BY <1>1, <1>5, <1>13, OwnUnchanged DEF IInv
  <2>2. OwnSlot(c)'
    BY <1>1, <1>4, <2>1 DEF OwnInv, OwnSlot, calleeVars
  <2>3. CallerQuiet(c)
    BY <1>1 DEF CallerQuiet
  <2>4. OwnData(c)' /\ OwnOrder(c)'
    BY <1>1, <1>2, <1>6, <2>1, <2>3, OwnDataKept, OwnOrderKept, QueuesUnchanged DEF OwnInv
  <2>5. OwnCancel(c)'
    BY <1>1, <1>7, <1>10 DEF OwnCancel, calleeVars, CallInv, EndOf
  <2>6. EventsOf(c)' /\ DataOf(c)'
    BY <1>1, <1>4, <2>1 DEF OwnInv, EventsOf, DataOf, calleeVars
  <2> QED
    BY <2>2, <2>4, <2>5, <2>6 DEF OwnInv
<1> QED
  BY <1>2, <1>3, <1>9, <1>11, <1>12, <1>13 DEF Moves

LEMMA SendCallFailsMoves ==
    ASSUME IInv, NEW c \in Calls, SendCallFails(c)
    PROVE  Moves(c)
<1>1. /\ pc[c] = "emplaced" /\ pc' = [pc EXCEPT ![c] = "failed"] /\ EndWith(c, "error")
      /\ UNCHANGED <<counter, rid, hasCompleted, hasData, completing, received,
                   cancelAll, toCancel, calleeVars, connected, toServer, toClient>>
  BY DEF SendCallFails
<1>2. TypeOK /\ TypeOK'
  BY SendTypes DEF IInv
<1>3. CancelAllComesLast'
  BY <1>1 DEF IInv, CancelAllComesLast
<1>4. pc'[c] = "failed" /\ (\A d \in Calls \ {c} : pc'[d] = pc[d])
  BY <1>1, <1>2 DEF TypeOK
<1>5. \A e \in Calls : Started(e)' <=> Started(e)
  BY <1>1, <1>4 DEF Started
<1>6. Ends(c, "error")
  BY <1>1, EndWithEnds DEF Started, Events
<1>7. /\ execution[c] = "none" /\ values[c] = 0
      /\ \A i \in Ids : runningRequests[i] # c
      /\ \A k \in FromClient : toServer[k].from # c
      /\ \A k \in FromServer : toClient[k].from # c
  BY <1>1, FreshIsQuiet
<1>8. ASSUME NEW d \in Calls \ {c} PROVE LeftAlone(d)
  <2>1. Own(d)' => Own(d)
    BY <1>1, <1>5, OwnUnchanged
  <2>2. TableSpared(d)
    BY <1>6 DEF Ends
  <2>3. CalleeQuiet(d) /\ runningRequests' = runningRequests /\ cancelRequested' = cancelRequested
    BY <1>1, <1>2, <1>4, CalleeUnchanged
  <2>4. Spared(d) /\ CallerQuiet(d)
    BY <1>1, <1>4, <2>1, <2>2, <2>3 DEF Spared, CallerQuiet, TableSpared
  <2> QED
    BY <1>1, <1>2, <2>3, <2>4, QueuesUnchanged DEF LeftAlone
<1>9. CallInv(c)
  BY DEF IInv
<1>10. /\ \A i \in Ids : pendingRequests'[i] = pendingRequests[i]
       /\ observer'[c] # "open" /\ (observer[c] = "open" => observer'[c] = "error")
       /\ (observer[c] # "open" => observer'[c] = observer[c]) /\ rid[c] \in Ids
  BY <1>1, <1>2, <1>6 DEF Ends, TypeOK
<1>11. CallInv(c)'
  BY <1>1, <1>4, <1>9, <1>10 DEF CallInv, FreshCall, SlotHolder, SlotKept, WaitingIsHeld, EndOf,
        InSubscribe, Started, Alive, Held
<1>12. NetworkInv(c)'
  BY <1>1, <1>4, <1>7 DEF NetworkInv, ExecutionOf, PacketsOf, RepliesOf, FromClient, FromServer,
        calleeVars
<1>13. ASSUME Own(c)' PROVE OwnInv(c)'
  <2>1. Own(c) /\ OwnInv(c)
    BY <1>1, <1>5, <1>13, OwnUnchanged DEF IInv
  <2>2. OwnSlot(c)' /\ OwnData(c)' /\ OwnOrder(c)'
    BY <1>1, <1>4, <1>10, <2>1 DEF OwnInv, OwnSlot, OwnData, OwnOrder, calleeVars
  <2>3. OwnCancel(c)'
    BY <1>1, <1>7, <1>9, <1>10 DEF OwnCancel, calleeVars, CallInv, EndOf
  <2>4. EventsOf(c)' /\ DataOf(c)'
    BY <1>1, <1>4, <1>10, <2>1 DEF OwnInv, EventsOf, DataOf, calleeVars
  <2> QED
    BY <2>2, <2>3, <2>4 DEF OwnInv
<1> QED
  BY <1>2, <1>3, <1>8, <1>11, <1>12, <1>13 DEF Moves

(* What AddTeardown does to the table, to the observers and to the channel. *)
LEMMA AddTeardownEffect ==
    ASSUME IInv, NEW c \in Calls, AddTeardown(c)
    PROVE  /\ pc[c] = "sent" /\ pc'[c] = "subscribed" /\ \A d \in Calls \ {c} : pc'[d] = pc[d]
           /\ UNCHANGED <<counter, rid, hasCompleted, hasData, completing, received,
                   cancelAll, toCancel, calleeVars, connected, toClient>>
           /\ \A d \in Calls \ {c} : TableSpared(d) /\ SamePackets(toServer, toServer', d)
           /\ PacketsOf(c)' /\ (~connected => toServer' = toServer)
           /\ \/ /\ observer[c] = "open" /\ UNCHANGED <<observer, pendingRequests>>
                 /\ pendingRequests[rid[c]] = c \/ c \in toCancel \/ c \in hasCompleted
              \/ /\ observer[c] = "open" /\ observer'[c] = "cancelled" /\ UNCHANGED pendingRequests
                 /\ pendingRequests[rid[c]] # c /\ c \notin toCancel /\ c \notin hasCompleted
              \/ /\ observer[c] # "open" /\ observer'[c] = observer[c]
                 /\ pendingRequests'[rid[c]] = None
                 /\ \A i \in Ids \ {rid[c]} : pendingRequests'[i] = pendingRequests[i]
<1>1. /\ pc[c] = "sent" /\ pc' = [pc EXCEPT ![c] = "subscribed"]
      /\ UNCHANGED <<counter, rid, hasCompleted, hasData, completing, received,
                   cancelAll, toCancel, calleeVars, connected, toClient>>
  BY DEF AddTeardown
<1>2. TypeOK /\ observer \in [Calls -> Events] /\ PacketsOf(c)
  BY DEF IInv, TypeOK, NetworkInv
<1>3. pc'[c] = "subscribed" /\ \A d \in Calls \ {c} : pc'[d] = pc[d]
  BY <1>1, <1>2 DEF TypeOK
<1>4. CalleeQuiet(c)
  BY <1>1, <1>2, <1>3, CalleeUnchanged
<1>5. CASE observer[c] = "open"
  <2>1. /\ UNCHANGED <<pendingRequests, toServer>>
        /\ observer' = IF pendingRequests[rid[c]] = c \/ c \in toCancel \/ c \in hasCompleted
                       THEN observer ELSE [observer EXCEPT ![c] = "cancelled"]
    BY <1>5 DEF AddTeardown
  <2>2. \A d \in Calls \ {c} : observer'[d] = observer[d]
    BY <1>2, <2>1
  <2>3. PacketsOf(c)' /\ \A d \in Calls \ {c} : SamePackets(toServer, toServer', d)
    BY <1>2, <1>4, <2>1, QueuesUnchanged, PacketsKept
  <2>4. \A d \in Calls \ {c} : TableSpared(d)
    BY <2>1, <2>2, NothingErased
  <2>5. CASE pendingRequests[rid[c]] = c \/ c \in toCancel \/ c \in hasCompleted
    BY <1>1, <1>3, <1>5, <2>1, <2>3, <2>4, <2>5
  <2>6. CASE ~(pendingRequests[rid[c]] = c \/ c \in toCancel \/ c \in hasCompleted)
    <3>1. observer'[c] = "cancelled"
      BY <1>2, <2>1, <2>6
    <3> QED
      BY <1>1, <1>3, <1>5, <2>1, <2>3, <2>4, <2>6, <3>1
  <2> QED
    BY <2>5, <2>6
<1>6. CASE observer[c] # "open"
  <2>1. Erase(rid[c], observer) /\ SendCancel(c)
    BY <1>6 DEF AddTeardown
  <2>2. cancelAll = "no" => pendingRequests[rid[c]] \in {c, None}
    BY <1>1, <1>6, ErasesItsOwn
  <2>3. /\ \A d \in Calls \ {c} : TableSpared(d)
        /\ observer'[c] = observer[c] /\ pendingRequests'[rid[c]] = None
        /\ \A i \in Ids \ {rid[c]} : pendingRequests'[i] = pendingRequests[i]
    BY <1>1, <1>2, <1>6, <2>1, <2>2, EraseSpares DEF Started
  <2>4. /\ PacketsOf(c)'
        /\ \A d \in Calls \ {c} : SamePackets(toServer, toServer', d)
        /\ ~connected => toServer' = toServer
    BY <1>3, <1>4, <2>1, CancelSent
  <2> QED
    BY <1>1, <1>3, <1>6, <2>3, <2>4
<1> QED
  BY <1>5, <1>6

LEMMA AddTeardownMoves ==
    ASSUME IInv, NEW c \in Calls, AddTeardown(c)
    PROVE  Moves(c)
<1>1. /\ pc[c] = "sent" /\ pc'[c] = "subscribed" /\ \A d \in Calls \ {c} : pc'[d] = pc[d]
      /\ UNCHANGED <<counter, rid, hasCompleted, hasData, completing, received,
                   cancelAll, toCancel, calleeVars, connected, toClient>>
      /\ \A d \in Calls \ {c} : TableSpared(d) /\ SamePackets(toServer, toServer', d)
      /\ PacketsOf(c)' /\ (~connected => toServer' = toServer)
  BY AddTeardownEffect
<1>2. \/ /\ observer[c] = "open" /\ UNCHANGED <<observer, pendingRequests>>
         /\ pendingRequests[rid[c]] = c \/ c \in toCancel \/ c \in hasCompleted
      \/ /\ observer[c] = "open" /\ observer'[c] = "cancelled" /\ UNCHANGED pendingRequests
         /\ pendingRequests[rid[c]] # c /\ c \notin toCancel /\ c \notin hasCompleted
      \/ /\ observer[c] # "open" /\ observer'[c] = observer[c]
         /\ pendingRequests'[rid[c]] = None
         /\ \A i \in Ids \ {rid[c]} : pendingRequests'[i] = pendingRequests[i]
  BY AddTeardownEffect
<1>3. TypeOK /\ TypeOK'
  BY SendTypes DEF IInv
<1>4. CancelAllComesLast'
  BY <1>1 DEF IInv, CancelAllComesLast
<1>5. \A e \in Calls : Started(e)' <=> Started(e)
  BY <1>1 DEF Started
<1>6. ASSUME NEW d \in Calls \ {c} PROVE LeftAlone(d)
  <2>1. Own(d)' => Own(d)
    BY <1>1, <1>5, OwnUnchanged
  <2>2. TableSpared(d)
    BY <1>1
  <2>3. CalleeQuiet(d) /\ runningRequests' = runningRequests /\ cancelRequested' = cancelRequested
    BY <1>1, <1>3, CalleeUnchanged
  <2>4. Spared(d) /\ CallerQuiet(d)
    BY <1>1, <2>1, <2>2, <2>3 DEF Spared, CallerQuiet, TableSpared
  <2> QED
    BY <1>1, <1>3, <2>3, <2>4, QueuesUnchanged DEF LeftAlone
<1>7. CallInv(c) /\ rid[c] \in Ids /\ cancelAll \in {"no", "taken"}
  BY <1>3 DEF IInv, TypeOK
<1>8. CallInv(c)'
  <2>1. FreshCall(c)' /\ EndOf(c)' /\ SlotKept(c)'
    BY <1>1, <1>2, <1>7 DEF CallInv, FreshCall, EndOf, SlotKept, InSubscribe
  <2>2. SlotHolder(c)'
    BY <1>1, <1>2, <1>7, NoneIsNoCall DEF CallInv, SlotHolder
  <2>3. WaitingIsHeld(c)'
    BY <1>1, <1>2, <1>7 DEF CallInv, SlotKept, WaitingIsHeld, InSubscribe, Alive, Held
  <2> QED
    BY <2>1, <2>2, <2>3 DEF CallInv
<1>9. CalleeQuiet(c)
  BY <1>1, <1>3, CalleeUnchanged
<1>10. NetworkInv(c)'
  BY <1>1, <1>3, <1>9, ExecutionKept, RepliesKept, QueuesUnchanged DEF IInv, NetworkInv
<1>11. ASSUME Own(c)' PROVE OwnInv(c)'
  <2>1. Own(c) /\ OwnInv(c)
    BY <1>1, <1>5, <1>11, OwnUnchanged DEF IInv
  <2>2. observer'[c] = observer[c] /\ (observer[c] = "open" => UNCHANGED pendingRequests)
    BY <1>1, <1>2, <2>1 DEF OwnInv, OwnSlot
  <2>3. OwnSlot(c)'
    BY <1>1, <2>1, <2>2 DEF OwnInv, OwnSlot, calleeVars
  <2>4. CallerQuiet(c)
    BY <1>1, <2>2 DEF CallerQuiet
  <2>5. OwnData(c)' /\ OwnOrder(c)'
    BY <1>1, <1>3, <1>9, <2>1, <2>4, OwnDataKept, OwnOrderKept, QueuesUnchanged DEF OwnInv
  <2>6. OwnCancel(c)'
    BY <1>1, <1>7, <2>1, <2>2 DEF OwnInv, OwnCancel, calleeVars, CallInv, EndOf
  <2>7. EventsOf(c)' /\ DataOf(c)'
    BY <1>1, <2>1, <2>2 DEF OwnInv, EventsOf, DataOf, calleeVars
  <2> QED
    BY <2>3, <2>5, <2>6, <2>7 DEF OwnInv
<1> QED
  BY <1>1, <1>3, <1>4, <1>6, <1>8, <1>10, <1>11 DEF Moves

(* A call that waits, connected and with an id of its own, has its slot. *)
LEMMA OwnHoldsItsSlot ==
    ASSUME IInv, NEW c \in Calls, Own(c), connected, observer[c] = "open",
           pc[c] \in {"sent", "subscribed"}
    PROVE  pendingRequests[rid[c]] = c /\ cancelAll = "no" /\ toCancel = {}
<1>1. CallInv(c) /\ OwnSlot(c) /\ toCancel = {} /\ cancelAll = "no"
  BY DEF IInv, CancelAllComesLast, OwnInv, TypeOK
<1> QED
  BY <1>1 DEF CallInv, OwnSlot, SlotKept, WaitingIsHeld, InSubscribe, Started, Alive, Held

LEMMA DisposeEffect ==
    ASSUME IInv, NEW c \in Calls, Dispose(c)
    PROVE  /\ pc[c] = "subscribed" /\ observer[c] = "open" /\ observer'[c] = "disposed"
           /\ UNCHANGED <<counter, pc, rid, hasCompleted, hasData, completing, received,
                   cancelAll, toCancel, calleeVars, connected, toClient>>
           /\ \A d \in Calls \ {c} : TableSpared(d) /\ SamePackets(toServer, toServer', d)
           /\ PacketsOf(c)' /\ (~connected => toServer' = toServer)
           /\ \A i \in Ids : pendingRequests'[i] # c
           /\ connected /\ c \notin hasCompleted /\ Own(c) =>
                 \E k \in FromClient' : toServer'[k].from = c /\ toServer'[k].kind = "cancel"
<1> DEFINE obs == [observer EXCEPT ![c] = "disposed"]
<1>1. /\ pc[c] = "subscribed" /\ observer[c] = "open"
      /\ UNCHANGED <<counter, pc, rid, hasCompleted, hasData, completing, received,
                   cancelAll, toCancel, calleeVars, connected, toClient>>
      /\ IF Alive(c) THEN Erase(rid[c], obs) /\ SendCancel(c)
         ELSE observer' = obs /\ UNCHANGED <<pendingRequests, toServer>>
  BY DEF Dispose
<1>2. TypeOK /\ observer \in [Calls -> Events] /\ PacketsOf(c) /\ SlotHolder(c)
  BY DEF IInv, TypeOK, NetworkInv, CallInv
<1>3. CalleeQuiet(c)
  BY <1>1, <1>2, CalleeUnchanged
<1>4. obs \in [Calls -> Events] /\ obs[c] = "disposed" /\ \A d \in Calls \ {c} : obs[d] = observer[d]
  BY <1>2 DEF Events
<1> HIDE DEF obs
<1>5. CASE Alive(c)
  <2>1. cancelAll = "no" => pendingRequests[rid[c]] \in {c, None}
    BY <1>1, ErasesItsOwn
  <2>2. /\ \A d \in Calls \ {c} : TableSpared(d)
        /\ observer'[c] = obs[c] /\ pendingRequests'[rid[c]] = None
        /\ \A i \in Ids \ {rid[c]} : pendingRequests'[i] = pendingRequests[i]
    BY <1>1, <1>4, <1>5, <2>1, EraseSpares DEF Started
  <2>3. /\ PacketsOf(c)'
        /\ \A d \in Calls \ {c} : SamePackets(toServer, toServer', d)
        /\ connected /\ c \notin hasCompleted =>
                 \E k \in FromClient' : toServer'[k].from = c /\ toServer'[k].kind = "cancel"
        /\ ~connected => toServer' = toServer
    BY <1>1, <1>3, <1>5, CancelSent
  <2>4. \A i \in Ids : pendingRequests'[i] # c
    BY <1>2, <2>2, NoneIsNoCall DEF SlotHolder
  <2> QED
    BY <1>1, <1>4, <2>2, <2>3, <2>4
<1>6. CASE ~Alive(c)
  <2>1. observer' = obs /\ UNCHANGED <<pendingRequests, toServer>>
    BY <1>1, <1>6
  <2>2. \A d \in Calls \ {c} : TableSpared(d)
    BY <1>4, <2>1, NothingErased
  <2>3. PacketsOf(c)' /\ \A d \in Calls \ {c} : SamePackets(toServer, toServer', d)
    BY <1>2, <1>3, <2>1, QueuesUnchanged, PacketsKept
  <2>4. \A i \in Ids : pendingRequests'[i] # c
    BY <1>2, <1>6, <2>1 DEF SlotHolder, Alive
  <2>5. ~(connected /\ Own(c))
    BY <1>1, <1>6, OwnHoldsItsSlot DEF Alive
  <2> QED
    BY <1>1, <1>4, <2>1, <2>2, <2>3, <2>4, <2>5
<1> QED
  BY <1>5, <1>6

LEMMA DisposeMoves ==
    ASSUME IInv, NEW c \in Calls, Dispose(c)
    PROVE  Moves(c)
<1>1. /\ pc[c] = "subscribed" /\ observer[c] = "open" /\ observer'[c] = "disposed"
      /\ UNCHANGED <<counter, pc, rid, hasCompleted, hasData, completing, received,
                   cancelAll, toCancel, calleeVars, connected, toClient>>
      /\ \A d \in Calls \ {c} : TableSpared(d) /\ SamePackets(toServer, toServer', d)
      /\ PacketsOf(c)' /\ (~connected => toServer' = toServer)
      /\ \A i \in Ids : pendingRequests'[i] # c
  BY DisposeEffect
<1>2. connected /\ c \notin hasCompleted /\ Own(c) =>
        \E k \in FromClient' : toServer'[k].from = c /\ toServer'[k].kind = "cancel"
  BY DisposeEffect
<1>3. TypeOK /\ TypeOK'
  BY EndTypes DEF IInv
<1>4. CancelAllComesLast'
  BY <1>1 DEF IInv, CancelAllComesLast
<1>5. \A e \in Calls : Started(e)' <=> Started(e)
  BY <1>1 DEF Started
<1>6. ASSUME NEW d \in Calls \ {c} PROVE LeftAlone(d)
  <2>1. Own(d)' => Own(d)
    BY <1>1, <1>5, OwnUnchanged
  <2>2. TableSpared(d)
    BY <1>1
  <2>3. CalleeQuiet(d) /\ runningRequests' = runningRequests /\ cancelRequested' = cancelRequested
    BY <1>1, <1>3, CalleeUnchanged
  <2>4. Spared(d) /\ CallerQuiet(d)
    BY <1>1, <2>1, <2>2, <2>3 DEF Spared, CallerQuiet, TableSpared
  <2> QED
    BY <1>1, <1>3, <2>3, <2>4, QueuesUnchanged DEF LeftAlone
<1>7. CallInv(c)
  BY DEF IInv
<1>8. CallInv(c)'
  BY <1>1, <1>7 DEF CallInv, FreshCall, EndOf, SlotKept, InSubscribe, SlotHolder, WaitingIsHeld
<1>9. CalleeQuiet(c)
  BY <1>1, <1>3, CalleeUnchanged
<1>10. NetworkInv(c)'
  BY <1>1, <1>3, <1>9, ExecutionKept, RepliesKept, QueuesUnchanged DEF IInv, NetworkInv
<1>11. ASSUME Own(c)' PROVE OwnInv(c)'
  <2>1. Own(c) /\ OwnInv(c)
    BY <1>1, <1>5, <1>11, OwnUnchanged DEF IInv
  <2>2. OwnSlot(c)' /\ OwnData(c)' /\ OwnOrder(c)'
    BY <1>1, <2>1 DEF OwnInv, OwnSlot, OwnData, OwnOrder, calleeVars
  <2>3. OwnCancel(c)'
    <3>1. connected /\ execution[c] \in {"none", "running"} => c \notin hasCompleted
      BY <2>1 DEF OwnInv, OwnSlot
    <3> QED
      BY <1>1, <1>2, <2>1, <3>1 DEF OwnInv, OwnCancel, calleeVars
  <2>4. EventsOf(c)' /\ DataOf(c)'
    BY <1>1, <2>1 DEF OwnInv, EventsOf, DataOf, calleeVars
  <2> QED
    BY <2>2, <2>3, <2>4 DEF OwnInv
<1> QED
  BY <1>1, <1>3, <1>4, <1>6, <1>8, <1>10, <1>11 DEF Moves

LEMMA FinishCompletionMoves ==
    ASSUME IInv, NEW c \in Calls, FinishCompletion(c)
    PROVE  Moves(c)
<1>1. /\ c \in completing /\ c \in hasData /\ completing' = completing \ {c}
      /\ IF Alive(c) THEN EndWith(c, "completed") ELSE UNCHANGED <<observer, pendingRequests>>
      /\ UNCHANGED <<counter, pc, rid, hasCompleted, hasData, received, cancelAll, toCancel,
                   calleeVars, connected, toServer, toClient>>
  BY DEF FinishCompletion
<1>2. TypeOK /\ TypeOK'
  BY EndTypes DEF IInv
<1>3. CancelAllComesLast'
  BY <1>1 DEF IInv, CancelAllComesLast
<1>4. \A e \in Calls : Started(e)' <=> Started(e)
  BY <1>1 DEF Started
<1>5. CallInv(c) /\ rid[c] \in Ids
  BY <1>2 DEF IInv, TypeOK
<1>6. Started(c) /\ pc[c] # "reserved" /\ c \in hasCompleted
  BY <1>1, <1>5 DEF CallInv, FreshCall, Started, EndOf
<1>7. Alive(c) => Ends(c, "completed")
  BY <1>1, <1>6, EndWithEnds DEF Events
<1>8. \A d \in Calls \ {c} : TableSpared(d)
  BY <1>1, <1>7, NothingErased DEF Ends
<1>9. ASSUME NEW d \in Calls \ {c} PROVE LeftAlone(d)
  <2>1. Own(d)' => Own(d)
    BY <1>1, <1>4, OwnUnchanged
  <2>3. CalleeQuiet(d) /\ runningRequests' = runningRequests /\ cancelRequested' = cancelRequested
    BY <1>1, <1>2, CalleeUnchanged
  <2>4. Spared(d) /\ CallerQuiet(d)
    BY <1>1, <1>8, <2>1, <2>3 DEF Spared, CallerQuiet, TableSpared
  <2> QED
    BY <1>1, <1>2, <2>3, <2>4, QueuesUnchanged DEF LeftAlone
<1>10. /\ observer'[c] = IF Alive(c) /\ observer[c] = "open" THEN "completed" ELSE observer[c]
       /\ \A i \in Ids : pendingRequests'[i] =
              IF Alive(c) /\ observer[c] = "open" /\ pc[c] = "subscribed" /\ i = rid[c]
              THEN None ELSE pendingRequests[i]
  BY <1>1, <1>7 DEF Ends
<1>11. CallInv(c)'
  <2>1. FreshCall(c)' /\ EndOf(c)'
    BY <1>1, <1>5, <1>6, <1>10 DEF CallInv, FreshCall, EndOf, Started
  <2>2. SlotHolder(c)'
    BY <1>1, <1>5, <1>10, NoneIsNoCall DEF CallInv, SlotHolder, Alive
  <2>3. SlotKept(c)'
    BY <1>1, <1>5, <1>6, <1>10 DEF CallInv, SlotKept, InSubscribe
  <2>4. WaitingIsHeld(c)'
    BY <1>1, <1>5, <1>10 DEF CallInv, WaitingIsHeld, Started, Alive
  <2> QED
    BY <2>1, <2>2, <2>3, <2>4 DEF CallInv
<1>12. CalleeQuiet(c)
  BY <1>1, <1>2, CalleeUnchanged
<1>13. NetworkInv(c)'
  BY <1>1, <1>2, <1>12, SparedNetwork, QueuesUnchanged DEF IInv
<1>14. ASSUME Own(c)' PROVE OwnInv(c)'
  <2>1. Own(c) /\ OwnInv(c)
    BY <1>1, <1>4, <1>14, OwnUnchanged DEF IInv
  <2>2. OwnSlot(c)'
    BY <1>1, <1>6, <2>1 DEF OwnInv, OwnSlot, calleeVars
  <2>3. CallerQuiet(c)
    BY <1>1, <1>10 DEF CallerQuiet
  <2>4. OwnData(c)' /\ OwnOrder(c)'
    BY <1>1, <1>2, <1>12, <2>1, <2>3, OwnDataKept, OwnOrderKept, QueuesUnchanged DEF OwnInv
  <2>5. OwnCancel(c)'
    <3>1. observer'[c] = "disposed" => observer[c] = "disposed"
      BY <1>10
    <3> QED
      BY <1>1, <1>2, <1>12, <2>1, <3>1, OwnCancelKept, QueuesUnchanged DEF OwnInv, calleeVars
  <2>6. execution[c] = "completed"
    BY <1>1, <2>1 DEF OwnInv, OwnSlot
  <2>7. EventsOf(c)'
    BY <1>1, <1>10, <2>1, <2>6 DEF OwnInv, EventsOf, calleeVars
  <2>8. ASSUME observer[c] = "open"
        PROVE  /\ values[c] > 0 => received[c] # << >>
               /\ c \in ordered => Len(received[c]) = values[c]
    <3>1. values[c] \in 0 .. MaxValues
      BY <1>2 DEF TypeOK
    <3> QED
      BY <1>1, <2>1, <2>8, <3>1, RpcBounds DEF OwnInv, OwnData, OwnOrder
  <2>9. DataOf(c)'
    BY <1>1, <1>10, <2>1, <2>8 DEF OwnInv, DataOf, calleeVars
  <2> QED
    BY <2>2, <2>4, <2>5, <2>7, <2>9 DEF OwnInv
<1> QED
  BY <1>2, <1>3, <1>9, <1>11, <1>13, <1>14 DEF Moves

LEMMA CancelAllNotifyMoves ==
    ASSUME IInv, NEW c \in Calls, CancelAllNotify(c)
    PROVE  Moves(c)
<1>1. /\ c \in toCancel /\ toCancel' = toCancel \ {c}
      /\ IF c \in hasCompleted THEN UNCHANGED <<hasCompleted, observer, pendingRequests>>
         ELSE hasCompleted' = hasCompleted \cup {c} /\ EndWith(c, "error")
      /\ UNCHANGED <<counter, pc, rid, hasData, completing, received, cancelAll,
                   calleeVars, connected, toServer, toClient>>
  BY DEF CancelAllNotify
<1>2. TypeOK /\ TypeOK'
  BY EndTypes DEF IInv
<1>3. cancelAll = "taken" /\ ~connected /\ CancelAllComesLast'
  BY <1>1 DEF IInv, CancelAllComesLast
<1>4. \A e \in Calls : Started(e)' <=> Started(e)
  BY <1>1 DEF Started
<1>5. CallInv(c) /\ rid[c] \in Ids
  BY <1>2 DEF IInv, TypeOK
<1>6. Started(c) /\ pc[c] # "reserved"
  BY <1>1, <1>5 DEF CallInv, FreshCall, Started
<1>7. c \notin hasCompleted => Ends(c, "error")
  BY <1>1, <1>6, EndWithEnds DEF Events
<1>8. \A d \in Calls \ {c} : TableSpared(d)
  BY <1>1, <1>7, NothingErased DEF Ends
<1>9. hasCompleted' = hasCompleted \cup {c}
  BY <1>1
<1>10. ASSUME NEW d \in Calls \ {c} PROVE LeftAlone(d)
  <2>1. Own(d)' => Own(d)
    BY <1>1, <1>4, OwnUnchanged
  <2>3. CalleeQuiet(d) /\ runningRequests' = runningRequests /\ cancelRequested' = cancelRequested
    BY <1>1, <1>2, CalleeUnchanged
  <2>4. Spared(d) /\ CallerQuiet(d)
    BY <1>1, <1>8, <1>9, <2>1, <2>3 DEF Spared, CallerQuiet, TableSpared
  <2> QED
    BY <1>1, <1>2, <2>3, <2>4, QueuesUnchanged DEF LeftAlone
<1>11. /\ observer'[c] = IF c \notin hasCompleted /\ observer[c] = "open" THEN "error"
                         ELSE observer[c]
       /\ \A i \in Ids : pendingRequests'[i] =
              IF c \notin hasCompleted /\ observer[c] = "open" /\ pc[c] = "subscribed" /\ i = rid[c]
              THEN None ELSE pendingRequests[i]
  BY <1>1, <1>7 DEF Ends
<1>12. CallInv(c)'
  <2>1. FreshCall(c)' /\ EndOf(c)'
    BY <1>1, <1>5, <1>6, <1>9, <1>11 DEF CallInv, FreshCall, EndOf, Started
  <2>2. SlotHolder(c)'
    BY <1>1, <1>5, <1>11, NoneIsNoCall DEF CallInv, SlotHolder
  <2>3. SlotKept(c)' /\ WaitingIsHeld(c)'
    BY <1>1, <1>3, <1>9 DEF SlotKept, WaitingIsHeld
  <2> QED
    BY <2>1, <2>2, <2>3 DEF CallInv
<1>13. CalleeQuiet(c)
  BY <1>1, <1>2, CalleeUnchanged
<1>14. NetworkInv(c)'
  BY <1>1, <1>2, <1>13, SparedNetwork, QueuesUnchanged DEF IInv
<1>15. ASSUME Own(c)' PROVE OwnInv(c)'
  <2>1. Own(c) /\ OwnInv(c)
    BY <1>1, <1>4, <1>15, OwnUnchanged DEF IInv
  <2>2. OwnSlot(c)' /\ OwnCancel(c)'
    BY <1>1, <1>3, <1>9, <2>1 DEF OwnInv, OwnSlot, OwnCancel, calleeVars
  <2>3. CallerQuiet(c)
    BY <1>1, <1>11 DEF CallerQuiet
  <2>4. OwnData(c)' /\ OwnOrder(c)'
    BY <1>1, <1>2, <1>13, <2>1, <2>3, OwnDataKept, OwnOrderKept, QueuesUnchanged DEF OwnInv
  <2>5. EventsOf(c)' /\ DataOf(c)'
    BY <1>1, <1>3, <1>11, <2>1 DEF OwnInv, EventsOf, DataOf, calleeVars
  <2> QED
    BY <2>2, <2>4, <2>5 DEF OwnInv
<1> QED
  BY <1>2, <1>3, <1>10, <1>12, <1>14, <1>15 DEF Moves
-----------------------------------------------------------------------------
(* The callee. *)

LEMMA ReplySent ==
    ASSUME TypeOK, NEW e \in Replies, toClient' = Append(toClient, e)
    PROVE  /\ \A d : d # e.from => SamePackets(toClient, toClient', d)
           /\ FromServer' = FromServer \cup {Len(toClient) + 1}
           /\ toClient'[Len(toClient) + 1] = e
           /\ \A k \in FromServer : toClient'[k] = toClient[k] /\ k < Len(toClient) + 1
           /\ \A k \in FromServer : k \in Int /\ k # Len(toClient) + 1 /\ ~(Len(toClient) + 1 < k)
           /\ ~(Len(toClient) + 1 < Len(toClient) + 1)
<1>1. /\ Len(toClient) \in Nat /\ Len(toClient') = Len(toClient) + 1
      /\ toClient'[Len(toClient) + 1] = e
      /\ \A j \in 1 .. Len(toClient) : toClient'[j] = toClient[j]
  BY QueueTypes, Appended
<1>2. \A d : d # e.from => SamePackets(toClient, toClient', d)
  BY QueueTypes, SameAfterAppend
<1>3. FromServer' = FromServer \cup {Len(toClient) + 1}
  BY <1>1 DEF FromServer
<1>4. \A k \in FromServer : k < Len(toClient) + 1 /\ k \in Int /\ k # Len(toClient) + 1
                              /\ ~(Len(toClient) + 1 < k)
  BY <1>1 DEF FromServer
<1> QED
  BY <1>1, <1>2, <1>3, <1>4 DEF FromServer

(* While a procedure runs it has only sent values, and its call is no longer *)
(* in the channel. *)
LEMMA RunningSendsValues ==
    ASSUME IInv, NEW c \in Calls, execution[c] = "running"
    PROVE  /\ \A k \in FromServer : toClient[k].from = c => toClient[k].kind = "next"
           /\ \A k \in FromClient : toServer[k].from = c => toServer[k].kind # "call"
           /\ pc[c] \in {"sent", "subscribed"}
           /\ Own(c) => /\ c \notin completing /\ observer[c] # "completed"
                        /\ observer[c] = "error" => ~connected
                        /\ c \in hasData /\ observer[c] = "open" => received[c] # << >>
                        /\ c \in hasCompleted => ~connected
<1>1. TypeOK /\ NetworkInv(c) /\ (Own(c) => OwnInv(c))
  BY DEF IInv
<1>2. \A k \in FromServer : toClient[k] \in Replies
  BY <1>1, QueueTypes DEF FromServer
<1>3. \A k \in FromServer : toClient[k].kind \in {"next", "error", "complete"}
  BY <1>2 DEF Replies
<1>4. \A k \in FromServer : toClient[k].from = c => toClient[k].kind = "next"
  BY <1>1, <1>3 DEF NetworkInv, RepliesOf
<1>5. /\ \A k \in FromClient : toServer[k].from = c => toServer[k].kind # "call"
      /\ pc[c] \in {"sent", "subscribed"}
  BY <1>1 DEF NetworkInv, PacketsOf, ExecutionOf
<1>6. Own(c) => /\ c \notin completing /\ observer[c] # "completed"
                /\ observer[c] = "error" => ~connected
                /\ c \in hasData /\ observer[c] = "open" => received[c] # << >>
                /\ c \in hasCompleted => ~connected
  BY <1>1, <1>5 DEF OwnInv, OwnSlot, EventsOf, OwnData
<1> QED
  BY <1>4, <1>5, <1>6

(* The callee's step for one call leaves the caller and the others alone. *)
LEMMA CalleeSpares ==
    ASSUME IInv, NEW c \in Calls, NEW d \in Calls \ {c},
           UNCHANGED <<callerVars, cancelRequested, ordered, connected, toServer>>,
           execution'[d] = execution[d], values'[d] = values[d],
           SamePackets(toClient, toClient', d),
           \A i \in Ids : runningRequests'[i] = d => runningRequests[i] = d,
           Own(d) /\ runningRequests[rid[d]] = d => runningRequests'[rid[d]] = d
    PROVE  LeftAlone(d)
<1>1. TypeOK
  BY DEF IInv
<1>2. Own(d)' => Own(d)
  BY OwnUnchanged DEF callerVars, Started
<1>3. TableSpared(d)
  BY NothingErased DEF callerVars
<1>4. CalleeQuiet(d) /\ CallerQuiet(d)
  BY DEF CalleeQuiet, CallerQuiet, callerVars
<1>5. Spared(d)
  BY <1>2, <1>3 DEF Spared, callerVars
<1> QED
  BY <1>1, <1>4, <1>5, QueuesUnchanged DEF LeftAlone

LEMMA CallerUnchanged ==
    ASSUME IInv, NEW c \in Calls, UNCHANGED callerVars
    PROVE  CallInv(c)' /\ (Own(c)' <=> Own(c))
<1>1. CallInv(c)
  BY DEF IInv
<1>2. CallInv(c)'
  BY <1>1 DEF callerVars, CallInv, FreshCall, SlotHolder, SlotKept, WaitingIsHeld, EndOf, Started,
       InSubscribe, Alive, Held
<1>3. Own(c)' <=> Own(c)
  BY OwnUnchanged DEF callerVars, Started
<1> QED
  BY <1>2, <1>3

LEMMA SendValueMoves ==
    ASSUME IInv, NEW c \in Calls, SendValue(c)
    PROVE  Moves(c)
<1>1. /\ execution[c] = "running" /\ values[c] < MaxValues /\ connected
      /\ values' = [values EXCEPT ![c] = @ + 1]
      /\ toClient' = Append(toClient, [kind |-> "next", id |-> rid[c], from |-> c, n |-> values[c] + 1])
      /\ UNCHANGED <<callerVars, runningRequests, execution, cancelRequested, ordered,
                   connected, toServer>>
  BY DEF SendValue, Reply
<1>2. TypeOK /\ TypeOK'
  BY ExecuteTypes DEF IInv, Execute
<1>3. values[c] \in Nat /\ values'[c] = values[c] + 1 /\ rid[c] \in Ids /\ MaxValues \in Nat
      /\ Len(received[c]) \in Nat /\ \A d \in Calls \ {c} : values'[d] = values[d]
  BY <1>1, <1>2, RpcBounds DEF TypeOK
<1>4. CancelAllComesLast'
  BY <1>1 DEF IInv, CancelAllComesLast, callerVars
<1>5. PICK e \in Replies : /\ e = [kind |-> "next", id |-> rid[c], from |-> c, n |-> values[c] + 1]
                           /\ e.kind = "next" /\ e.id = rid[c] /\ e.from = c /\ e.n = values[c] + 1
  BY <1>1, <1>3 DEF Replies
<1>6. /\ \A d : d # c => SamePackets(toClient, toClient', d)
      /\ FromServer' = FromServer \cup {Len(toClient) + 1}
      /\ toClient'[Len(toClient) + 1] = e
      /\ \A k \in FromServer : toClient'[k] = toClient[k] /\ k < Len(toClient) + 1
      /\ \A k \in FromServer : k \in Int /\ k # Len(toClient) + 1 /\ ~(Len(toClient) + 1 < k)
      /\ ~(Len(toClient) + 1 < Len(toClient) + 1)
  BY <1>1, <1>2, <1>5, ReplySent
<1>7. \A d \in Calls \ {c} : LeftAlone(d)
  BY <1>1, <1>3, <1>6, CalleeSpares
<1>8. CallInv(c)' /\ (Own(c)' <=> Own(c))
  BY <1>1, CallerUnchanged
<1>9. /\ \A k \in FromServer : toClient[k].from = c => toClient[k].kind = "next"
      /\ pc[c] \in {"sent", "subscribed"}
      /\ Own(c) => /\ c \notin completing /\ observer[c] # "completed"
                   /\ c \in hasData /\ observer[c] = "open" => received[c] # << >>
  BY <1>1, RunningSendsValues
<1>10. ExecutionOf(c) /\ PacketsOf(c) /\ RepliesOf(c)
  BY DEF IInv, NetworkInv
<1>11. ExecutionOf(c)' /\ PacketsOf(c)'
  BY <1>1, <1>10 DEF ExecutionOf, PacketsOf, FromClient, callerVars
<1>12. RepliesOf(c)'
  <2>1. \A k \in FromServer : toClient[k].from = c => toClient[k].n \in 1 .. values[c]
    BY <1>9, <1>10 DEF RepliesOf
  <2>2. ASSUME NEW k \in FromServer', toClient'[k].from = c
        PROVE  /\ toClient'[k].id = rid'[c] /\ execution'[c] # "none"
               /\ toClient'[k].kind = "next" /\ toClient'[k].n \in 1 .. values'[c]
    <3>1. CASE k \in FromServer
      <4>1. toClient'[k] = toClient[k] /\ toClient[k].from = c
        BY <1>6, <2>2, <3>1
      <4>2. toClient[k].id = rid[c] /\ toClient[k].kind = "next" /\ execution[c] # "none"
        BY <1>1, <1>9, <1>10, <3>1, <4>1 DEF RepliesOf
      <4>3. toClient[k].n \in 1 .. values[c] + 1
        BY <1>3, <2>1, <3>1, <4>1
      <4> QED
        BY <1>1, <1>3, <4>1, <4>2, <4>3 DEF callerVars
    <3>2. CASE k = Len(toClient) + 1
      BY <1>1, <1>3, <1>5, <1>6, <3>2 DEF callerVars
    <3> QED
      BY <1>6, <3>1, <3>2
  <2>3. ASSUME NEW j \in FromServer', NEW k \in FromServer', j < k,
               toClient'[j].from = c, toClient'[k].from = c, c \in ordered'
        PROVE  toClient'[j].n < toClient'[k].n
    <3>1. CASE j \in FromServer /\ k \in FromServer
      BY <1>1, <1>6, <1>9, <1>10, <2>3, <3>1 DEF RepliesOf
    <3>2. CASE j \in FromServer /\ k = Len(toClient) + 1
      <4>1. toClient'[j].n \in 1 .. values[c] /\ toClient'[k].n = values[c] + 1
        BY <1>5, <1>6, <2>1, <2>3, <3>2
      <4> QED
        BY <1>3, <4>1
    <3>3. j \in FromServer
      BY <1>6, <2>3
    <3> QED
      BY <1>6, <3>1, <3>2, <3>3
  <2> QED
    BY <2>2, <2>3 DEF RepliesOf
<1>13. ASSUME Own(c)' PROVE OwnInv(c)'
  <2>1. Own(c) /\ OwnInv(c)
    BY <1>8, <1>13 DEF IInv
  <2>2. OwnSlot(c)' /\ OwnCancel(c)' /\ EventsOf(c)'
    BY <1>1, <2>1 DEF OwnInv, OwnSlot, OwnCancel, EventsOf, callerVars, FromClient
  <2>3. OwnData(c)' /\ DataOf(c)'
    BY <1>1, <1>9, <2>1 DEF OwnInv, OwnData, DataOf, callerVars
  <2>4. OwnOrder(c)'
    <3> SUFFICES ASSUME c \in ordered, observer[c] = "open"
                 PROVE  OwnOrder(c)'
      BY <1>1 DEF OwnOrder, callerVars
    <3>1. /\ \A k \in FromServer :
               toClient[k].from = c /\ toClient[k].kind = "next" => toClient[k].n > Len(received[c])
          /\ \A v \in Len(received[c]) + 1 .. values[c] :
               \E k \in FromServer :
                  toClient[k].from = c /\ toClient[k].kind = "next" /\ toClient[k].n = v
          /\ Len(received[c]) <= values[c]
      BY <1>1, <2>1 DEF OwnInv, OwnOrder
    <3>2. Len(received[c]) <= values[c] + 1 /\ values[c] + 1 > Len(received[c])
      BY <1>3, <3>1
    <3>3. ASSUME NEW k \in FromServer', toClient'[k].from = c, toClient'[k].kind = "next"
          PROVE  toClient'[k].n > Len(received[c])
      BY <1>5, <1>6, <3>1, <3>2, <3>3
    <3>4. ASSUME NEW v \in Len(received[c]) + 1 .. values[c] + 1
          PROVE  \E k \in FromServer' :
                  toClient'[k].from = c /\ toClient'[k].kind = "next" /\ toClient'[k].n = v
      <4>1. CASE v = values[c] + 1
        BY <1>5, <1>6, <4>1
      <4>2. CASE v # values[c] + 1
        <5>1. v \in Len(received[c]) + 1 .. values[c]
          BY <1>3, <3>4, <4>2
        <5>2. PICK k \in FromServer :
                  toClient[k].from = c /\ toClient[k].kind = "next" /\ toClient[k].n = v
          BY <3>1, <5>1
        <5> QED
          BY <1>6, <5>2
      <4> QED
        BY <4>1, <4>2
    <3> QED
      BY <1>1, <1>3, <1>9, <2>1, <3>2, <3>3, <3>4 DEF OwnOrder, callerVars
  <2> QED
    BY <2>2, <2>3, <2>4 DEF OwnInv
<1> QED
  BY <1>2, <1>4, <1>7, <1>8, <1>11, <1>12, <1>13 DEF Moves, NetworkInv

(* The end of a procedure: a packet of its own follows the values, or none *)
(* is sent. *)
LEMMA EndOfProcedure ==
    ASSUME IInv, TypeOK', NEW c \in Calls, NEW how \in {"completed", "failed"},
           execution[c] = "running", execution' = [execution EXCEPT ![c] = how],
           \/ UNCHANGED toClient
           \/ /\ connected
              /\ \E e \in Replies :
                   /\ toClient' = Append(toClient, e) /\ e.from = c /\ e.id = rid[c]
                   /\ \/ e.kind = "error" /\ how = "failed"
                      \/ /\ e.kind = "complete" /\ how = "completed"
                         /\ e.n = 0 => values[c] = 0,
           \/ UNCHANGED runningRequests
           \/ runningRequests' = [runningRequests EXCEPT ![rid[c]] = None],
           UNCHANGED <<callerVars, values, cancelRequested, ordered, connected, toServer>>
    PROVE  Moves(c)
<1>1. TypeOK /\ rid[c] \in Ids /\ runningRequests \in [Ids -> Calls \cup {None}]
  BY DEF IInv, TypeOK
<1>2. execution'[c] = how /\ (\A d \in Calls \ {c} : execution'[d] = execution[d])
  BY DEF IInv, TypeOK
<1>3. \A i \in Ids : runningRequests'[i] = runningRequests[i]
                      \/ (i = rid[c] /\ runningRequests'[i] = None)
  BY <1>1
<1>4. connected' = connected /\ rid' = rid /\ pc' = pc /\ values' = values /\ ordered' = ordered
      /\ received' = received /\ observer' = observer /\ completing' = completing
      /\ hasData' = hasData /\ hasCompleted' = hasCompleted /\ pendingRequests' = pendingRequests
      /\ toCancel' = toCancel /\ cancelAll' = cancelAll
  BY DEF callerVars
<1>5. CancelAllComesLast'
  <2>1. ~connected => toClient' = toClient
    OBVIOUS
  <2> QED
    BY <1>4, <2>1 DEF IInv, CancelAllComesLast
<1>6. \A d \in Calls \ {c} : SamePackets(toClient, toClient', d)
  BY <1>1, QueuesUnchanged, ReplySent
<1>7. ASSUME NEW d \in Calls \ {c} PROVE LeftAlone(d)
  <2>1. \A i \in Ids : runningRequests'[i] = d => runningRequests[i] = d
    BY <1>3, NoneIsNoCall
  <2>2. ASSUME Own(d), runningRequests[rid[d]] = d PROVE runningRequests'[rid[d]] = d
    <3>1. Started(c)
      BY RunningSendsValues DEF Started
    <3>2. rid[d] \in Ids /\ rid[d] # rid[c]
      BY <1>1, <2>2, <3>1 DEF Own, OwnId, TypeOK
    <3> QED
      BY <1>3, <2>2, <3>2
  <2> QED
    BY <1>2, <1>4, <1>6, <2>1, <2>2, CalleeSpares
<1>8. CallInv(c)' /\ (Own(c)' <=> Own(c))
  BY CallerUnchanged
<1>9. /\ \A k \in FromServer : toClient[k].from = c => toClient[k].kind = "next"
      /\ \A k \in FromClient : toServer[k].from = c => toServer[k].kind # "call"
      /\ pc[c] \in {"sent", "subscribed"}
      /\ Own(c) => /\ c \notin completing /\ observer[c] # "completed"
                   /\ observer[c] = "error" => ~connected
                   /\ c \in hasData /\ observer[c] = "open" => received[c] # << >>
  BY RunningSendsValues
<1>10. ExecutionOf(c) /\ PacketsOf(c) /\ RepliesOf(c)
  BY DEF IInv, NetworkInv
<1>11. ExecutionOf(c)'
  BY <1>2, <1>3, <1>4, <1>9, <1>10, NoneIsNoCall DEF ExecutionOf
<1>12. PacketsOf(c)'
  BY <1>4, <1>9, <1>10 DEF PacketsOf, FromClient
<1>13. /\ \A k \in FromServer' :
            toClient'[k].from = c =>
                /\ toClient'[k].id = rid[c]
                /\ \/ k \in FromServer /\ toClient'[k] = toClient[k] /\ toClient[k].kind = "next"
                   \/ /\ toClient'[k].kind = "error" /\ how = "failed"
                      /\ \A j \in FromServer' : ~(k < j)
                   \/ /\ toClient'[k].kind = "complete" /\ how = "completed"
                      /\ toClient'[k].n = 0 => values[c] = 0
                      /\ \A j \in FromServer' : ~(k < j)
       /\ \A k \in FromServer : k \in FromServer' /\ toClient'[k] = toClient[k]
  <2>1. CASE UNCHANGED toClient
    BY <1>9, <1>10, <2>1 DEF RepliesOf, FromServer
  <2>2. ASSUME NEW e \in Replies, toClient' = Append(toClient, e), e.from = c, e.id = rid[c],
               \/ e.kind = "error" /\ how = "failed"
               \/ e.kind = "complete" /\ how = "completed" /\ (e.n = 0 => values[c] = 0)
        PROVE  <1>13!:
    <3>1. /\ FromServer' = FromServer \cup {Len(toClient) + 1}
          /\ toClient'[Len(toClient) + 1] = e
          /\ \A k \in FromServer : toClient'[k] = toClient[k] /\ k < Len(toClient) + 1
          /\ \A k \in FromServer : k \in Int /\ k # Len(toClient) + 1 /\ ~(Len(toClient) + 1 < k)
          /\ ~(Len(toClient) + 1 < Len(toClient) + 1)
      BY <1>1, <2>2, ReplySent
    <3>2. \A j \in FromServer' : ~(Len(toClient) + 1 < j)
      BY <3>1
    <3>3. ASSUME NEW k \in FromServer, toClient'[k].from = c
          PROVE  /\ toClient'[k].id = rid[c] /\ toClient'[k] = toClient[k]
                 /\ toClient[k].kind = "next"
      BY <1>9, <1>10, <3>1, <3>3 DEF RepliesOf
    <3> QED
      BY <2>2, <3>1, <3>2, <3>3
  <2> QED
    BY <2>1, <2>2
<1>14. RepliesOf(c)'
  <2>1. ASSUME NEW k \in FromServer', toClient'[k].from = c
        PROVE  /\ toClient'[k].id = rid'[c] /\ execution'[c] # "none"
               /\ toClient'[k].kind = "next" => toClient'[k].n \in 1 .. values'[c]
               /\ toClient'[k].kind = "error" => execution'[c] = "failed"
               /\ toClient'[k].kind = "complete" =>
                     execution'[c] = "completed" /\ (toClient'[k].n = 0 => values'[c] = 0)
    BY <1>2, <1>4, <1>10, <1>13, <2>1 DEF RepliesOf
  <2>2. ASSUME NEW j \in FromServer', NEW k \in FromServer', j < k,
               toClient'[j].from = c, toClient'[k].from = c, c \in ordered',
               toClient'[k].kind = "next"
        PROVE  toClient'[j].kind = "next" /\ toClient'[j].n < toClient'[k].n
    BY <1>4, <1>10, <1>13, <2>2 DEF RepliesOf
  <2> QED
    BY <2>1, <2>2 DEF RepliesOf
<1>15. ASSUME Own(c)' PROVE OwnInv(c)'
  <2>1. Own(c) /\ OwnInv(c)
    BY <1>8, <1>15 DEF IInv
  <2>2. OwnSlot(c)' /\ OwnCancel(c)'
    BY <1>2, <1>4, <1>9, <2>1 DEF OwnInv, OwnSlot, OwnCancel
  <2>3. EventsOf(c)' /\ OwnData(c)' /\ DataOf(c)'
    BY <1>2, <1>4, <1>9, <2>1 DEF OwnInv, EventsOf, OwnData, DataOf
  <2>4. OwnOrder(c)'
    BY <1>2, <1>4, <1>9, <1>13, <2>1 DEF OwnInv, OwnOrder
  <2> QED
    BY <2>2, <2>3, <2>4 DEF OwnInv
<1> QED
  BY <1>5, <1>7, <1>8, <1>11, <1>12, <1>14, <1>15 DEF Moves, NetworkInv

LEMMA HandlerEndsMoves ==
    ASSUME IInv, NEW c \in Calls, HandlerReturns(c) \/ HandlerThrows(c)
    PROVE  Moves(c)
<1>1. TypeOK /\ TypeOK' /\ values[c] \in 0 .. MaxValues /\ MaxValues \in Nat /\ rid[c] \in Ids
  BY ExecuteTypes, RpcBounds DEF IInv, Execute, TypeOK
<1>2. CASE HandlerReturns(c)
  <2>1. (IF values[c] > 0 THEN 1 ELSE 0) \in 0 .. MaxValues
    BY <1>1
  <2>2. PICK n \in 0 .. MaxValues : n = IF values[c] > 0 THEN 1 ELSE 0
    BY <2>1
  <2>3. n = 0 => values[c] = 0
    BY <1>1, <2>2
  <2>5. [kind |-> "complete", id |-> rid[c], from |-> c, n |-> n] \in Replies
    BY <1>1 DEF Replies
  <2>6. PICK e \in Replies :
            /\ e = [kind |-> "complete", id |-> rid[c], from |-> c, n |-> n]
            /\ e.kind = "complete" /\ e.id = rid[c] /\ e.from = c /\ e.n = n
    BY <2>5
  <2>4. /\ execution[c] = "running" /\ execution' = [execution EXCEPT ![c] = "completed"]
        /\ \/ UNCHANGED toClient
           \/ connected /\ toClient' = Append(toClient, e)
        /\ \/ UNCHANGED runningRequests
           \/ runningRequests' = [runningRequests EXCEPT ![rid[c]] = None]
        /\ UNCHANGED <<callerVars, values, cancelRequested, ordered, connected, toServer>>
    BY <1>2, <2>2, <2>6 DEF HandlerReturns, Reply
  <2> QED
    BY <1>1, <2>3, <2>4, <2>6, EndOfProcedure
<1>3. CASE HandlerThrows(c)
  <2>0. [kind |-> "error", id |-> rid[c], from |-> c, n |-> 0] \in Replies
    BY <1>1 DEF Replies
  <2>1. PICK e \in Replies :
            /\ e = [kind |-> "error", id |-> rid[c], from |-> c, n |-> 0]
            /\ e.kind = "error" /\ e.id = rid[c] /\ e.from = c
    BY <2>0
  <2>2. /\ execution[c] = "running" /\ execution' = [execution EXCEPT ![c] = "failed"]
        /\ \/ UNCHANGED toClient
           \/ connected /\ toClient' = Append(toClient, e)
        /\ UNCHANGED <<callerVars, runningRequests, values, cancelRequested, ordered,
                       connected, toServer>>
    BY <1>3, <2>1 DEF HandlerThrows, Reply
  <2> QED
    BY <1>1, <2>1, <2>2, EndOfProcedure
<1> QED
  BY <1>2, <1>3
-----------------------------------------------------------------------------
(* A packet of the callee is handled. *)

(* What is left in the channel after the packet at position k is handled. *)
LEMMA Removal ==
    ASSUME TypeOK, NEW k \in FromServer, toClient' = RemoveAt(toClient, k)
    PROVE  \E p \in [Int -> Int] :
             /\ \A i \in FromServer' : p[i] \in FromServer \ {k} /\ toClient'[i] = toClient[p[i]]
             /\ \A i, j \in FromServer' : i < j => p[i] < p[j]
             /\ \A i \in FromServer \ {k} : \E j \in FromServer' : p[j] = i
<1> DEFINE p == [i \in Int |-> IF i < k THEN i ELSE i + 1]
<1>1. /\ Len(toClient) \in Nat \ {0} /\ Len(toClient') = Len(toClient) - 1
      /\ \A j \in 1 .. Len(toClient) - 1 : j < k => toClient'[j] = toClient[j]
      /\ \A j \in 1 .. Len(toClient) - 1 : j >= k => toClient'[j] = toClient[j + 1]
  BY QueueTypes, RemovedAt DEF FromServer
<1>2. p \in [Int -> Int]
  BY DEF FromServer
<1>3. \A i \in FromServer' : p[i] \in FromServer \ {k} /\ toClient'[i] = toClient[p[i]]
  BY <1>1 DEF FromServer
<1>4. \A i, j \in FromServer' : i < j => p[i] < p[j]
  BY <1>1 DEF FromServer
<1>5. ASSUME NEW i \in FromServer \ {k} PROVE \E j \in FromServer' : p[j] = i
  <2>1. CASE i < k
    <3>1. i \in FromServer' /\ p[i] = i
      BY <1>1, <2>1 DEF FromServer
    <3> QED
      BY <3>1
  <2>2. CASE i > k
    <3>1. i - 1 \in FromServer' /\ p[i - 1] = i
      BY <1>1, <2>2 DEF FromServer
    <3> QED
      BY <3>1
  <2> QED
    BY <1>5, <2>1, <2>2 DEF FromServer
<1> QED
  BY <1>2, <1>3, <1>4, <1>5

LEMMA RepliesLost ==
    ASSUME TypeOK, NEW k \in FromServer, toClient' = RemoveAt(toClient, k),
           NEW d \in Calls, CalleeQuiet(d), RepliesOf(d)
    PROVE  RepliesOf(d)'
<1>1. PICK p \in [Int -> Int] :
             /\ \A i \in FromServer' : p[i] \in FromServer /\ toClient'[i] = toClient[p[i]]
             /\ \A i, j \in FromServer' : i < j => p[i] < p[j]
  BY Removal
<1>2. rid'[d] = rid[d] /\ execution'[d] = execution[d] /\ values'[d] = values[d] /\ ordered' = ordered
  BY DEF CalleeQuiet
<1> QED
  BY <1>1, <1>2 DEF RepliesOf

(* The packet is for the holder of the slot with its id; it is a packet of *)
(* the holder unless another call has the same id.                         *)
LEMMA Recipient ==
    ASSUME IInv, NEW k \in FromServer, NEW c \in Calls, pendingRequests[toClient[k].id] = c
    PROVE  /\ connected /\ cancelAll = "no" /\ toCancel = {}
           /\ rid[c] = toClient[k].id /\ Started(c) /\ pc[c] # "reserved"
           /\ Own(c) => toClient[k].from = c
<1>1. TypeOK /\ toClient \in Seq(Replies) /\ k \in 1 .. Len(toClient)
  BY QueueTypes DEF IInv, FromServer
<1>2. toClient[k] \in Replies /\ toClient # << >>
  BY <1>1
<1>3. toClient[k].id \in Ids /\ toClient[k].from \in Calls
  BY <1>2 DEF Replies
<1>4. connected /\ cancelAll = "no" /\ toCancel = {}
  BY <1>1, <1>2 DEF IInv, CancelAllComesLast, TypeOK
<1>5. /\ rid[c] = toClient[k].id /\ Started(c) /\ pc[c] # "reserved"
      /\ \A e \in Calls : Started(e) /\ rid[e] = toClient[k].id /\ e # c => ~Own(c)
  BY <1>3, HolderHasTheId
<1>6. ASSUME NEW e \in Calls, e = toClient[k].from
      PROVE  Started(e) /\ rid[e] = toClient[k].id
  BY <1>6 DEF IInv, NetworkInv, RepliesOf, ExecutionOf, Started
<1> QED
  BY <1>3, <1>4, <1>5, <1>6

(* A packet that finds nobody, or another call, is one of a call that does *)
(* not wait any more or has no id of its own.                              *)
LEMMA LostPackets ==
    ASSUME IInv, NEW k \in FromServer, NEW d \in Calls, toClient[k].from = d,
           pendingRequests[toClient[k].id] # d, Own(d)
    PROVE  observer[d] # "open"
<1>1. TypeOK /\ toClient \in Seq(Replies) /\ k \in 1 .. Len(toClient)
  BY QueueTypes DEF IInv, FromServer
<1>2. connected
  BY <1>1 DEF IInv, CancelAllComesLast
<1>3. rid[d] = toClient[k].id /\ pc[d] \in {"sent", "subscribed"}
  BY DEF IInv, NetworkInv, RepliesOf, ExecutionOf
<1> QED
  BY <1>2, <1>3, OwnHoldsItsSlot

(* Everybody but the recipient. *)
LEMMA DeliverSpares ==
    ASSUME IInv, TypeOK', NEW k \in FromServer, toClient' = RemoveAt(toClient, k),
           UNCHANGED <<counter, pc, rid, cancelAll, toCancel, calleeVars, connected, toServer>>,
           NEW d \in Calls, pendingRequests[toClient[k].id] # d, TableSpared(d),
           received'[d] = received[d], d \in hasData' <=> d \in hasData,
           d \in hasCompleted' <=> d \in hasCompleted, d \in completing' <=> d \in completing
    PROVE  CallInv(d)' /\ NetworkInv(d)' /\ (Own(d)' => OwnInv(d)')
<1>1. TypeOK /\ CallInv(d) /\ NetworkInv(d) /\ (Own(d) => OwnInv(d))
  BY DEF IInv
<1>2. CalleeQuiet(d) /\ runningRequests' = runningRequests /\ cancelRequested' = cancelRequested
  BY <1>1, CalleeUnchanged
<1>3. Own(d)' <=> Own(d)
  BY OwnUnchanged DEF Started
<1>4. Spared(d) /\ CallerQuiet(d)
  BY <1>2, <1>3 DEF Spared, CallerQuiet, TableSpared
<1>5. SamePackets(toServer, toServer', d)
  BY <1>1, QueuesUnchanged
<1>6. CallInv(d)'
  BY <1>1, <1>2, <1>4, SparedCall
<1>7. NetworkInv(d)'
  BY <1>1, <1>2, <1>5, ExecutionKept, PacketsKept, RepliesLost DEF NetworkInv
<1>8. ASSUME Own(d)' PROVE OwnInv(d)'
  <2>1. CASE toClient[k].from = d
    <3>1. observer'[d] # "open"
      BY <1>3, <1>8, <2>1, LostPackets DEF TableSpared
    <3> QED
      BY <1>1, <1>2, <1>4, <1>5, <1>8, <3>1, SparedOwn
  <2>2. CASE toClient[k].from # d
    <3>1. SamePackets(toClient, toClient', d)
      BY <1>1, <2>2, QueueTypes, SameAfterRemoval DEF FromServer
    <3> QED
      BY <1>1, <1>2, <1>4, <1>5, <1>8, <3>1, SparedOwn
  <2> QED
    BY <2>1, <2>2
<1> QED
  BY <1>6, <1>7, <1>8

(* The packets of the recipient that an ordered procedure sent come in the *)
(* order they were sent.                                                   *)
LEMMA InOrderOfSending ==
    ASSUME IInv, NEW k \in FromServer, NEW c \in Calls, toClient[k].from = c, c \in ordered,
           Deliverable(k), NEW i \in FromServer, toClient[i].from = c, i # k
    PROVE  /\ k < i
           /\ toClient[i].kind = "next" => toClient[k].kind = "next" /\ toClient[k].n < toClient[i].n
<1>1. RepliesOf(c) /\ Len(toClient) \in Nat
  BY QueueTypes DEF IInv, NetworkInv
<1>2. ~(i < k)
  <2>1. InOrder(toClient[k]) /\ InOrder(toClient[i])
    BY DEF InOrder
  <2> QED
    BY <1>1, <2>1 DEF Deliverable, FromServer
<1>3. k < i
  BY <1>1, <1>2 DEF FromServer
<1> QED
  BY <1>1, <1>3 DEF RepliesOf

LEMMA DeliverNextRecipient ==
    ASSUME IInv, TypeOK', NEW k \in FromServer, toClient' = RemoveAt(toClient, k), Deliverable(k),
           UNCHANGED <<counter, pc, rid, cancelAll, toCancel, calleeVars, connected, toServer>>,
           NEW c \in Calls, pendingRequests[toClient[k].id] = c, DeliverNext(toClient[k], c)
    PROVE  CallInv(c)' /\ NetworkInv(c)' /\ (Own(c)' => OwnInv(c)')
<1>1. /\ toClient[k].kind = "next" /\ hasData' = hasData \cup {c}
      /\ UNCHANGED <<pendingRequests, observer, hasCompleted, completing>>
  BY DEF DeliverNext
<1>2. TypeOK /\ CallInv(c) /\ NetworkInv(c) /\ (Own(c) => OwnInv(c))
  BY DEF IInv
<1>3. /\ connected /\ cancelAll = "no" /\ Started(c) /\ pc[c] # "reserved"
      /\ Own(c) => toClient[k].from = c
  BY Recipient
<1>4. CallInv(c)'
  BY <1>1, <1>2, <1>3 DEF CallInv, FreshCall, SlotHolder, SlotKept, WaitingIsHeld, EndOf, Started,
       InSubscribe, Alive, Held
<1>5. CalleeQuiet(c)
  BY <1>2, CalleeUnchanged
<1>6. NetworkInv(c)'
  BY <1>2, <1>5, ExecutionKept, PacketsKept, RepliesLost, QueuesUnchanged DEF NetworkInv
<1>7. ASSUME Own(c)' PROVE OwnInv(c)'
  <2>1. Own(c) /\ OwnInv(c) /\ toClient[k].from = c
    BY <1>2, <1>3, <1>7, OwnUnchanged DEF Started
  <2>2. OwnSlot(c)'
    BY <1>1, <2>1 DEF OwnInv, OwnSlot, calleeVars
  <2>3. OwnCancel(c)'
    BY <1>1, <2>1 DEF OwnInv, OwnCancel, calleeVars, FromClient
  <2>4. PICK r \in Seq([from : Calls, n : 1 .. MaxValues]) : r = received[c]
    BY <1>2 DEF TypeOK
  <2>5. CASE observer[c] # "open"
    <3>1. received'[c] = received[c]
      BY <1>2, <2>5 DEF DeliverNext, TypeOK
    <3>2. OwnData(c)' /\ OwnOrder(c)'
      BY <1>1, <2>5 DEF OwnData, OwnOrder
    <3>3. EventsOf(c)' /\ DataOf(c)'
      BY <1>1, <2>1, <3>1 DEF OwnInv, EventsOf, DataOf, calleeVars
    <3> QED
      BY <2>2, <2>3, <3>2, <3>3 DEF OwnInv
  <2>6. CASE observer[c] = "open"
    <3>1. toClient[k].n \in 1 .. values[c] /\ values[c] \in 0 .. MaxValues /\ MaxValues \in Nat
      BY <1>1, <1>2, <2>1, RpcBounds DEF NetworkInv, RepliesOf, TypeOK
    <3>2. PICK e \in [from : Calls, n : 1 .. MaxValues] :
              e = [from |-> c, n |-> toClient[k].n] /\ e.from = c /\ e.n = toClient[k].n
      <4>1. [from |-> c, n |-> toClient[k].n] \in [from : Calls, n : 1 .. MaxValues]
        BY <3>1
      <4> QED
        BY <4>1
    <3>3. received'[c] = Append(r, e)
      BY <1>2, <2>1, <2>4, <2>6, <3>2 DEF DeliverNext, TypeOK
    <3>4. /\ Len(r) \in Nat /\ Len(received'[c]) = Len(r) + 1 /\ received'[c][Len(r) + 1] = e
          /\ (\A j \in 1 .. Len(r) : received'[c][j] = r[j])
          /\ received'[c] # << >>
      <4>1. /\ Len(r) \in Nat /\ Len(Append(r, e)) = Len(r) + 1 /\ Append(r, e)[Len(r) + 1] = e
            /\ \A j \in 1 .. Len(r) : Append(r, e)[j] = r[j]
        BY Appended
      <4>2. Append(r, e) # << >>
        OBVIOUS
      <4> QED
        BY <3>3, <4>1, <4>2
    <3>5. c \in ordered => e.n = Len(r) + 1
      <4> SUFFICES ASSUME c \in ordered PROVE e.n = Len(r) + 1
        OBVIOUS
      <4>1. e.n > Len(r)
        BY <1>1, <2>1, <2>4, <2>6, <3>2 DEF OwnInv, OwnOrder
      <4>2. ASSUME e.n # Len(r) + 1 PROVE FALSE
        <5>1. Len(r) + 1 \in Len(r) + 1 .. values[c] /\ Len(r) + 1 < e.n
          BY <3>1, <3>2, <3>4, <4>1, <4>2
        <5>2. PICK i \in FromServer :
                  toClient[i].from = c /\ toClient[i].kind = "next" /\ toClient[i].n = Len(r) + 1
          BY <1>3, <2>1, <2>4, <2>6, <5>1 DEF OwnInv, OwnOrder
        <5>3. i # k
          BY <3>2, <5>1, <5>2
        <5>4. toClient[k].n < toClient[i].n
          BY <2>1, <5>2, <5>3, InOrderOfSending
        <5> QED
          BY <3>1, <3>2, <3>4, <5>1, <5>2, <5>4
      <4> QED
        BY <4>2
    <3>6. OwnData(c)'
      BY <3>4 DEF OwnData
    <3>7. OwnOrder(c)'
      <4> SUFFICES ASSUME c \in ordered PROVE OwnOrder(c)'
        BY DEF OwnOrder, calleeVars
      <4>2. Len(received'[c]) = e.n /\ values'[c] = values[c] /\ e.n <= values[c] /\ e.n \in Int
            /\ e.n = Len(r) + 1 /\ connected /\ observer[c] = "open"
        BY <1>3, <2>6, <3>1, <3>2, <3>4, <3>5 DEF calleeVars
      <4>6. Len(r) \in Nat /\ values[c] \in Nat
        <5>1. values[c] \in 0 .. MaxValues /\ MaxValues \in Nat
          BY <3>1
        <5>2. values[c] \in Nat
          BY <5>1
        <5> QED
          BY <3>4, <5>2
      <4>7. \A v \in e.n + 1 .. values[c] : v \in Len(r) + 1 .. values[c] /\ v # e.n
        BY <4>2, <4>6
      <4>1. PICK p \in [Int -> Int] :
               /\ \A i \in FromServer' : p[i] \in FromServer \ {k} /\ toClient'[i] = toClient[p[i]]
               /\ \A i, j \in FromServer' : i < j => p[i] < p[j]
               /\ \A i \in FromServer \ {k} : \E j \in FromServer' : p[j] = i
        BY <1>2, Removal
      <4>3. ASSUME NEW i \in FromServer', toClient'[i].from = c, toClient'[i].kind = "next"
            PROVE  toClient'[i].n > e.n
        <5>1. p[i] \in FromServer /\ p[i] # k /\ toClient'[i] = toClient[p[i]]
          BY <4>1
        <5>2. toClient[k].n < toClient[p[i]].n
          BY <2>1, <4>3, <5>1, InOrderOfSending
        <5>3. toClient[p[i]].n \in 1 .. values[c]
          BY <1>2, <4>3, <5>1 DEF NetworkInv, RepliesOf
        <5> QED
          BY <3>1, <3>2, <5>1, <5>2, <5>3
      <4>4. ASSUME NEW v \in e.n + 1 .. values[c]
            PROVE  \E i \in FromServer' :
                       toClient'[i].from = c /\ toClient'[i].kind = "next" /\ toClient'[i].n = v
        <5>1. v \in Len(r) + 1 .. values[c] /\ v # e.n
          BY <4>4, <4>7
        <5>2. PICK i \in FromServer :
                  toClient[i].from = c /\ toClient[i].kind = "next" /\ toClient[i].n = v
          BY <2>1, <2>4, <4>2, <5>1 DEF OwnInv, OwnOrder
        <5>3. i # k
          BY <3>2, <5>1, <5>2
        <5>4. PICK j \in FromServer' : p[j] = i
          BY <4>1, <5>3
        <5>5. toClient'[j] = toClient[i]
          BY <4>1, <5>4
        <5> QED
          BY <5>2, <5>5
      <4>5. c \notin completing
        <5>1. c \in completing => Len(r) = values[c]
          BY <2>1, <2>4, <4>2 DEF OwnInv, OwnOrder
        <5> QED
          BY <4>2, <4>6, <5>1
      <4> QED
        BY <1>1, <4>2, <4>3, <4>4, <4>5 DEF OwnOrder
    <3>8. EventsOf(c)'
      <4>1. ASSUME NEW j \in 1 .. Len(received'[c]) PROVE received'[c][j].from = c
        <5>1. j \in 1 .. Len(r) \/ j = Len(r) + 1
          BY <3>4
        <5>2. \A i \in 1 .. Len(r) : r[i].from = c
          BY <2>1, <2>4 DEF OwnInv, EventsOf
        <5> QED
          BY <3>2, <3>4, <5>1, <5>2
      <4> QED
        BY <1>1, <2>6, <4>1 DEF EventsOf
    <3>9. DataOf(c)'
      <4>1. ASSUME c \in ordered, NEW j \in 1 .. Len(received'[c]) PROVE received'[c][j].n = j
        <5>1. j \in 1 .. Len(r) \/ j = Len(r) + 1
          BY <3>4
        <5>2. \A i \in 1 .. Len(r) : r[i].n = i
          BY <2>1, <2>4, <4>1 DEF OwnInv, DataOf
        <5> QED
          BY <3>4, <3>5, <4>1, <5>1, <5>2
      <4> QED
        BY <1>1, <2>6, <4>1 DEF DataOf, calleeVars
    <3> QED
      BY <2>2, <2>3, <3>6, <3>7, <3>8, <3>9 DEF OwnInv
  <2> QED
    BY <2>5, <2>6
<1> QED
  BY <1>4, <1>6, <1>7

LEMMA DeliverErrorRecipient ==
    ASSUME IInv, TypeOK', NEW k \in FromServer, toClient' = RemoveAt(toClient, k),
           UNCHANGED <<counter, pc, rid, cancelAll, toCancel, calleeVars, connected, toServer>>,
           NEW c \in Calls, pendingRequests[toClient[k].id] = c, DeliverError(toClient[k], c),
           Ends(c, "error")
    PROVE  CallInv(c)' /\ NetworkInv(c)' /\ (Own(c)' => OwnInv(c)')
<1>1. /\ toClient[k].kind = "error" /\ hasCompleted' = hasCompleted \cup {c}
      /\ UNCHANGED <<received, hasData, completing>>
  BY DEF DeliverError
<1>2. TypeOK /\ CallInv(c) /\ NetworkInv(c) /\ (Own(c) => OwnInv(c)) /\ rid[c] \in Ids
  BY DEF IInv, TypeOK
<1>3. /\ connected /\ cancelAll = "no" /\ Started(c) /\ pc[c] # "reserved"
      /\ rid[c] = toClient[k].id
      /\ Own(c) => toClient[k].from = c
  BY Recipient
<1>4. /\ observer'[c] = IF observer[c] = "open" THEN "error" ELSE observer[c]
      /\ \A i \in Ids :
          pendingRequests'[i] = IF observer[c] = "open" /\ pc[c] = "subscribed" /\ i = rid[c]
                                THEN None ELSE pendingRequests[i]
  BY DEF Ends
<1>5. CallInv(c)'
  <2>1. FreshCall(c)' /\ EndOf(c)' /\ WaitingIsHeld(c)'
    BY <1>1, <1>2, <1>3, <1>4 DEF CallInv, FreshCall, EndOf, Started, WaitingIsHeld
  <2>2. SlotHolder(c)'
    BY <1>2, <1>4, NoneIsNoCall DEF CallInv, SlotHolder
  <2>3. SlotKept(c)'
    BY <1>2, <1>3, <1>4 DEF SlotKept, InSubscribe
  <2> QED
    BY <2>1, <2>2, <2>3 DEF CallInv
<1>6. CalleeQuiet(c)
  BY <1>2, CalleeUnchanged
<1>7. NetworkInv(c)'
  BY <1>2, <1>6, ExecutionKept, PacketsKept, RepliesLost, QueuesUnchanged DEF NetworkInv
<1>8. ASSUME Own(c)' PROVE OwnInv(c)'
  <2>1. Own(c) /\ OwnInv(c) /\ toClient[k].from = c
    BY <1>2, <1>3, <1>8, OwnUnchanged DEF Started
  <2>2. execution[c] = "failed"
    BY <1>1, <1>2, <2>1 DEF NetworkInv, RepliesOf
  <2>3. OwnSlot(c)' /\ OwnData(c)' /\ OwnOrder(c)' /\ OwnCancel(c)'
    BY <1>1, <1>4, <2>1, <2>2 DEF OwnInv, OwnSlot, OwnData, OwnOrder, OwnCancel, calleeVars
  <2>4. EventsOf(c)' /\ DataOf(c)'
    BY <1>1, <1>4, <2>1, <2>2 DEF OwnInv, EventsOf, DataOf, calleeVars
  <2> QED
    BY <2>3, <2>4 DEF OwnInv
<1> QED
  BY <1>5, <1>7, <1>8

LEMMA DeliverCompleteRecipient ==
    ASSUME IInv, TypeOK', NEW k \in FromServer, toClient' = RemoveAt(toClient, k), Deliverable(k),
           UNCHANGED <<counter, pc, rid, cancelAll, toCancel, calleeVars, connected, toServer>>,
           NEW c \in Calls, pendingRequests[toClient[k].id] = c, DeliverComplete(toClient[k], c)
    PROVE  CallInv(c)' /\ NetworkInv(c)' /\ (Own(c)' => OwnInv(c)')
<1>1. /\ toClient[k].kind = "complete" /\ hasCompleted' = hasCompleted \cup {c}
      /\ completing' = completing \cup {c}
      /\ hasData' = IF toClient[k].n = 0 THEN hasData \cup {c} ELSE hasData
      /\ UNCHANGED <<pendingRequests, observer, received>>
  BY DEF DeliverComplete
<1>2. TypeOK /\ CallInv(c) /\ NetworkInv(c) /\ (Own(c) => OwnInv(c))
  BY DEF IInv
<1>3. /\ connected /\ cancelAll = "no" /\ Started(c) /\ pc[c] # "reserved"
      /\ rid[c] = toClient[k].id
      /\ Own(c) => toClient[k].from = c
  BY Recipient
<1>4. CallInv(c)'
  BY <1>1, <1>2, <1>3 DEF CallInv, FreshCall, SlotHolder, SlotKept, WaitingIsHeld, EndOf, Started,
       InSubscribe, Alive, Held
<1>5. CalleeQuiet(c)
  BY <1>2, CalleeUnchanged
<1>6. NetworkInv(c)'
  BY <1>2, <1>5, ExecutionKept, PacketsKept, RepliesLost, QueuesUnchanged DEF NetworkInv
<1>7. ASSUME Own(c)' PROVE OwnInv(c)'
  <2>1. Own(c) /\ OwnInv(c) /\ toClient[k].from = c
    BY <1>2, <1>3, <1>7, OwnUnchanged DEF Started
  <2>2. execution[c] = "completed" /\ (toClient[k].n = 0 => values[c] = 0)
    BY <1>1, <1>2, <2>1 DEF NetworkInv, RepliesOf
  <2>3. OwnSlot(c)' /\ OwnData(c)' /\ OwnCancel(c)'
    BY <1>1, <2>1, <2>2 DEF OwnInv, OwnSlot, OwnData, OwnCancel, calleeVars, FromClient
  <2>4. EventsOf(c)' /\ DataOf(c)'
    BY <1>1, <2>1 DEF OwnInv, EventsOf, DataOf, calleeVars
  <2>5. OwnOrder(c)'
    <3> SUFFICES ASSUME c \in ordered, observer[c] = "open" PROVE OwnOrder(c)'
      BY <1>1 DEF OwnOrder, calleeVars
    <3>2. ASSUME NEW i \in FromServer, toClient[i].from = c PROVE toClient[i].kind # "next"
      BY <1>1, <2>1, <3>2, InOrderOfSending
    <3>3. values[c] \in Nat /\ Len(received[c]) \in Nat
      BY <1>2, RpcBounds DEF TypeOK
    <3>4. Len(received[c]) <= values[c]
          /\ \A v \in Len(received[c]) + 1 .. values[c] :
                \E i \in FromServer : toClient[i].from = c /\ toClient[i].kind = "next"
      BY <1>3, <2>1 DEF OwnInv, OwnOrder
    <3>5. Len(received[c]) = values[c]
      <4>1. ASSUME Len(received[c]) # values[c] PROVE FALSE
        <5>1. values[c] \in Len(received[c]) + 1 .. values[c]
          BY <3>3, <3>4, <4>1
        <5> QED
          BY <3>2, <3>4, <5>1
      <4> QED
        BY <4>1
    <3>7. PICK p \in [Int -> Int] :
             \A i \in FromServer' : p[i] \in FromServer \ {k} /\ toClient'[i] = toClient[p[i]]
      BY <1>2, Removal
    <3>6. \A i \in FromServer' : ~(toClient'[i].from = c /\ toClient'[i].kind = "next")
      BY <3>2, <3>7
    <3> QED
      BY <1>1, <3>3, <3>5, <3>6 DEF OwnOrder, calleeVars
  <2> QED
    BY <2>3, <2>4, <2>5 DEF OwnInv
<1> QED
  BY <1>4, <1>6, <1>7

LEMMA DeliverKeeps ==
    ASSUME IInv, Deliver
    PROVE  IInv'
<1>1. PICK k \in FromServer :
        /\ Deliverable(k) /\ toClient' = RemoveAt(toClient, k)
        /\ UNCHANGED <<counter, pc, rid, cancelAll, toCancel, calleeVars, connected, toServer>>
        /\ \/ /\ pendingRequests[toClient[k].id] = None
              /\ UNCHANGED <<pendingRequests, observer, received, hasData, hasCompleted, completing>>
           \/ \E c \in Calls :
                /\ c = pendingRequests[toClient[k].id]
                /\ \/ DeliverNext(toClient[k], c) \/ DeliverError(toClient[k], c)
                   \/ DeliverComplete(toClient[k], c)
  BY Delivered DEF IInv
<1>2. TypeOK /\ TypeOK'
  BY DeliverTypes DEF IInv, NetworkInv
<1>3. CancelAllComesLast'
  <2>1. connected
    BY <1>2, QueueTypes DEF IInv, CancelAllComesLast, FromServer
  <2> QED
    BY <1>1, <2>1 DEF IInv, CancelAllComesLast
<1>4. CASE /\ pendingRequests[toClient[k].id] = None
           /\ UNCHANGED <<pendingRequests, observer, received, hasData, hasCompleted, completing>>
  <2>1. \A d \in Calls : pendingRequests[toClient[k].id] # d /\ TableSpared(d)
    BY <1>4, NothingErased, NoneIsNoCall
  <2>2. \A d \in Calls : CallInv(d)' /\ NetworkInv(d)' /\ (Own(d)' => OwnInv(d)')
    BY <1>1, <1>2, <1>4, <2>1, DeliverSpares
  <2> QED
    BY <1>2, <1>3, <2>2 DEF IInv
<1>5. ASSUME NEW c \in Calls, c = pendingRequests[toClient[k].id],
             DeliverNext(toClient[k], c) \/ DeliverError(toClient[k], c)
                \/ DeliverComplete(toClient[k], c)
      PROVE  IInv'
  <2>1. ASSUME DeliverError(toClient[k], c) PROVE Ends(c, "error")
    <3>1. EndWith(c, "error") /\ Started(c)
      BY <1>5, <2>1, Recipient DEF DeliverError
    <3> QED
      BY <3>1, EndWithEnds DEF Events
  <2>2. CallInv(c)' /\ NetworkInv(c)' /\ (Own(c)' => OwnInv(c)')
    <3>1. CASE DeliverNext(toClient[k], c)
      BY <1>1, <1>2, <1>5, <3>1, DeliverNextRecipient
    <3>2. CASE DeliverError(toClient[k], c)
      BY <1>1, <1>2, <1>5, <2>1, <3>2, DeliverErrorRecipient
    <3>3. CASE DeliverComplete(toClient[k], c)
      BY <1>1, <1>2, <1>5, <3>3, DeliverCompleteRecipient
    <3> QED
      BY <1>5, <3>1, <3>2, <3>3
  <2>3. ASSUME NEW d \in Calls \ {c}
        PROVE  CallInv(d)' /\ NetworkInv(d)' /\ (Own(d)' => OwnInv(d)')
    <3>1. TableSpared(d)
      BY <1>5, <2>1, NothingErased DEF Ends, DeliverNext, DeliverComplete
    <3>2. /\ received'[d] = received[d] /\ (d \in hasData' <=> d \in hasData)
          /\ (d \in hasCompleted' <=> d \in hasCompleted) /\ (d \in completing' <=> d \in completing)
      BY <1>2, <1>5 DEF DeliverNext, DeliverError, DeliverComplete, TypeOK
    <3> QED
      BY <1>1, <1>2, <1>5, <3>1, <3>2, DeliverSpares
  <2> QED
    BY <1>2, <1>3, <2>2, <2>3 DEF IInv
<1> QED
  BY <1>1, <1>4, <1>5
-----------------------------------------------------------------------------
(* A packet of the caller is handled. *)

LEMMA PacketReceived ==
    ASSUME IInv, toServer # << >>, toServer' = Tail(toServer)
    PROVE  \E m \in Packets :
             /\ m = Head(toServer) /\ m = toServer[1] /\ m.from \in Calls /\ m.id \in Ids
             /\ m.id = rid[m.from] /\ pc[m.from] \in {"sent", "subscribed"} /\ connected
             /\ 1 \in FromClient
             /\ \A d : d # m.from => SamePackets(toServer, toServer', d)
             /\ \A k \in FromClient' : /\ k + 1 \in FromClient /\ toServer'[k] = toServer[k + 1]
                                       /\ k + 1 # 1 /\ ~(k + 1 < 1)
             /\ \A j, k \in FromClient' : k + 1 < j + 1 => k < j
             /\ \A j, k \in FromClient' : j # k => j + 1 # k + 1
             /\ \A k \in FromClient \ {1} : \E j \in FromClient' : toServer'[j] = toServer[k]
<1>1. /\ Tail(toServer) \in Seq(Packets) /\ Len(toServer') = Len(toServer) - 1
      /\ Len(toServer) \in Nat \ {0}
      /\ Head(toServer) = toServer[1] /\ toServer[1] \in Packets
      /\ \A j \in 1 .. Len(toServer) - 1 : toServer'[j] = toServer[j + 1]
  BY QueueTypes, Tailed DEF IInv
<1>2. PICK m \in Packets : m = Head(toServer) /\ m = toServer[1]
  BY <1>1
<1>3. m.from \in Calls /\ m.id \in Ids /\ 1 \in FromClient
  BY <1>1 DEF Packets, FromClient
<1>4. m.id = rid[m.from] /\ pc[m.from] \in {"sent", "subscribed"}
  BY <1>2, <1>3 DEF IInv, NetworkInv, PacketsOf
<1>5. connected
  BY DEF IInv, CancelAllComesLast
<1>6. \A d : d # m.from => SamePackets(toServer, toServer', d)
  BY <1>2, QueueTypes, SameAfterTail DEF IInv
<1>7. \A k \in FromClient' : /\ k + 1 \in FromClient /\ toServer'[k] = toServer[k + 1]
                             /\ k + 1 # 1 /\ ~(k + 1 < 1)
  BY <1>1 DEF FromClient
<1>8. /\ \A j, k \in FromClient' : k + 1 < j + 1 => k < j
      /\ \A j, k \in FromClient' : j # k => j + 1 # k + 1
  BY <1>1 DEF FromClient
<1>9. ASSUME NEW k \in FromClient \ {1} PROVE \E j \in FromClient' : toServer'[j] = toServer[k]
  <2>1. k - 1 \in FromClient' /\ toServer'[k - 1] = toServer[k]
    BY <1>1 DEF FromClient
  <2> QED
    BY <2>1
<1> QED
  BY <1>2, <1>3, <1>4, <1>5, <1>6, <1>7, <1>8, <1>9

(* The packets of the sender that are left. *)
LEMMA PacketsLost ==
    ASSUME IInv, toServer # << >>, toServer' = Tail(toServer), NEW c \in Calls,
           rid' = rid, pc' = pc,
           \A k \in FromClient : k # 1 /\ toServer[k].from = c /\ toServer[k].kind = "call" =>
                execution'[c] = "none"
    PROVE  PacketsOf(c)'
<1>1. PICK m \in Packets :
             /\ \A k \in FromClient' : /\ k + 1 \in FromClient /\ toServer'[k] = toServer[k + 1]
                                       /\ k + 1 # 1 /\ ~(k + 1 < 1)
             /\ \A j, k \in FromClient' : k + 1 < j + 1 => k < j
             /\ \A j, k \in FromClient' : j # k => j + 1 # k + 1
  BY PacketReceived
<1>2. PacketsOf(c)
  BY DEF IInv, NetworkInv
<1>3. ASSUME NEW k \in FromClient', toServer'[k].from = c
      PROVE  /\ toServer'[k].id = rid'[c]
             /\ pc'[c] \in {"sent", "subscribed"}
             /\ toServer'[k].kind = "call" => execution'[c] = "none"
  <2>1. k + 1 \in FromClient /\ toServer'[k] = toServer[k + 1] /\ k + 1 # 1
    BY <1>1
  <2>2. toServer[k + 1].id = rid[c] /\ pc[c] \in {"sent", "subscribed"}
    BY <1>2, <1>3, <2>1 DEF PacketsOf
  <2>3. toServer[k + 1].kind = "call" => execution'[c] = "none"
    BY <1>3, <2>1
  <2> QED
    BY <2>1, <2>2, <2>3
<1>4. ASSUME NEW j \in FromClient', NEW k \in FromClient', j # k,
             toServer'[j].from = c, toServer'[k].from = c, toServer'[k].kind = "call"
      PROVE  toServer'[j].kind = "cancel" /\ k < j
  <2>1. /\ j + 1 \in FromClient /\ k + 1 \in FromClient /\ j + 1 # k + 1
        /\ toServer'[j] = toServer[j + 1] /\ toServer'[k] = toServer[k + 1]
    BY <1>1, <1>4
  <2>2. toServer[j + 1].kind = "cancel" /\ k + 1 < j + 1
    BY <1>2, <1>4, <2>1 DEF PacketsOf
  <2> QED
    BY <1>1, <2>1, <2>2
<1> QED
  BY <1>3, <1>4 DEF PacketsOf

LEMMA ReceiveCallKeeps ==
    ASSUME IInv, ReceiveCall
    PROVE  IInv'
<1>1. toServer # << >> /\ toServer' = Tail(toServer)
      /\ UNCHANGED <<callerVars, values, cancelRequested, ordered, connected, toClient>>
  BY DEF ReceiveCall
<1>2. PICK m \in Packets :
             /\ m = Head(toServer) /\ m = toServer[1] /\ m.from \in Calls /\ m.id \in Ids
             /\ m.id = rid[m.from] /\ pc[m.from] \in {"sent", "subscribed"} /\ connected
             /\ 1 \in FromClient
             /\ \A d : d # m.from => SamePackets(toServer, toServer', d)
             /\ \A k \in FromClient \ {1} : \E j \in FromClient' : toServer'[j] = toServer[k]
  BY <1>1, PacketReceived
<1>3. PICK c \in Calls : c = m.from
  BY <1>2
<1>4. m.kind = "call" /\ rid[c] = m.id /\ pc[c] \in {"sent", "subscribed"}
  BY <1>2, <1>3 DEF ReceiveCall
<1>5. TypeOK /\ TypeOK' /\ runningRequests \in [Ids -> Calls \cup {None}]
      /\ execution \in [Calls -> {"none", "running", "ignored", "completed", "failed"}]
  BY ReceiveTypes DEF IInv, TypeOK
<1>6. /\ execution'[c] \in {"running", "ignored"}
      /\ execution'[c] = "running" => runningRequests'[m.id] = c
      /\ \A d \in Calls \ {c} : execution'[d] = execution[d]
      /\ \A i \in Ids : runningRequests'[i] = runningRequests[i]
                        \/ (i = m.id /\ runningRequests[i] = None /\ runningRequests'[i] = c)
  BY <1>2, <1>3, <1>5 DEF ReceiveCall
<1>7. CancelAllComesLast'
  BY <1>1, <1>2 DEF IInv, CancelAllComesLast, callerVars
<1>8. rid' = rid /\ pc' = pc /\ values' = values /\ ordered' = ordered /\ connected' = connected
      /\ received' = received /\ hasData' = hasData /\ completing' = completing
      /\ observer' = observer /\ hasCompleted' = hasCompleted /\ toCancel' = toCancel
      /\ cancelAll' = cancelAll /\ pendingRequests' = pendingRequests
      /\ cancelRequested' = cancelRequested /\ toClient' = toClient
  BY <1>1 DEF callerVars
<1>9. ASSUME NEW d \in Calls \ {c} PROVE LeftAlone(d)
  <2>1. CalleeQuiet(d) /\ CallerQuiet(d)
    BY <1>6, <1>8 DEF CalleeQuiet, CallerQuiet
  <2>2. Own(d)' => Own(d)
    BY <1>8, OwnUnchanged DEF Started
  <2>3. runningRequests[rid[d]] = d => runningRequests'[rid[d]] = d
    BY <1>5, <1>6, NoneIsNoCall DEF TypeOK
  <2>4. Spared(d)
    BY <1>8, <2>2, <2>3, NothingErased DEF Spared
  <2> QED
    BY <1>2, <1>3, <1>5, <1>8, <2>1, <2>4, QueuesUnchanged DEF LeftAlone
<1>10. CallInv(c)' /\ (Own(c)' <=> Own(c))
  BY <1>1, CallerUnchanged
<1>11. ExecutionOf(c) /\ PacketsOf(c) /\ RepliesOf(c)
  BY DEF IInv, NetworkInv
<1>12. /\ execution[c] = "none"
       /\ \A k \in FromClient : k # 1 /\ toServer[k].from = c => toServer[k].kind = "cancel"
  BY <1>2, <1>3, <1>4, <1>11 DEF PacketsOf
<1>13. NetworkInv(c)'
  <2>1. ExecutionOf(c)'
    BY <1>4, <1>6, <1>8, <1>11, NoneIsNoCall DEF ExecutionOf
  <2>2. PacketsOf(c)'
    BY <1>1, <1>8, <1>12, PacketsLost
  <2>3. RepliesOf(c)'
    BY <1>8, <1>11, <1>12 DEF RepliesOf, FromServer
  <2> QED
    BY <2>1, <2>2, <2>3 DEF NetworkInv
<1>14. ASSUME Own(c)' PROVE OwnInv(c)'
  <2>1. OwnInv(c)
    BY <1>10, <1>14 DEF IInv
  <2>2. OwnSlot(c)' /\ OwnData(c)' /\ OwnOrder(c)'
    BY <1>2, <1>8, <1>12, <2>1 DEF OwnInv, OwnSlot, OwnData, OwnOrder, FromServer
  <2>3. OwnCancel(c)'
    <3>1. \/ observer[c] # "disposed" \/ c \in cancelRequested
          \/ \E k \in FromClient \ {1} : toServer[k].from = c /\ toServer[k].kind = "cancel"
      BY <1>2, <1>3, <1>4, <1>12, <2>1 DEF OwnInv, OwnCancel
    <3>2. \/ observer[c] # "disposed" \/ c \in cancelRequested
          \/ \E k \in FromClient' : toServer'[k].from = c /\ toServer'[k].kind = "cancel"
      BY <1>2, <3>1
    <3> QED
      BY <1>4, <1>6, <1>8, <3>2 DEF OwnCancel
  <2>4. EventsOf(c)' /\ DataOf(c)'
    BY <1>2, <1>4, <1>8, <1>12, <2>1 DEF OwnInv, EventsOf, DataOf
  <2> QED
    BY <2>2, <2>3, <2>4 DEF OwnInv
<1>15. Moves(c)
  BY <1>5, <1>7, <1>9, <1>10, <1>13, <1>14 DEF Moves
<1> QED
  BY <1>15, OneCallMoves

LEMMA ReceiveCancelKeeps ==
    ASSUME IInv, ReceiveCancel
    PROVE  IInv'
<1>1. toServer # << >> /\ toServer' = Tail(toServer)
      /\ UNCHANGED <<callerVars, execution, values, ordered, connected, toClient>>
  BY DEF ReceiveCancel
<1>2. PICK m \in Packets :
             /\ m = Head(toServer) /\ m = toServer[1] /\ m.from \in Calls /\ m.id \in Ids
             /\ m.id = rid[m.from] /\ pc[m.from] \in {"sent", "subscribed"} /\ connected
             /\ 1 \in FromClient
             /\ \A d : d # m.from => SamePackets(toServer, toServer', d)
             /\ \A k \in FromClient' : /\ k + 1 \in FromClient /\ toServer'[k] = toServer[k + 1]
                                       /\ k + 1 # 1 /\ ~(k + 1 < 1)
             /\ \A k \in FromClient \ {1} : \E j \in FromClient' : toServer'[j] = toServer[k]
  BY <1>1, PacketReceived
<1>3. PICK c \in Calls : c = m.from
  BY <1>2
<1>4. m.kind = "cancel" /\ rid[c] = m.id /\ pc[c] \in {"sent", "subscribed"}
  BY <1>2, <1>3 DEF ReceiveCancel
<1>5. TypeOK /\ TypeOK' /\ runningRequests \in [Ids -> Calls \cup {None}]
  BY ReceiveTypes DEF IInv, TypeOK
<1>6. /\ cancelRequested \subseteq cancelRequested'
      /\ \A d \in Calls : runningRequests[m.id] = d => d \in cancelRequested'
      /\ \A i \in Ids : runningRequests'[i] = runningRequests[i]
                        \/ (i = m.id /\ runningRequests'[i] = None)
  BY <1>2, <1>5, NoneIsNoCall DEF ReceiveCancel
<1>7. CancelAllComesLast'
  BY <1>1, <1>2 DEF IInv, CancelAllComesLast, callerVars
<1>8. rid' = rid /\ pc' = pc /\ values' = values /\ ordered' = ordered /\ connected' = connected
      /\ received' = received /\ hasData' = hasData /\ completing' = completing
      /\ observer' = observer /\ hasCompleted' = hasCompleted /\ toCancel' = toCancel
      /\ cancelAll' = cancelAll /\ pendingRequests' = pendingRequests
      /\ execution' = execution /\ toClient' = toClient
  BY <1>1 DEF callerVars
<1>9. \A d \in Calls : CalleeQuiet(d) /\ CallerQuiet(d)
  BY <1>6, <1>8, NoneIsNoCall DEF CalleeQuiet, CallerQuiet
<1>10. \A d \in Calls : runningRequests[rid[d]] = d =>
                           runningRequests'[rid[d]] = d \/ d \in cancelRequested'
  BY <1>5, <1>6 DEF TypeOK
<1>11. ASSUME NEW d \in Calls \ {c} PROVE LeftAlone(d)
  <2>1. Own(d)' => Own(d)
    BY <1>8, OwnUnchanged DEF Started
  <2>2. Spared(d)
    BY <1>6, <1>8, <1>10, <2>1, NothingErased DEF Spared
  <2> QED
    BY <1>2, <1>3, <1>5, <1>8, <1>9, <2>2, QueuesUnchanged DEF LeftAlone
<1>12. CallInv(c)' /\ (Own(c)' <=> Own(c))
  BY <1>1, CallerUnchanged
<1>13. ExecutionOf(c) /\ PacketsOf(c) /\ RepliesOf(c)
  BY DEF IInv, NetworkInv
<1>14. \A k \in FromClient : k # 1 /\ toServer[k].from = c => toServer[k].kind # "call"
  <2>1. ASSUME NEW k \in FromClient, k # 1, toServer[k].from = c, toServer[k].kind = "call"
        PROVE  k < 1
    BY <1>2, <1>3, <1>13, <2>1 DEF PacketsOf
  <2> QED
    BY <2>1 DEF FromClient
<1>15. NetworkInv(c)'
  <2>1. PacketsOf(c)'
    BY <1>1, <1>8, <1>14, PacketsLost
  <2> QED
    BY <1>5, <1>8, <1>9, <1>13, <2>1, ExecutionKept, RepliesKept, QueuesUnchanged DEF NetworkInv
<1>16. ASSUME Own(c)' PROVE OwnInv(c)'
  <2>1. OwnInv(c)
    BY <1>12, <1>16 DEF IInv
  <2>2. OwnSlot(c)' /\ OwnData(c)' /\ OwnOrder(c)'
    BY <1>8, <2>1 DEF OwnInv, OwnSlot, OwnData, OwnOrder, FromServer
  <2>3. EventsOf(c)' /\ DataOf(c)'
    BY <1>8, <2>1 DEF OwnInv, EventsOf, DataOf
  <2>4. OwnCancel(c)'
    <3>1. execution[c] = "running" => c \in cancelRequested'
      BY <1>2, <1>4, <1>6, <2>1 DEF OwnInv, OwnCancel
    <3>2. \A k \in FromClient' : toServer'[k].from = c => toServer'[k].kind = "cancel"
      <4>1. \A k \in FromClient : toServer[k] \in Packets
        BY <1>5, QueueTypes DEF FromClient
      <4>2. \A k \in FromClient : toServer[k].kind \in {"call", "cancel"}
        BY <4>1 DEF Packets
      <4> QED
        BY <1>2, <1>14, <4>2
    <3> QED
      BY <1>8, <3>1, <3>2 DEF OwnCancel
  <2> QED
    BY <2>2, <2>3, <2>4 DEF OwnInv
<1>17. Moves(c)
  BY <1>5, <1>7, <1>11, <1>12, <1>15, <1>16 DEF Moves
<1> QED
  BY <1>17, OneCallMoves
-----------------------------------------------------------------------------
(* The disconnection, which concerns every call. *)

LEMMA DisconnectKeeps ==
    ASSUME IInv, Disconnect
    PROVE  IInv'
<1>1. /\ connected' = FALSE /\ toServer' = << >> /\ toClient' = << >>
      /\ UNCHANGED callerVars /\ UNCHANGED calleeVars
  BY DEF Disconnect
<1>2. TypeOK /\ TypeOK'
  BY DisconnectTypes DEF IInv
<1>3. CancelAllComesLast'
  BY <1>1 DEF IInv, CancelAllComesLast, callerVars
<1>4. FromServer' = {} /\ FromClient' = {}
  <2>1. Len(<< >>) = 0
    OBVIOUS
  <2> QED
    BY <1>1, <2>1 DEF FromServer, FromClient
<1>5. ASSUME NEW d \in Calls PROVE CallInv(d)' /\ NetworkInv(d)' /\ (Own(d)' => OwnInv(d)')
  <2>1. CallInv(d)' /\ (Own(d)' <=> Own(d))
    BY <1>1, CallerUnchanged
  <2>2. ExecutionOf(d)
    BY DEF IInv, NetworkInv
  <2>3. NetworkInv(d)'
    BY <1>1, <1>4, <2>2 DEF NetworkInv, ExecutionOf, PacketsOf, RepliesOf, callerVars, calleeVars
  <2>4. ASSUME Own(d)' PROVE OwnInv(d)'
    <3>1. OwnInv(d)
      BY <2>1, <2>4 DEF IInv
    <3>2. OwnSlot(d)' /\ OwnData(d)' /\ OwnOrder(d)' /\ OwnCancel(d)'
      BY <1>1, <1>4, <3>1 DEF OwnInv, OwnSlot, OwnData, OwnOrder, OwnCancel, callerVars, calleeVars
    <3>3. EventsOf(d)' /\ DataOf(d)'
      BY <1>1, <3>1 DEF OwnInv, EventsOf, DataOf, callerVars, calleeVars
    <3> QED
      BY <3>2, <3>3 DEF OwnInv
  <2> QED
    BY <2>1, <2>3, <2>4
<1> QED
  BY <1>2, <1>3, <1>5 DEF IInv

LEMMA CancelAllTakeKeeps ==
    ASSUME IInv, CancelAllTake
    PROVE  IInv'
<1>1. /\ ~connected /\ cancelAll = "no" /\ cancelAll' = "taken"
      /\ toCancel' = {pendingRequests[i] : i \in Ids} \ {None}
      /\ pendingRequests' = [i \in Ids |-> None]
      /\ UNCHANGED <<counter, pc, rid, hasCompleted, hasData, completing, observer, received,
                   calleeVars, connected, toServer, toClient>>
  BY DEF CancelAllTake
<1>2. TypeOK /\ TypeOK'
  BY DisconnectTypes DEF IInv
<1>3. CancelAllComesLast'
  BY <1>1 DEF IInv, CancelAllComesLast
<1>4. ASSUME NEW d \in Calls PROVE CallInv(d)' /\ NetworkInv(d)' /\ (Own(d)' => OwnInv(d)')
  <2>1. CallInv(d) /\ NetworkInv(d) /\ (Own(d) => OwnInv(d)) /\ d \notin toCancel /\ rid[d] \in Ids
    BY <1>1, <1>2 DEF IInv, CancelAllComesLast, TypeOK
  <2>2. pendingRequests[rid[d]] = d => d \in toCancel'
    BY <1>1, <2>1, NoneIsNoCall
  <2>3. d \in toCancel' => pc[d] \in {"emplaced", "sent", "subscribed", "failed"}
    BY <1>1, <2>1 DEF CallInv, SlotHolder
  <2>4. \A i \in Ids : pendingRequests'[i] # d
    BY <1>1, NoneIsNoCall
  <2>5. FreshCall(d)' /\ EndOf(d)' /\ SlotKept(d)'
    BY <1>1, <2>1, <2>3 DEF CallInv, FreshCall, EndOf, SlotKept, InSubscribe
  <2>6. SlotHolder(d)'
    BY <2>4 DEF SlotHolder
  <2>7. WaitingIsHeld(d)'
    BY <1>1, <2>1, <2>2 DEF CallInv, WaitingIsHeld, Started, Alive, Held, InSubscribe
  <2>8. CalleeQuiet(d) /\ CallerQuiet(d)
    BY <1>1 DEF CalleeQuiet, CallerQuiet, calleeVars
  <2>9. NetworkInv(d)'
    BY <1>1, <1>2, <2>1, <2>8, SparedNetwork, QueuesUnchanged
  <2>10. ASSUME Own(d)' PROVE OwnInv(d)'
    <3>1. OwnInv(d)
      BY <1>1, <2>1, <2>10, OwnUnchanged DEF Started
    <3>2. OwnSlot(d)' /\ OwnCancel(d)'
      BY <1>1, <2>2, <3>1, <2>1 DEF OwnInv, OwnSlot, OwnCancel, calleeVars
    <3>3. OwnData(d)' /\ OwnOrder(d)'
      BY <1>1, <1>2, <2>8, <3>1, OwnDataKept, OwnOrderKept, QueuesUnchanged DEF OwnInv
    <3>4. EventsOf(d)' /\ DataOf(d)'
      BY <1>1, <3>1 DEF OwnInv, EventsOf, DataOf, calleeVars
    <3> QED
      BY <3>2, <3>3, <3>4 DEF OwnInv
  <2> QED
    BY <2>5, <2>6, <2>7, <2>9, <2>10 DEF CallInv
<1> QED
  BY <1>2, <1>3, <1>4 DEF IInv

LEMMA CancelAllRunningKeeps ==
    ASSUME IInv, CancelAllRunning
    PROVE  IInv'
<1>1. /\ ~connected /\ runningRequests' = [i \in Ids |-> None]
      /\ UNCHANGED callerVars
      /\ UNCHANGED <<execution, values, ordered, connected, toServer, toClient>>
  BY DEF CancelAllRunning
<1>2. TypeOK /\ TypeOK'
  BY DisconnectTypes DEF IInv
<1>3. CancelAllComesLast'
  BY <1>1 DEF IInv, CancelAllComesLast, callerVars
<1>4. ASSUME NEW d \in Calls PROVE CallInv(d)' /\ NetworkInv(d)' /\ (Own(d)' => OwnInv(d)')
  <2>1. CallInv(d)' /\ (Own(d)' <=> Own(d))
    BY <1>1, CallerUnchanged
  <2>2. CalleeQuiet(d) /\ CallerQuiet(d)
    BY <1>1, NoneIsNoCall DEF CalleeQuiet, CallerQuiet, callerVars
  <2>3. NetworkInv(d)'
    BY <1>1, <1>2, <2>2, SparedNetwork, QueuesUnchanged DEF IInv
  <2>4. ASSUME Own(d)' PROVE OwnInv(d)'
    <3>1. OwnInv(d)
      BY <2>1, <2>4 DEF IInv
    <3>2. OwnSlot(d)' /\ OwnCancel(d)' /\ EventsOf(d)' /\ DataOf(d)'
      BY <1>1, <3>1 DEF OwnInv, OwnSlot, OwnCancel, EventsOf, DataOf, callerVars
    <3>3. OwnData(d)' /\ OwnOrder(d)'
      BY <1>1, <1>2, <2>2, <3>1, OwnDataKept, OwnOrderKept, QueuesUnchanged DEF OwnInv
    <3> QED
      BY <3>2, <3>3 DEF OwnInv
  <2> QED
    BY <2>1, <2>3, <2>4
<1> QED
  BY <1>2, <1>3, <1>4 DEF IInv

-----------------------------------------------------------------------------
LEMMA InitIInv ==
    ASSUME Init
    PROVE  IInv
<1>0. << >> \in Seq(Packets) /\ << >> \in Seq(Replies)
      /\ << >> \in Seq([from : Calls, n : 1 .. MaxValues]) /\ Len(<< >>) = 0
  OBVIOUS
<1>1. TypeOK
  BY <1>0, RpcBounds DEF Init, TypeOK, Ids, Events, Packets, Replies
<1>2. CancelAllComesLast
  BY DEF Init, CancelAllComesLast
<1>3. FromServer = {} /\ FromClient = {}
  BY <1>0 DEF Init, FromServer, FromClient
<1>4. ASSUME NEW c \in Calls PROVE CallInv(c) /\ NetworkInv(c) /\ ~Own(c)
  <2>1. CallInv(c)
    BY NoneIsNoCall DEF Init, CallInv, FreshCall, SlotHolder, SlotKept, WaitingIsHeld, EndOf,
          InSubscribe, Started
  <2>2. NetworkInv(c)
    BY <1>3, NoneIsNoCall DEF Init, NetworkInv, ExecutionOf, PacketsOf, RepliesOf
  <2>3. ~Own(c)
    BY DEF Init, Own, Started
  <2> QED
    BY <2>1, <2>2, <2>3
<1> QED
  BY <1>1, <1>2, <1>4 DEF IInv

LEMMA NextIInv ==
    ASSUME IInv, [Next]_vars
    PROVE  IInv'
<1>1. ASSUME NEW c \in Calls, Subscribe(c) PROVE IInv'
  BY <1>1, ReserveIdMoves, RejectCallMoves, EmplaceMoves, SendCallMoves, SendCallFailsMoves,
     AddTeardownMoves, OneCallMoves DEF Subscribe
<1>2. ASSUME NEW c \in Calls, Execute(c) PROVE IInv'
  BY <1>2, SendValueMoves, HandlerEndsMoves, OneCallMoves DEF Execute
<1>3. ASSUME NEW c \in Calls, Dispose(c) \/ FinishCompletion(c) \/ CancelAllNotify(c) PROVE IInv'
  BY <1>3, DisposeMoves, FinishCompletionMoves, CancelAllNotifyMoves, OneCallMoves
<1>4. CASE UNCHANGED vars
  <2>1. UNCHANGED callerVars /\ UNCHANGED calleeVars /\ connected' = connected
        /\ toServer' = toServer /\ toClient' = toClient
    BY <1>4 DEF vars
  <2>2. TypeOK' /\ CancelAllComesLast'
    BY <2>1 DEF IInv, TypeOK, CancelAllComesLast, callerVars, calleeVars
  <2>3. ASSUME NEW d \in Calls PROVE LeftAlone(d)
    <3>1. TypeOK /\ CalleeQuiet(d) /\ CallerQuiet(d)
      BY <2>1 DEF IInv, CalleeQuiet, CallerQuiet, callerVars, calleeVars
    <3>2. Own(d)' <=> Own(d)
      BY <2>1, OwnUnchanged DEF Started, callerVars
    <3>3. Spared(d)
      BY <2>1, <3>2, NothingErased DEF Spared, callerVars, calleeVars
    <3> QED
      BY <2>1, <3>1, <3>3, QueuesUnchanged DEF LeftAlone
  <2>4. ASSUME NEW d \in Calls PROVE CallInv(d)' /\ NetworkInv(d)' /\ (Own(d)' => OwnInv(d)')
    BY <2>3, SparedCall, SparedNetwork, SparedOwn DEF LeftAlone, IInv
  <2> QED
    BY <2>2, <2>4 DEF IInv
<1> QED
  BY <1>1, <1>2, <1>3, <1>4, DeliverKeeps, ReceiveCallKeeps, ReceiveCancelKeeps, DisconnectKeeps,
     CancelAllTakeKeeps, CancelAllRunningKeeps DEF Next

(* The inductive invariant holds of every behaviour of RpcService.         *)
LEMMA Inductive == Spec => []IInv
<1> QED
  BY InitIInv, NextIInv, PTL DEF Spec

(* The values of the state are those of the types of the code: an id of    *)
(* reserveId fits its width, a slot of a table holds one call.             *)
THEOREM TypeCorrect == Spec => []TypeOK
<1>1. IInv => TypeOK
  BY DEF IInv
<1> QED
  BY <1>1, Inductive, PTL

(* Nobody waits for a request that is gone, and a call that is over leaves *)
(* _pendingRequests unless its send threw (rpcObservable, eraseRequest and *)
(* cancelAll).                                                             *)
THEOREM TableAndObserversAgree == Spec => []TableMatchesObservers
<1>1. ASSUME IInv PROVE TableMatchesObservers
  <2>1. WaitingCallsAreHeld
    BY <1>1 DEF IInv, CallInv, WaitingIsHeld, WaitingCallsAreHeld
  <2>2. EndedCallsLeave
    BY <1>1 DEF IInv, CallInv, SlotHolder, EndedCallsLeave, InSubscribe
  <2> QED
    BY <2>1, <2>2 DEF TableMatchesObservers
<1> QED
  BY <1>1, Inductive, PTL

(* A call whose id no other call took is given the values and the end of   *)
(* its own execution (next, error and complete look the id up).            *)
THEOREM EventsAreItsOwn == Spec => []OwnEvents
<1>1. IInv => OwnEvents
  BY DEF IInv, Own, OwnInv, EventsOf, OwnEvents
<1> QED
  BY <1>1, Inductive, PTL

(* on_completed of a call with an id of its own does not come before the   *)
(* data (waitingForDataTce), whatever overtakes what.                      *)
THEOREM DataComesFirst == Spec => []DataBeforeCompletion
<1>1. IInv => DataBeforeCompletion
  BY DEF IInv, Own, OwnInv, DataOf, DataBeforeCompletion
<1> QED
  BY <1>1, Inductive, PTL

(* The procedure of a call that was disposed of is told so once the        *)
(* packets of the call are handled (the teardown of rpcObservable, cancel).*)
THEOREM DisposedAreCancelled == Spec => []DisposedCallsAreCancelled
<1>1. IInv => DisposedCallsAreCancelled
  BY DEF IInv, Own, OwnInv, OwnCancel, FromClient, DisposedCallsAreCancelled
<1> QED
  BY <1>1, Inductive, PTL
=============================================================================

---------------------------- MODULE P2PTunnels_proofs ----------------------------
(***************************************************************************)
(* Proofs about P2PTunnels, for any number of tunnels, of handles and of   *)
(* losses of the connection.                                               *)
(***************************************************************************)
EXTENDS P2PTunnels, TLAPS

(* An entry is made under the handle that the host gave to the tunnel.     *)
EntriesHaveTheirHandle ==
    \A n \in Nodes : \A h \in Handles : tunnels[n][h] # None => handle[tunnels[n][h]] = h

(* So is a CLOSE sent.                                                     *)
ClosesHaveTheirHandle ==
    \A m \in requests : m.do = "close" => m.of # None /\ handle[m.of] = m.handle

(* A granted tunnel has a handle, one that is not granted yet has none;    *)
(* whoever opens one is known from the start.                              *)
GrantsGiveHandles ==
    \A o \in Opens :
        /\ pc[o] # "idle" => opener[o] \in Nodes
        /\ pc[o] \in {"granted", "open"} => handle[o] \in Handles
        /\ pc[o] = "idle" => handle[o] = None
        /\ [do |-> "open", of |-> o] \in requests => handle[o] = None /\ pc[o] # "idle"

(* A handle that was not given while in use is used by one tunnel.         *)
OneUser ==
    \A h \in Handles \ reused : \A o, p \in Opens : Uses(o, h) /\ Uses(p, h) => o = p

IInv ==
    /\ TypeOK
    /\ EntriesHaveTheirHandle
    /\ ClosesHaveTheirHandle
    /\ GrantsGiveHandles
    /\ OneUser
-----------------------------------------------------------------------------
LEMMA OtherIsANode == \A n \in Nodes : Other(n) \in Nodes
  BY TunnelsAssumption DEF Other

(* What uses a handle. *)
LEMMA EntryUses ==
    ASSUME TypeOK, EntriesHaveTheirHandle, NEW n \in Nodes, NEW h \in Handles, tunnels[n][h] # None
    PROVE  tunnels[n][h] \in Opens /\ Uses(tunnels[n][h], h)
  BY DEF TypeOK, EntriesHaveTheirHandle, Uses

LEMMA CloseUses ==
    ASSUME TypeOK, ClosesHaveTheirHandle, NEW m \in requests, m.do = "close"
    PROVE  /\ m.to \in Nodes /\ m.handle \in Handles /\ m.of \in Opens
           /\ Uses(m.of, m.handle)
<1>1. m \in CloseRequests
  BY DEF TypeOK, OpenRequests, CloseRequests
<1>2. m.to \in Nodes /\ m.handle \in Handles /\ m.of \in Opens
  BY <1>1 DEF CloseRequests
<1>3. Closing(m.of) /\ handle[m.of] = m.handle
  BY DEF Closing, ClosesHaveTheirHandle
<1> QED
  BY <1>2, <1>3 DEF Uses

(* A CLOSE that a step sends is about an entry of the table. *)
LEMMA CloseOfEntry ==
    ASSUME TypeOK, NEW n \in Nodes, NEW h \in Handles, tunnels[n][h] # None
    PROVE  /\ Close(n, h) \in CloseRequests
           /\ Close(n, h).do = "close" /\ Close(n, h).handle = h
           /\ Close(n, h).of = tunnels[n][h]
  BY OtherIsANode DEF TypeOK, Close, CloseRequests

(* Every step but HandleOpen is quiet: it gives no handle, and each entry,  *)
(* each CLOSE and each tunnel held by an application comes from another one *)
(* of the same tunnel.                                                      *)
Quiet ==
    /\ UNCHANGED <<opener, handle, reused>>
    /\ \A o \in Opens :
        /\ pc'[o] \in {"granted", "open"} => pc[o] \in {"granted", "open"}
        /\ pc'[o] = "idle" <=> pc[o] = "idle"
    /\ \A n \in Nodes : \A h \in Handles :
        \/ tunnels'[n][h] \in {tunnels[n][h], None}
        \/ /\ tunnels'[n][h] \in Opens
           /\ pc[tunnels'[n][h]] = "granted" /\ handle[tunnels'[n][h]] = h
    /\ \A m \in requests' :
        m.do = "close" =>
            \/ m \in requests
            \/ \E n \in Nodes : \E h \in Handles :
                 m.handle = h /\ tunnels[n][h] # None /\ m.of = tunnels[n][h]

NoNewOpen == \A o \in Opens : [do |-> "open", of |-> o] \in requests' =>
                                 [do |-> "open", of |-> o] \in requests

QuietInv ==
    /\ EntriesHaveTheirHandle /\ ClosesHaveTheirHandle /\ GrantsGiveHandles /\ OneUser

LEMMA QuietKeeps ==
    ASSUME TypeOK, TypeOK', QuietInv, Quiet
    PROVE  EntriesHaveTheirHandle' /\ ClosesHaveTheirHandle' /\ OneUser'
<1>1. handle' = handle /\ reused' = reused
  BY DEF Quiet
<1>2. EntriesHaveTheirHandle'
  <2>1. ASSUME NEW n \in Nodes, NEW h \in Handles, tunnels'[n][h] # None
        PROVE  handle[tunnels'[n][h]] = h
    BY <2>1 DEF Quiet, QuietInv, EntriesHaveTheirHandle
  <2> QED
    BY <1>1, <2>1 DEF EntriesHaveTheirHandle
<1>3. ClosesHaveTheirHandle'
  <2>1. ASSUME NEW m \in requests', m.do = "close"
        PROVE  m.of # None /\ handle[m.of] = m.handle
    BY <2>1 DEF Quiet, QuietInv, EntriesHaveTheirHandle, ClosesHaveTheirHandle
  <2> QED
    BY <1>1, <2>1 DEF ClosesHaveTheirHandle
<1>4. ASSUME NEW o \in Opens, NEW h \in Handles, Uses(o, h)' PROVE Uses(o, h)
  <2>1. handle[o] = h /\ o # None
    BY <1>1, <1>4, TunnelsAssumption DEF Uses
  <2>2. CASE pc'[o] \in {"granted", "open"}
    BY <2>1, <2>2 DEF Quiet, Uses
  <2>3. ASSUME NEW n \in Nodes, tunnels'[n][h] = o PROVE Uses(o, h)
    BY <2>1, <2>3 DEF Quiet, Uses
  <2>4. ASSUME NEW m \in requests', m.do = "close", m.of = o PROVE Uses(o, h)
    <3>1. CASE m \in requests
      BY <2>1, <2>4, <3>1 DEF Uses, Closing
    <3>2. CASE m \notin requests
      <4>1. PICK n \in Nodes, k \in Handles :
                tunnels[n][k] # None /\ m.of = tunnels[n][k]
        BY <2>4, <3>2 DEF Quiet
      <4>2. handle[o] = k
        BY <2>4, <4>1 DEF QuietInv, EntriesHaveTheirHandle
      <4> QED
        BY <2>1, <2>4, <4>1, <4>2 DEF Uses
    <3> QED
      BY <3>1, <3>2
  <2> QED
    BY <1>4, <2>2, <2>3, <2>4 DEF Uses, Closing
<1>5. OneUser'
  BY <1>1, <1>4 DEF QuietInv, OneUser
<1> QED
  BY <1>2, <1>3, <1>5

(* Every quiet step but OpenTunnel sends no OPEN. *)
LEMMA QuietKeepsGrants ==
    ASSUME TypeOK, QuietInv, Quiet, NoNewOpen
    PROVE  GrantsGiveHandles'
<1>1. ASSUME NEW o \in Opens
      PROVE  /\ pc'[o] \in {"granted", "open"} => handle[o] \in Handles
             /\ pc'[o] = "idle" => handle[o] = None
             /\ pc'[o] # "idle" => opener[o] \in Nodes
  BY DEF Quiet, QuietInv, GrantsGiveHandles
<1>2. ASSUME NEW o \in Opens, [do |-> "open", of |-> o] \in requests'
      PROVE  handle[o] = None /\ pc'[o] # "idle"
  <2>1. [do |-> "open", of |-> o] \in requests
    BY <1>2 DEF NoNewOpen
  <2> QED
    BY <2>1 DEF Quiet, QuietInv, GrantsGiveHandles
<1> QED
  BY <1>1, <1>2 DEF Quiet, GrantsGiveHandles
-----------------------------------------------------------------------------
(* One lemma for each operation.                                           *)
Keeps == TypeOK' /\ EntriesHaveTheirHandle' /\ ClosesHaveTheirHandle' /\ GrantsGiveHandles'
             /\ OneUser'

LEMMA QuietSteps ==
    ASSUME TypeOK, QuietInv, TypeOK', Quiet, NoNewOpen
    PROVE  Keeps
  BY QuietKeeps, QuietKeepsGrants DEF Keeps

Phases == {"idle", "requested", "granted", "refused", "open", "released",
           "broken", "cancelled", "lost"}

LEMMA PhaseStep ==
    ASSUME TypeOK, QuietInv, NEW o \in Opens, NEW to \in Phases \ {"idle", "granted", "open"},
           pc[o] # "idle", pc' = [pc EXCEPT ![o] = to],
           UNCHANGED <<tableVars, opener, handle, netVars, history>>
    PROVE  Keeps
<1>1. TypeOK'
  BY DEF TypeOK, Phases, tableVars, netVars, history
<1>2. Quiet /\ NoNewOpen
  BY DEF Quiet, NoNewOpen, TypeOK, tableVars, netVars, history
<1> QED
  BY <1>1, <1>2, QuietSteps

LEMMA ServerSteps ==
    ASSUME TypeOK, QuietInv, NEW n \in Nodes, CreateServer(n)
    PROVE  Keeps
<1>1. TypeOK'
  BY DEF TypeOK, CreateServer, openVars, netVars, history
<1>2. Quiet /\ NoNewOpen
  BY DEF Quiet, NoNewOpen, CreateServer, openVars, netVars, history
<1> QED
  BY <1>1, <1>2, QuietSteps

(* Entries taken away, with a CLOSE for each or without. *)
LEMMA Removal ==
    ASSUME TypeOK, QuietInv, NEW n \in Nodes, NEW hs \in SUBSET Handles,
           \A h \in hs : tunnels[n][h] # None,
           tunnels' = [tunnels EXCEPT ![n] = [h \in Handles |-> IF h \in hs THEN None ELSE @[h]]],
           requests' \subseteq requests \cup {Close(n, h) : h \in hs}
    PROVE  /\ tunnels' \in [Nodes -> [Handles -> Opens \cup {None}]]
           /\ requests' \in SUBSET (OpenRequests \cup CloseRequests)
           /\ \A k \in Nodes : \A h \in Handles : tunnels'[k][h] \in {tunnels[k][h], None}
           /\ \A m \in requests' :
                m.do = "close" =>
                    \/ m \in requests
                    \/ \E k \in Nodes : \E h \in Handles :
                         m.handle = h /\ tunnels[k][h] # None /\ m.of = tunnels[k][h]
           /\ NoNewOpen
<1>1. tunnels \in [Nodes -> [Handles -> Opens \cup {None}]]
  BY DEF TypeOK
<1>2. \A k \in Nodes : tunnels'[k] = IF k = n
                        THEN [h \in Handles |-> IF h \in hs THEN None ELSE tunnels[n][h]]
                        ELSE tunnels[k]
  BY <1>1
<1>3. tunnels' \in [Nodes -> [Handles -> Opens \cup {None}]]
  <2>1. [h \in Handles |-> IF h \in hs THEN None ELSE tunnels[n][h]] \in [Handles -> Opens \cup {None}]
    BY <1>1
  <2> QED
    BY <1>1, <2>1
<1>4. \A k \in Nodes : \A h \in Handles : tunnels'[k][h] \in {tunnels[k][h], None}
  BY <1>2
<1>5. ASSUME NEW m \in requests', m \notin requests
      PROVE  /\ m \in CloseRequests /\ m.do = "close"
             /\ \E h \in hs : m.handle = h /\ m.of = tunnels[n][h]
  <2>1. PICK h \in hs : m = Close(n, h)
    BY <1>5
  <2> QED
    BY <2>1, CloseOfEntry
<1>6. requests' \in SUBSET (OpenRequests \cup CloseRequests)
  BY <1>5 DEF TypeOK
<1>7. NoNewOpen
  <2>1. \A o \in Opens : [do |-> "open", of |-> o].do # "close"
    OBVIOUS
  <2> QED
    BY <1>5, <2>1 DEF NoNewOpen
<1> QED
  BY <1>3, <1>4, <1>5, <1>6, <1>7

LEMMA DestroyServerStep ==
    ASSUME TypeOK, QuietInv, NEW n \in Nodes, DestroyServer(n)
    PROVE  Keeps
<1> DEFINE hosted == {h \in Handles \ Free(n) : opener[tunnels[n][h]] # n}
<1>1. \A h \in hosted : tunnels[n][h] # None
  BY DEF Free
<1>2. /\ tunnels' = [tunnels EXCEPT ![n] = [h \in Handles |-> IF h \in hosted THEN None ELSE @[h]]]
      /\ requests' \subseteq requests \cup {Close(n, h) : h \in hosted}
      /\ serving' = serving \ {n} /\ UNCHANGED <<servers, openVars, up, losses, history>>
  BY DEF DestroyServer
<1>3. hosted \in SUBSET Handles
  OBVIOUS
<1> HIDE DEF hosted
<1>4. /\ tunnels' \in [Nodes -> [Handles -> Opens \cup {None}]]
      /\ requests' \in SUBSET (OpenRequests \cup CloseRequests)
      /\ \A k \in Nodes : \A h \in Handles : tunnels'[k][h] \in {tunnels[k][h], None}
      /\ \A m \in requests' :
           m.do = "close" =>
               \/ m \in requests
               \/ \E k \in Nodes : \E h \in Handles :
                    m.handle = h /\ tunnels[k][h] # None /\ m.of = tunnels[k][h]
      /\ NoNewOpen
  BY <1>1, <1>2, <1>3, Removal
<1>5. TypeOK'
  BY <1>2, <1>4 DEF TypeOK, openVars, history
<1>6. Quiet
  BY <1>2, <1>4 DEF Quiet, openVars, history
<1> QED
  BY <1>4, <1>5, <1>6, QuietSteps

LEMMA ReleaseStep ==
    ASSUME TypeOK, QuietInv, NEW o \in Opens, Release(o)
    PROVE  Keeps
<1>1. PICK n \in Nodes, h \in Handles : n = opener[o] /\ h = handle[o]
  BY DEF Release, QuietInv, GrantsGiveHandles
<1>2. /\ pc[o] = "open" /\ pc' = [pc EXCEPT ![o] = "released"]
      /\ tunnels' = [tunnels EXCEPT ![n][h] = None]
      /\ requests' = IF up /\ tunnels[n][h] # None THEN requests \cup {Close(n, h)} ELSE requests
      /\ UNCHANGED <<servers, serving, opener, handle, up, losses, history>>
  BY <1>1 DEF Release
<1>3. tunnels \in [Nodes -> [Handles -> Opens \cup {None}]]
  BY DEF TypeOK
<1>4. tunnels' \in [Nodes -> [Handles -> Opens \cup {None}]]
  BY <1>2, <1>3
<1>5. \A k \in Nodes : \A j \in Handles : tunnels'[k][j] \in {tunnels[k][j], None}
  BY <1>2, <1>3
<1>6. ASSUME NEW m \in requests', m \notin requests
      PROVE  /\ m \in CloseRequests /\ m.do = "close"
             /\ tunnels[n][h] # None /\ m.handle = h /\ m.of = tunnels[n][h]
  BY <1>2, <1>6, CloseOfEntry
<1>7. requests' \in SUBSET (OpenRequests \cup CloseRequests)
  BY <1>6 DEF TypeOK
<1>8. NoNewOpen
  <2>1. \A p \in Opens : [do |-> "open", of |-> p].do # "close"
    OBVIOUS
  <2> QED
    BY <1>6, <2>1 DEF NoNewOpen
<1>9. TypeOK'
  BY <1>2, <1>4, <1>7 DEF TypeOK, history
<1>10. Quiet
  <2>1. \A p \in Opens : /\ pc'[p] \in {"granted", "open"} => pc[p] \in {"granted", "open"}
                         /\ pc'[p] = "idle" <=> pc[p] = "idle"
    BY <1>2 DEF TypeOK
  <2> QED
    BY <1>2, <1>5, <1>6, <2>1 DEF Quiet, history
<1> QED
  BY <1>8, <1>9, <1>10, QuietSteps

LEMMA HandleCloseStep ==
    ASSUME TypeOK, QuietInv, NEW m \in requests, HandleClose(m)
    PROVE  Keeps
<1>1. m.do = "close" /\ m.to \in Nodes /\ m.handle \in Handles /\ m.of \in Opens
  BY CloseUses DEF HandleClose, QuietInv
<1>2. /\ requests' = requests \ {m}
      /\ tunnels' = [tunnels EXCEPT ![m.to][m.handle] = None]
      /\ early' = (IF pc[m.of] = "granted" THEN early \cup {m.of} ELSE early)
      /\ UNCHANGED <<servers, serving, openVars, up, losses, reused>>
  BY DEF HandleClose
<1>3. tunnels \in [Nodes -> [Handles -> Opens \cup {None}]]
  BY DEF TypeOK
<1>4. tunnels' \in [Nodes -> [Handles -> Opens \cup {None}]]
  BY <1>1, <1>2, <1>3
<1>5. \A k \in Nodes : \A j \in Handles : tunnels'[k][j] \in {tunnels[k][j], None}
  BY <1>1, <1>2, <1>3
<1>6. TypeOK'
  BY <1>1, <1>2, <1>4 DEF TypeOK, openVars
<1>7. Quiet /\ NoNewOpen
  BY <1>2, <1>5 DEF Quiet, NoNewOpen, openVars
<1> QED
  BY <1>6, <1>7, QuietSteps

(* The entry that openTunnel makes replaces whatever has the handle.       *)
LEMMA ContinueStep ==
    ASSUME TypeOK, QuietInv, NEW o \in Opens, Continue(o)
    PROVE  Keeps
<1>1. PICK n \in Nodes, h \in Handles : n = opener[o] /\ h = handle[o]
  BY DEF Continue, QuietInv, GrantsGiveHandles
<1>2. /\ pc[o] = "granted" /\ pc' = [pc EXCEPT ![o] = "open"]
      /\ tunnels' = [tunnels EXCEPT ![n][h] = o]
      /\ UNCHANGED <<servers, serving, opener, handle, netVars, history>>
  BY <1>1 DEF Continue
<1>3. tunnels \in [Nodes -> [Handles -> Opens \cup {None}]]
  BY DEF TypeOK
<1>4. tunnels' \in [Nodes -> [Handles -> Opens \cup {None}]]
  BY <1>2, <1>3
<1>5. \A k \in Nodes : \A j \in Handles :
        tunnels'[k][j] = tunnels[k][j] \/ (j = h /\ tunnels'[k][j] = o)
  BY <1>2, <1>3
<1>6. TypeOK'
  BY <1>2, <1>4 DEF TypeOK, netVars, history
<1>7. \A p \in Opens : /\ pc'[p] \in {"granted", "open"} => pc[p] \in {"granted", "open"}
                       /\ pc'[p] = "idle" <=> pc[p] = "idle"
  BY <1>2 DEF TypeOK
<1>8. Quiet /\ NoNewOpen
  BY <1>1, <1>2, <1>5, <1>7 DEF Quiet, NoNewOpen, netVars, history
<1> QED
  BY <1>6, <1>8, QuietSteps

LEMMA LinkSteps ==
    ASSUME TypeOK, QuietInv, Lose \/ Reconnect
    PROVE  Keeps
<1>1. CASE Lose
  <2>1. PICK arrived \in SUBSET {o \in Opens : pc[o] = "granted"} :
            pc' = [o \in Opens |-> IF pc[o] \in {"requested", "granted"} /\ o \notin arrived
                                  THEN "lost" ELSE pc[o]]
    BY <1>1 DEF Lose
  <2>2. /\ losses < MaxLosses /\ up' = FALSE /\ losses' = losses + 1 /\ requests' = {}
        /\ UNCHANGED <<tableVars, opener, handle, history>>
    BY <1>1 DEF Lose
  <2>3. TypeOK'
    <3>1. losses' \in 0 .. MaxLosses
      BY <2>2, TunnelsAssumption DEF TypeOK
    <3>2. pc' \in [Opens -> {"idle", "requested", "granted", "refused", "open", "released",
                            "broken", "cancelled", "lost"}]
      BY <2>1 DEF TypeOK
    <3> QED
      BY <2>2, <3>1, <3>2 DEF TypeOK, tableVars, history
  <2>4. \A o \in Opens : /\ pc'[o] \in {"granted", "open"} => pc[o] \in {"granted", "open"}
                         /\ pc'[o] = "idle" <=> pc[o] = "idle"
    BY <2>1
  <2>5. Quiet /\ NoNewOpen
    BY <2>2, <2>4 DEF Quiet, NoNewOpen, tableVars, history
  <2> QED
    BY <2>3, <2>5, QuietSteps
<1>2. CASE Reconnect
  <2>1. TypeOK'
    BY <1>2 DEF Reconnect, TypeOK, tableVars, openVars, history
  <2>2. Quiet /\ NoNewOpen
    BY <1>2 DEF Reconnect, Quiet, NoNewOpen, tableVars, openVars, history
  <2> QED
    BY <2>1, <2>2, QuietSteps
<1> QED
  BY <1>1, <1>2

(* A tunnel is opened: its OPEN is sent, or it is refused at once.         *)
LEMMA OpenTunnelStep ==
    ASSUME TypeOK, QuietInv, NEW o \in Opens, NEW n \in Nodes, OpenTunnel(o, n)
    PROVE  Keeps
<1>1. /\ pc[o] = "idle" /\ opener' = [opener EXCEPT ![o] = n]
      /\ \/ /\ pc' = [pc EXCEPT ![o] = "requested"]
            /\ requests' = requests \cup {[do |-> "open", of |-> o]}
         \/ pc' = [pc EXCEPT ![o] = "refused"] /\ UNCHANGED requests
      /\ UNCHANGED <<tableVars, handle, up, losses, history>>
  BY DEF OpenTunnel
<1>2. [do |-> "open", of |-> o] \in OpenRequests
  BY DEF OpenRequests
<1>3. TypeOK'
  <2>1. pc' \in [Opens -> {"idle", "requested", "granted", "refused", "open", "released",
                          "broken", "cancelled", "lost"}]
    BY <1>1 DEF TypeOK
  <2>2. requests' \in SUBSET (OpenRequests \cup CloseRequests)
    BY <1>1, <1>2 DEF TypeOK
  <2> QED
    BY <1>1, <2>1, <2>2 DEF TypeOK, tableVars, history
<1>4. \A p \in Opens : /\ pc'[p] = (IF p = o THEN pc'[o] ELSE pc[p])
                       /\ opener'[p] = (IF p = o THEN n ELSE opener[p])
  BY <1>1 DEF TypeOK
<1>5. pc'[o] \in {"requested", "refused"}
  BY <1>1 DEF TypeOK
<1>6. EntriesHaveTheirHandle'
  BY <1>1 DEF QuietInv, EntriesHaveTheirHandle, tableVars
<1>7. \A m \in requests' : m.do = "close" => m \in requests
  BY <1>1
<1>8. ClosesHaveTheirHandle'
  BY <1>1, <1>7 DEF QuietInv, ClosesHaveTheirHandle
<1>9. GrantsGiveHandles'
  <2>1. handle[o] = None
    BY <1>1 DEF QuietInv, GrantsGiveHandles
  <2>2. ASSUME NEW p \in Opens, [do |-> "open", of |-> p] \in requests'
        PROVE  handle[p] = None /\ pc'[p] # "idle"
    <3>1. CASE p = o
      BY <2>1, <1>5, <3>1
    <3>2. CASE p # o
      <4>1. [do |-> "open", of |-> p] # [do |-> "open", of |-> o]
        BY <3>2
      <4>2. [do |-> "open", of |-> p] \in requests
        BY <1>1, <2>2, <4>1
      <4> QED
        BY <1>4, <3>2, <4>2 DEF QuietInv, GrantsGiveHandles
    <3> QED
      BY <3>1, <3>2
  <2>3. ASSUME NEW p \in Opens
        PROVE  /\ pc'[p] # "idle" => opener'[p] \in Nodes
               /\ pc'[p] \in {"granted", "open"} => handle[p] \in Handles
               /\ pc'[p] = "idle" => handle[p] = None
    BY <1>4, <1>5, <2>1 DEF QuietInv, GrantsGiveHandles
  <2> QED
    BY <1>1, <2>2, <2>3 DEF GrantsGiveHandles
<1>10. ASSUME NEW p \in Opens, NEW h \in Handles, Uses(p, h)' PROVE Uses(p, h)
  BY <1>1, <1>4, <1>5, <1>7, <1>10 DEF Uses, Closing, tableVars
<1>11. OneUser'
  BY <1>1, <1>10 DEF QuietInv, OneUser, history
<1> QED
  BY <1>3, <1>6, <1>8, <1>9, <1>11 DEF Keeps

(* The host takes its first free handle.  The handle is marked when        *)
(* another tunnel still uses it.                                           *)
LEMMA HandleOpenStep ==
    ASSUME TypeOK, QuietInv, NEW o \in Opens, HandleOpen(o)
    PROVE  Keeps
<1> DEFINE open == [do |-> "open", of |-> o]
<1>1. /\ open \in requests /\ requests' = requests \ {open}
      /\ UNCHANGED <<servers, serving, opener, up, losses, early>>
  BY DEF HandleOpen
<1>2. open \in requests => /\ handle[o] = None /\ pc[o] # "idle" /\ opener[o] \in Nodes
  BY DEF QuietInv, GrantsGiveHandles
<1>3. PICK n \in Nodes : n = Host(o)
  BY <1>1, <1>2, OtherIsANode DEF Host
<1>4. PICK answer \in {"refused", "granted"} :
        /\ pc' = IF pc[o] = "requested" THEN [pc EXCEPT ![o] = answer] ELSE pc
        /\ \/ answer = "refused" /\ UNCHANGED <<tunnels, handle, reused>>
           \/ \E h \in Free(n) :
                /\ tunnels' = [tunnels EXCEPT ![n][h] = o]
                /\ handle' = [handle EXCEPT ![o] = h]
                /\ reused' = IF \E p \in Opens : Uses(p, h) THEN reused \cup {h} ELSE reused
  BY <1>3 DEF HandleOpen
<1>5. pc' \in [Opens -> {"idle", "requested", "granted", "refused", "open", "released",
                        "broken", "cancelled", "lost"}]
  BY <1>4 DEF TypeOK
<1>6. requests' \in SUBSET (OpenRequests \cup CloseRequests)
  BY <1>1 DEF TypeOK
<1>7. \A p \in Opens : pc'[p] = pc[p] \/ (p = o /\ pc[p] = "requested" /\ pc'[p] = answer)
  BY <1>4 DEF TypeOK
<1>8. \A p \in Opens : [do |-> "open", of |-> p] \in requests' => p # o
  BY <1>1
<1>9. CASE answer = "refused" /\ UNCHANGED <<tunnels, handle, reused>>
  <2>1. TypeOK'
    BY <1>1, <1>5, <1>6, <1>9 DEF TypeOK
  <2>2. Quiet /\ NoNewOpen
    BY <1>1, <1>7, <1>9 DEF Quiet, NoNewOpen
  <2> QED
    BY <2>1, <2>2, QuietSteps
<1>10. ASSUME NEW h \in Free(n),
              tunnels' = [tunnels EXCEPT ![n][h] = o], handle' = [handle EXCEPT ![o] = h],
              reused' = IF \E p \in Opens : Uses(p, h) THEN reused \cup {h} ELSE reused
       PROVE  Keeps
  <2>1. h \in Handles /\ tunnels[n][h] = None
    BY DEF Free
  <2>2. TypeOK'
    <3>1. tunnels' \in [Nodes -> [Handles -> Opens \cup {None}]]
      BY <1>10, <2>1 DEF TypeOK
    <3>2. handle' \in [Opens -> Handles \cup {None}] /\ reused' \in SUBSET Handles
      BY <1>10, <2>1 DEF TypeOK
    <3> QED
      BY <1>1, <1>5, <1>6, <3>1, <3>2 DEF TypeOK
  <2>3. \A k \in Nodes : \A j \in Handles :
          tunnels'[k][j] = tunnels[k][j] \/ (j = h /\ tunnels'[k][j] = o)
    BY <1>10, <2>1 DEF TypeOK
  <2>4. \A p \in Opens : handle'[p] = IF p = o THEN h ELSE handle[p]
    BY <1>10 DEF TypeOK
  <2>5. handle[o] = None /\ None \notin Opens
    BY <1>1, <1>2, TunnelsAssumption
  <2>6. EntriesHaveTheirHandle'
    <3>1. ASSUME NEW k \in Nodes, NEW j \in Handles, tunnels'[k][j] # None
          PROVE  handle'[tunnels'[k][j]] = j
      <4>1. CASE tunnels'[k][j] = o /\ j = h
        BY <2>4, <4>1
      <4>2. CASE tunnels'[k][j] = tunnels[k][j]
        <5>1. tunnels[k][j] \in Opens /\ handle[tunnels[k][j]] = j /\ j # None
          BY <3>1, <4>2, NoneIsNoHandle DEF TypeOK, QuietInv, EntriesHaveTheirHandle
        <5> QED
          BY <2>4, <2>5, <4>2, <5>1
      <4> QED
        BY <2>3, <4>1, <4>2
    <3> QED
      BY <3>1 DEF EntriesHaveTheirHandle
  <2>7. ASSUME NEW m \in requests', m.do = "close"
        PROVE  m \in requests /\ m.of # o /\ m.of \in Opens
    <3>1. m \in requests
      BY <1>1
    <3>2. m.of \in Opens /\ m.handle \in Handles /\ handle[m.of] = m.handle
      BY <2>7, <3>1, CloseUses DEF QuietInv, ClosesHaveTheirHandle
    <3> QED
      BY <2>5, <3>1, <3>2, NoneIsNoHandle
  <2>8. ClosesHaveTheirHandle'
    BY <2>4, <2>7 DEF QuietInv, ClosesHaveTheirHandle
  <2>9. GrantsGiveHandles'
    <3>1. ASSUME NEW p \in Opens, p # o
          PROVE  /\ pc'[p] = pc[p] /\ handle'[p] = handle[p] /\ opener'[p] = opener[p]
                 /\ [do |-> "open", of |-> p] \in requests' =>
                        [do |-> "open", of |-> p] \in requests
      BY <1>1, <1>7, <2>4, <3>1
    <3>2. /\ pc'[o] # "idle" /\ opener'[o] \in Nodes /\ handle'[o] \in Handles
          /\ [do |-> "open", of |-> o] \notin requests'
      BY <1>1, <1>2, <1>7, <2>1, <2>4
    <3>3. ASSUME NEW p \in Opens, p # o
          PROVE  /\ pc'[p] # "idle" => opener'[p] \in Nodes
                 /\ pc'[p] \in {"granted", "open"} => handle'[p] \in Handles
                 /\ pc'[p] = "idle" => handle'[p] = None
                 /\ [do |-> "open", of |-> p] \in requests' =>
                        handle'[p] = None /\ pc'[p] # "idle"
      BY <3>1, <3>3 DEF QuietInv, GrantsGiveHandles
    <3> QED
      BY <3>2, <3>3 DEF GrantsGiveHandles
  <2>10. ASSUME NEW p \in Opens, NEW j \in Handles, Uses(p, j)'
         PROVE  (p = o /\ j = h) \/ Uses(p, j)
    <3>1. CASE p = o
      BY <2>4, <2>10, <3>1 DEF Uses
    <3>2. CASE p # o
      <4>1. handle[p] = j
        BY <2>4, <2>10, <3>2 DEF Uses
      <4>2. pc'[p] = pc[p]
        BY <1>7, <3>2
      <4>3. \A k \in Nodes : tunnels'[k][j] = p => tunnels[k][j] = p
        BY <2>3, <3>2
      <4>4. Closing(p)' => Closing(p)
        BY <2>7 DEF Closing
      <4> QED
        BY <2>10, <4>1, <4>2, <4>3, <4>4 DEF Uses
    <3> QED
      BY <3>1, <3>2
  <2>11. OneUser'
    <3>1. ASSUME NEW j \in Handles, j \notin reused',
                 NEW p \in Opens, NEW q \in Opens, Uses(p, j)', Uses(q, j)'
          PROVE  p = q
      <4>1. j \notin reused
        BY <1>10, <3>1
      <4>2. j = h => ~Uses(p, j) /\ ~Uses(q, j)
        BY <1>10, <3>1, <2>1
      <4> QED
        BY <2>10, <3>1, <4>1, <4>2 DEF QuietInv, OneUser
    <3> QED
      BY <3>1 DEF OneUser
  <2> QED
    BY <2>2, <2>6, <2>8, <2>9, <2>11 DEF Keeps
<1> QED
  BY <1>4, <1>9, <1>10
-----------------------------------------------------------------------------
(* Every operation keeps the invariant. *)
LEMMA IInvStep == IInv /\ [Next]_vars => IInv'
<1> SUFFICES ASSUME TypeOK, QuietInv, [Next]_vars PROVE Keeps
  BY DEF IInv, QuietInv, Keeps
<1>1. ASSUME NEW n \in Nodes, CreateServer(n) \/ DestroyServer(n) PROVE Keeps
  BY <1>1, ServerSteps, DestroyServerStep
<1>2. ASSUME NEW o \in Opens, NEW n \in Nodes, OpenTunnel(o, n) PROVE Keeps
  BY <1>2, OpenTunnelStep
<1>3. ASSUME NEW o \in Opens, HandleOpen(o) \/ Continue(o) \/ Release(o) PROVE Keeps
  BY <1>3, HandleOpenStep, ContinueStep, ReleaseStep
<1>4. ASSUME NEW o \in Opens, ContinueFails(o) PROVE Keeps
  <2>1. "broken" \in Phases \ {"idle", "granted", "open"}
    BY DEF Phases
  <2> QED
    BY <1>4, <2>1, PhaseStep DEF ContinueFails
<1>5. ASSUME NEW o \in Opens, Cancel(o) PROVE Keeps
  <2>1. "cancelled" \in Phases \ {"idle", "granted", "open"}
    BY DEF Phases
  <2> QED
    BY <1>5, <2>1, PhaseStep DEF Cancel
<1>6. ASSUME NEW m \in requests, HandleClose(m) PROVE Keeps
  BY <1>6, HandleCloseStep
<1>7. CASE Lose \/ Reconnect
  BY <1>7, LinkSteps
<1>8. CASE UNCHANGED vars
  <2>1. TypeOK'
    BY <1>8 DEF TypeOK, vars, tableVars, openVars, netVars, history
  <2>2. Quiet /\ NoNewOpen
    BY <1>8 DEF Quiet, NoNewOpen, vars, tableVars, openVars, netVars, history
  <2> QED
    BY <2>1, <2>2, QuietSteps
<1> QED
  BY <1>1, <1>2, <1>3, <1>4, <1>5, <1>6, <1>7, <1>8 DEF Next

LEMMA IInvInit == Init => IInv
<1> SUFFICES ASSUME Init PROVE IInv
  OBVIOUS
<1>1. TypeOK
  BY TunnelsAssumption DEF Init, TypeOK
<1>2. EntriesHaveTheirHandle /\ ClosesHaveTheirHandle /\ GrantsGiveHandles
  BY DEF Init, EntriesHaveTheirHandle, ClosesHaveTheirHandle, GrantsGiveHandles
<1>3. OneUser
  BY NoneIsNoHandle DEF Init, OneUser, Uses
<1> QED
  BY <1>1, <1>2, <1>3 DEF IInv

LEMMA Inductive == Spec => []IInv
  BY IInvInit, IInvStep, PTL DEF Spec

(* Every variable keeps its type. *)
THEOREM TunnelTypes == Spec => []TypeOK
  BY Inductive, PTL DEF IInv

(* What the two peers have under a handle are the ends of one tunnel, as   *)
(* long as the host did not give the handle while it was in use.           *)
THEOREM EndsOfOneTunnel == Spec => []EndsMatch
<1>1. IInv => EndsMatch
  <2> SUFFICES ASSUME IInv, NEW h \in Handles \ reused, NEW n \in Nodes,
                      tunnels[n][h] # None, tunnels[Other(n)][h] # None
               PROVE  tunnels[n][h] = tunnels[Other(n)][h]
    BY DEF EndsMatch
  <2>1. Other(n) \in Nodes
    BY OtherIsANode
  <2> QED
    BY <2>1, EntryUses DEF IInv, OneUser
<1> QED
  BY <1>1, Inductive, PTL

(* An end of a tunnel goes for a reason that concerns this very tunnel: no *)
(* step overwrites it, and no CLOSE nor release of another one takes it.   *)
THEOREM EndsGoAlone == Spec => EndsGoWithTheirTunnel
<1>1. IInv /\ [Next]_vars => [EndGoes]_vars
  <2> SUFFICES ASSUME TypeOK, QuietInv, Next, NEW n \in Nodes, NEW h \in Handles \ reused',
                      tunnels[n][h] # None, tunnels'[n][h] # tunnels[n][h]
               PROVE  \/ /\ pc[tunnels[n][h]] = "open" /\ pc'[tunnels[n][h]] = "released"
                      \/ n \in serving \ serving' /\ opener[tunnels[n][h]] # n
                      \/ \E m \in requests \ requests' : m.do = "close" /\ m.of = tunnels[n][h]
    BY DEF EndGoes, IInv, QuietInv
  <2>1. tunnels[n][h] \in Opens /\ Uses(tunnels[n][h], h)
    BY EntryUses DEF QuietInv
  <2>2. tunnels \in [Nodes -> [Handles -> Opens \cup {None}]]
    BY DEF TypeOK
  <2>3. ASSUME NEW o \in Opens, Uses(o, h), h \notin reused PROVE o = tunnels[n][h]
    BY <2>1, <2>3 DEF QuietInv, OneUser
  <2>4. CASE \E k \in Nodes : CreateServer(k)
    BY <2>4 DEF CreateServer
  <2>5. ASSUME NEW k \in Nodes, DestroyServer(k)
        PROVE  n \in serving \ serving' /\ opener[tunnels[n][h]] # n
    BY <2>2, <2>5 DEF DestroyServer
  <2>6. ASSUME NEW o \in Opens, HandleOpen(o) PROVE FALSE
    BY <2>2, <2>6 DEF HandleOpen, Free
  <2>7. ASSUME NEW o \in Opens, Continue(o) PROVE FALSE
    <3>1. h = handle[o] /\ tunnels'[n][h] = o
      BY <2>2, <2>7 DEF Continue
    <3>2. Uses(o, h) /\ h \notin reused
      BY <2>7, <3>1 DEF Continue, Uses, history
    <3> QED
      BY <2>3, <3>1, <3>2
  <2>8. ASSUME NEW o \in Opens, Release(o)
        PROVE  /\ pc[tunnels[n][h]] = "open" /\ pc'[tunnels[n][h]] = "released"
    <3>1. h = handle[o]
      BY <2>2, <2>8 DEF Release
    <3>2. Uses(o, h) /\ h \notin reused
      BY <2>8, <3>1 DEF Release, Uses, history
    <3> QED
      BY <2>3, <2>8, <3>2 DEF Release, TypeOK
  <2>9. ASSUME NEW m \in requests, HandleClose(m)
        PROVE  \E c \in requests \ requests' : c.do = "close" /\ c.of = tunnels[n][h]
    <3>1. m.do = "close" /\ m \notin requests' /\ h \notin reused
      BY <2>9 DEF HandleClose
    <3>2. h = m.handle
      BY <2>2, <2>9 DEF HandleClose
    <3>3. m.of \in Opens /\ Uses(m.of, h)
      BY <3>1, <3>2, CloseUses DEF QuietInv
    <3> QED
      BY <2>3, <3>1, <3>3
  <2>10. CASE \/ \E o \in Opens : \/ ContinueFails(o) \/ Cancel(o)
                                 \/ \E k \in Nodes : OpenTunnel(o, k)
              \/ Lose \/ Reconnect
    BY <2>10 DEF ContinueFails, Cancel, OpenTunnel, Lose, Reconnect, tableVars
  <2> QED
    BY <2>4, <2>5, <2>6, <2>7, <2>8, <2>9, <2>10 DEF Next
<1> QED
  BY <1>1, Inductive, PTL DEF Spec, EndsGoWithTheirTunnel
-----------------------------------------------------------------------------
(* The ends of the tunnel o, in the table of each peer, and the CLOSEs that *)
(* are on their way for it.                                                *)
HasEnd(o, n) == tunnels[n][handle[o]] = o
ClosingAt(o, n) == \E m \in requests : m.do = "close" /\ m.of = o /\ m.to = n
HostGone(o) == Host(o) \in servers \ serving

(* What a tunnel goes through as long as the connection was not lost and   *)
(* its handle not given to another one while in use.  The end of the host  *)
(* is there before the opener knows the handle.  It goes by the CLOSE of   *)
(* the opener, sent by Release, or before the CLOSE to the opener is sent, *)
(* by DestroyServer: the two never cross.                                  *)
LifeOf(o) ==
    /\ pc[o] \in {"granted", "open", "released", "broken", "cancelled"}
    /\ HasEnd(o, opener[o]) => pc[o] = "open"
    /\ ClosingAt(o, Host(o)) => pc[o] = "released"
    /\ ClosingAt(o, opener[o]) => HostGone(o) /\ ~HasEnd(o, Host(o))
    /\ pc[o] \in {"granted", "open"} \/ HasEnd(o, opener[o]) \/ ClosingAt(o, Host(o)) =>
          HostGone(o) \/ HasEnd(o, Host(o))
    /\ HasEnd(o, Host(o)) /\ pc[o] = "open" => HasEnd(o, opener[o])
    /\ HasEnd(o, Host(o)) /\ pc[o] = "released" => ClosingAt(o, Host(o))
    /\ (pc[o] = "granted" \/ HasEnd(o, opener[o])) /\ ~HasEnd(o, Host(o)) =>
          ClosingAt(o, opener[o]) \/ o \in early

Lives == \A o \in Opens : losses = 0 /\ handle[o] \in Handles \ reused => LifeOf(o)

(* Before the first loss the connection is up, and who waits for an answer *)
(* was not told that it is lost.                                           *)
NothingLost ==
    losses = 0 =>
        /\ up
        /\ \A o \in Opens : [do |-> "open", of |-> o] \in requests => pc[o] \in {"requested", "cancelled"}

LifeInv == NothingLost /\ Lives /\ HandlesAreReused

LEMMA TwoNodes ==
    ASSUME NEW n \in Nodes
    PROVE  Other(n) \in Nodes /\ Other(n) # n /\ \A m \in Nodes : m \in {n, Other(n)}
<1>1. PICK a, b \in Nodes : a # b /\ Nodes = {a, b}
  BY TunnelsAssumption
<1>2. \E m \in Nodes : m # n
  BY <1>1
<1>3. Other(n) \in Nodes /\ Other(n) # n
  BY <1>2 DEF Other
<1> QED
  BY <1>1, <1>3

(* A tunnel that has a handle has an opener and a host. *)
LEMMA Peers ==
    ASSUME TypeOK, QuietInv, NEW o \in Opens, handle[o] \in Handles
    PROVE  /\ pc[o] # "idle" /\ opener[o] \in Nodes /\ Host(o) \in Nodes /\ Host(o) # opener[o]
           /\ \A n \in Nodes : n \in {opener[o], Host(o)}
           /\ [do |-> "open", of |-> o] \notin requests
<1>1. pc[o] # "idle" /\ opener[o] \in Nodes /\ [do |-> "open", of |-> o] \notin requests
  BY NoneIsNoHandle DEF QuietInv, GrantsGiveHandles
<1> QED
  BY <1>1, TwoNodes DEF Host

(* A step that leaves the tunnel o alone. *)
Spared(o) ==
    /\ pc'[o] = pc[o] /\ opener'[o] = opener[o] /\ handle'[o] = handle[o]
    /\ \A n \in Nodes : (HasEnd(o, n)' <=> HasEnd(o, n)) /\ (ClosingAt(o, n)' <=> ClosingAt(o, n))
    /\ o \in early => o \in early'
    /\ HostGone(o)' <=> HostGone(o)

LEMMA SparedLives ==
    ASSUME TypeOK, QuietInv, NEW o \in Opens, handle[o] \in Handles, LifeOf(o), Spared(o)
    PROVE  LifeOf(o)'
<1>1. opener[o] \in Nodes /\ Host(o) \in Nodes /\ Host(o)' = Host(o)
  BY Peers DEF Spared, Host
<1> QED
  BY <1>1 DEF LifeOf, Spared

(* Of the tunnels with a handle that was not given while in use, no other  *)
(* one is under it.                                                        *)
LEMMA EntryOfAnother ==
    ASSUME TypeOK, QuietInv, NEW o \in Opens, handle[o] \in Handles \ reused,
           NEW q \in Opens, q # o, NEW h \in Handles, Uses(q, h), NEW n \in Nodes
    PROVE  tunnels[n][h] # o
<1> SUFFICES ASSUME tunnels[n][h] = o PROVE FALSE
  OBVIOUS
<1>1. Uses(o, h) /\ handle[o] = h
  BY EntryUses, TunnelsAssumption DEF QuietInv, Uses
<1> QED
  BY <1>1 DEF QuietInv, OneUser

(* The parts of the invariant that every step keeps for the same reason: it *)
(* is enough that no handle is given.                                      *)
HandlesStay ==
    /\ UNCHANGED <<handle, reused>>
    /\ \A o \in Opens : handle[o] \in Handles => opener'[o] = opener[o]
    /\ losses > 0 => losses' > 0
    /\ servers \ serving \subseteq servers' \ serving'

LEMMA ReuseStays ==
    ASSUME TypeOK, QuietInv, HandlesAreReused, HandlesStay
    PROVE  HandlesAreReused'
<1> SUFFICES ASSUME NEW h \in reused
             PROVE  \E o, p \in Opens :
                      /\ o # p /\ handle'[o] = h /\ handle'[p] = h
                      /\ \/ opener'[o] # opener'[p]
                         \/ Host(o)' \in servers' \ serving'
                         \/ losses' > 0
  BY DEF HandlesAreReused, HandlesStay
<1>1. PICK o, p \in Opens :
        /\ o # p /\ handle[o] = h /\ handle[p] = h
        /\ \/ opener[o] # opener[p]
           \/ Host(o) \in servers \ serving
           \/ losses > 0
  BY DEF HandlesAreReused
<1>2. h \in Handles /\ handle' = handle
  BY DEF TypeOK, HandlesStay
<1>3. opener'[o] = opener[o] /\ opener'[p] = opener[p] /\ Host(o)' = Host(o)
  BY <1>1, <1>2 DEF HandlesStay, Host
<1> QED
  BY <1>1, <1>2, <1>3 DEF HandlesStay
-----------------------------------------------------------------------------
Base == TypeOK /\ QuietInv /\ TypeOK' /\ LifeInv

LEMMA LifeBefore ==
    ASSUME Base, NEW o \in Opens, losses = 0, handle[o] \in Handles \ reused
    PROVE  /\ LifeOf(o) /\ up /\ pc[o] # "idle" /\ opener[o] \in Nodes /\ Host(o) \in Nodes
           /\ Host(o) # opener[o] /\ \A n \in Nodes : n \in {opener[o], Host(o)}
  BY Peers DEF Base, LifeInv, Lives, NothingLost

(* Servers, losses and openings of other tunnels.                          *)
LEMMA CreateServerLife ==
    ASSUME Base, NEW n \in Nodes, CreateServer(n)
    PROVE  LifeInv'
<1>1. UNCHANGED <<tunnels, opener, pc, handle, requests, up, losses, early, reused>>
      /\ servers' \ serving' = servers \ serving
  BY DEF CreateServer, openVars, netVars, history, Base, TypeOK
<1>2. HandlesAreReused'
  BY <1>1, ReuseStays DEF HandlesStay, Base, LifeInv
<1>3. ASSUME NEW o \in Opens, losses' = 0, handle'[o] \in Handles \ reused' PROVE LifeOf(o)'
  <2>1. Spared(o)
    BY <1>1 DEF Spared, HasEnd, ClosingAt, HostGone, Host
  <2> QED
    BY <1>1, <1>3, <2>1, LifeBefore, SparedLives DEF Base
<1> QED
  BY <1>1, <1>2, <1>3 DEF LifeInv, Lives, NothingLost, Base

LEMMA LinkLife ==
    ASSUME Base, Lose \/ Reconnect
    PROVE  LifeInv'
<1>1. CASE Lose
  <2>1. losses' # 0 /\ losses' > 0 /\ UNCHANGED <<tableVars, opener, handle, history>>
    BY <1>1 DEF Lose, Base, TypeOK
  <2>2. HandlesAreReused'
    BY <2>1, ReuseStays DEF HandlesStay, Base, LifeInv, tableVars, history
  <2> QED
    BY <2>1, <2>2 DEF LifeInv, Lives, NothingLost
<1>2. CASE Reconnect
  <2>1. UNCHANGED <<tableVars, openVars, requests, losses, history>> /\ up'
    BY <1>2 DEF Reconnect
  <2>2. HandlesAreReused'
    BY <2>1, ReuseStays DEF HandlesStay, Base, LifeInv, tableVars, openVars, history
  <2>3. ASSUME NEW o \in Opens, losses' = 0, handle'[o] \in Handles \ reused' PROVE LifeOf(o)'
    <3>1. Spared(o)
      BY <2>1 DEF Spared, HasEnd, ClosingAt, HostGone, Host, tableVars, openVars, history
    <3> QED
      BY <2>1, <2>3, <3>1, LifeBefore, SparedLives DEF Base, openVars, history
  <2> QED
    BY <2>1, <2>2, <2>3 DEF LifeInv, Lives, NothingLost, Base, openVars
<1> QED
  BY <1>1, <1>2

LEMMA OpenTunnelLife ==
    ASSUME Base, NEW q \in Opens, NEW n \in Nodes, OpenTunnel(q, n)
    PROVE  LifeInv'
<1>1. /\ pc[q] = "idle" /\ opener' = [opener EXCEPT ![q] = n]
      /\ \/ /\ pc' = [pc EXCEPT ![q] = "requested"]
            /\ requests' = requests \cup {[do |-> "open", of |-> q]}
         \/ pc' = [pc EXCEPT ![q] = "refused"] /\ UNCHANGED requests
      /\ UNCHANGED <<tableVars, handle, up, losses, history>>
  BY DEF OpenTunnel
<1>2. \A o \in Opens : o # q => pc'[o] = pc[o] /\ opener'[o] = opener[o]
  BY <1>1 DEF Base, TypeOK
<1>3. handle[q] = None
  BY <1>1 DEF Base, QuietInv, GrantsGiveHandles
<1>4. HandlesAreReused'
  BY <1>1, <1>2, <1>3, NoneIsNoHandle, ReuseStays DEF HandlesStay, Base, LifeInv, tableVars, history
<1>5. \A m \in requests' : m.do = "close" => m \in requests
  BY <1>1
<1>6. \A m \in requests : m \in requests'
  BY <1>1
<1>7. ASSUME NEW o \in Opens, losses' = 0, handle'[o] \in Handles \ reused' PROVE LifeOf(o)'
  <2>1. o # q /\ losses = 0 /\ handle[o] \in Handles \ reused
    BY <1>1, <1>3, <1>7, NoneIsNoHandle DEF history
  <2>2. Spared(o)
    BY <1>1, <1>2, <1>5, <1>6, <2>1 DEF Spared, HasEnd, ClosingAt, HostGone, Host, tableVars, history
  <2> QED
    BY <2>1, <2>2, LifeBefore, SparedLives DEF Base
<1>8. NothingLost'
  <2> SUFFICES ASSUME losses = 0
               PROVE  /\ up
                      /\ \A o \in Opens : [do |-> "open", of |-> o] \in requests' =>
                                             pc'[o] \in {"requested", "cancelled"}
    BY <1>1 DEF NothingLost
  <2>1. /\ up
        /\ \A o \in Opens : [do |-> "open", of |-> o] \in requests =>
                               pc[o] \in {"requested", "cancelled"}
    BY DEF Base, LifeInv, NothingLost
  <2>2. pc' = [pc EXCEPT ![q] = "requested"]
    BY <1>1, <2>1 DEF OpenTunnel
  <2>3. pc'[q] = "requested"
    BY <2>2 DEF Base, TypeOK
  <2>4. ASSUME NEW o \in Opens, o # q, [do |-> "open", of |-> o] \in requests'
        PROVE  [do |-> "open", of |-> o] \in requests
    <3>1. [do |-> "open", of |-> o] # [do |-> "open", of |-> q]
      BY <2>4
    <3> QED
      BY <1>1, <2>4, <3>1
  <2> QED
    BY <1>2, <2>1, <2>3, <2>4
<1> QED
  BY <1>4, <1>7, <1>8 DEF LifeInv, Lives

(* The opener gives up, or cannot bind the socket of the client. *)
LEMMA GiveUpLife ==
    ASSUME Base, NEW q \in Opens, Cancel(q) \/ ContinueFails(q)
    PROVE  LifeInv'
<1>1. PICK to \in {"broken", "cancelled"} :
        /\ pc' = [pc EXCEPT ![q] = to]
        /\ pc[q] = "granted" \/ (pc[q] = "requested" /\ to = "cancelled")
  BY DEF Cancel, ContinueFails
<1>2. UNCHANGED <<tableVars, opener, handle, netVars, history>>
  BY DEF Cancel, ContinueFails
<1>3. \A o \in Opens : pc'[o] = IF o = q THEN to ELSE pc[o]
  BY <1>1 DEF Base, TypeOK
<1>4. HandlesAreReused'
  BY <1>2, ReuseStays DEF HandlesStay, Base, LifeInv, tableVars, netVars, history
<1>5. ASSUME NEW o \in Opens, losses' = 0, handle'[o] \in Handles \ reused' PROVE LifeOf(o)'
  <2>1. losses = 0 /\ handle[o] \in Handles \ reused
    BY <1>2, <1>5 DEF netVars, history
  <2>2. CASE o # q
    <3>1. Spared(o)
      BY <1>2, <1>3, <2>2
      DEF Spared, HasEnd, ClosingAt, HostGone, Host, tableVars, netVars, history
    <3> QED
      BY <2>1, <3>1, LifeBefore, SparedLives DEF Base
  <2>3. CASE o = q
    <3>1. LifeOf(o) /\ pc[o] = "granted" /\ pc'[o] \in {"broken", "cancelled"}
      BY <1>1, <1>3, <2>1, <2>3, LifeBefore DEF LifeOf
    <3>2. /\ Host(o)' = Host(o) /\ opener'[o] = opener[o] /\ (HostGone(o)' <=> HostGone(o))
          /\ \A n : (HasEnd(o, n)' <=> HasEnd(o, n)) /\ (ClosingAt(o, n)' <=> ClosingAt(o, n))
      BY <1>2 DEF HasEnd, ClosingAt, HostGone, Host, tableVars, netVars
    <3> QED
      BY <3>1, <3>2 DEF LifeOf
  <2> QED
    BY <2>2, <2>3
<1>6. NothingLost'
  BY <1>1, <1>2, <1>3 DEF NothingLost, Base, LifeInv, netVars
<1> QED
  BY <1>4, <1>5, <1>6 DEF LifeInv, Lives

LEMMA ContinueLife ==
    ASSUME Base, NEW q \in Opens, Continue(q)
    PROVE  LifeInv'
<1>1. /\ pc[q] = "granted" /\ pc' = [pc EXCEPT ![q] = "open"]
      /\ tunnels' = [tunnels EXCEPT ![opener[q]][handle[q]] = q]
      /\ UNCHANGED <<servers, serving, opener, handle, netVars, history>>
  BY DEF Continue
<1>2. handle[q] \in Handles /\ opener[q] \in Nodes /\ Uses(q, handle[q])
  BY <1>1 DEF Base, QuietInv, GrantsGiveHandles, Uses
<1>3. \A n \in Nodes : \A h \in Handles :
        tunnels'[n][h] = IF n = opener[q] /\ h = handle[q] THEN q ELSE tunnels[n][h]
  BY <1>1, <1>2 DEF Base, TypeOK
<1>4. \A o \in Opens : pc'[o] = IF o = q THEN "open" ELSE pc[o]
  BY <1>1 DEF Base, TypeOK
<1>5. HandlesAreReused'
  BY <1>1, ReuseStays DEF HandlesStay, Base, LifeInv, netVars, history
<1>6. ASSUME NEW o \in Opens, losses' = 0, handle'[o] \in Handles \ reused' PROVE LifeOf(o)'
  <2>1. losses = 0 /\ handle[o] \in Handles \ reused
    BY <1>1, <1>6 DEF netVars, history
  <2>2. /\ LifeOf(o) /\ opener[o] \in Nodes /\ Host(o) \in Nodes /\ Host(o) # opener[o]
    BY <2>1, LifeBefore
  <2>3. /\ Host(o)' = Host(o) /\ opener'[o] = opener[o] /\ (HostGone(o)' <=> HostGone(o))
        /\ (\A n : ClosingAt(o, n)' <=> ClosingAt(o, n)) /\ handle'[o] = handle[o] /\ early' = early
    BY <1>1 DEF ClosingAt, HostGone, Host, netVars, history
  <2>4. CASE o # q
    <3>1. \A n \in Nodes : tunnels[n][handle[q]] # o
      BY <1>2, <2>1, <2>4, EntryOfAnother DEF Base
    <3>2. \A n \in Nodes : HasEnd(o, n)' <=> HasEnd(o, n)
      BY <1>3, <2>1, <2>3, <2>4, <3>1 DEF HasEnd
    <3>3. Spared(o)
      BY <1>4, <2>3, <2>4, <3>2 DEF Spared
    <3> QED
      BY <2>1, <2>2, <3>3, SparedLives DEF Base
  <2>5. CASE o = q
    <3>1. HasEnd(o, opener[o])' /\ (HasEnd(o, Host(o))' <=> HasEnd(o, Host(o)))
      BY <1>1, <1>3, <2>1, <2>2, <2>3, <2>5 DEF HasEnd
    <3> QED
      BY <1>1, <1>4, <2>2, <2>3, <2>5, <3>1 DEF LifeOf
  <2> QED
    BY <2>4, <2>5
<1>7. NothingLost'
  BY <1>1, <1>4 DEF NothingLost, Base, LifeInv, netVars
<1> QED
  BY <1>5, <1>6, <1>7 DEF LifeInv, Lives

(* The server of n goes, with the ends that n hosts.                       *)
LEMMA DestroyServerLife ==
    ASSUME Base, NEW n \in Nodes, DestroyServer(n)
    PROVE  LifeInv'
<1> DEFINE hosted == {h \in Handles \ Free(n) : opener[tunnels[n][h]] # n}
<1>1. /\ n \in serving /\ serving' = serving \ {n}
      /\ tunnels' = [tunnels EXCEPT ![n] = [h \in Handles |-> IF h \in hosted THEN None ELSE @[h]]]
      /\ requests' = IF up THEN requests \cup {Close(n, h) : h \in hosted} ELSE requests
      /\ UNCHANGED <<servers, opener, pc, handle, up, losses, early, reused>>
  BY DEF DestroyServer, openVars, history
<1>2. \A h \in Handles : h \in hosted <=> tunnels[n][h] # None /\ opener[tunnels[n][h]] # n
  BY DEF Free
<1>3. \A h \in hosted : h \in Handles
  OBVIOUS
<1> HIDE DEF hosted
<1>4. \A k \in Nodes : \A h \in Handles :
        tunnels'[k][h] = IF k = n /\ h \in hosted THEN None ELSE tunnels[k][h]
  BY <1>1 DEF Base, TypeOK
<1>5. n \in servers
  BY <1>1 DEF Base, TypeOK
<1>6. HandlesAreReused'
  BY <1>1, ReuseStays DEF HandlesStay, Base, LifeInv
<1>7. ASSUME NEW m \in requests', m \notin requests
      PROVE  /\ up /\ m.do = "close" /\ m.to = Other(n)
             /\ \E h \in hosted : m.of = tunnels[n][h]
  <2>1. PICK h \in hosted : up /\ m = Close(n, h)
    BY <1>1, <1>7
  <2> QED
    BY <2>1 DEF Close
<1>8. \A m \in requests : m \in requests'
  BY <1>1
<1>9. ASSUME NEW o \in Opens, losses' = 0, handle'[o] \in Handles \ reused' PROVE LifeOf(o)'
  <2>1. losses = 0 /\ handle[o] \in Handles \ reused
    BY <1>1, <1>9
  <2>2. /\ LifeOf(o) /\ up /\ opener[o] \in Nodes /\ Host(o) \in Nodes /\ Host(o) # opener[o]
        /\ \A k \in Nodes : k \in {opener[o], Host(o)}
    BY <2>1, LifeBefore
  <2>3. Host(o)' = Host(o) /\ opener'[o] = opener[o] /\ pc'[o] = pc[o] /\ handle'[o] = handle[o]
    BY <1>1 DEF Host
  <2>4. Other(n) \in Nodes /\ Other(n) # n /\ o # None
    BY TwoNodes, TunnelsAssumption
  <2>5. CASE Host(o) = n
    <3>1. ~HasEnd(o, Host(o))' /\ (HasEnd(o, opener[o])' <=> HasEnd(o, opener[o]))
      BY <1>2, <1>4, <2>1, <2>2, <2>3, <2>4, <2>5 DEF HasEnd
    <3>2. ClosingAt(o, Host(o))' => ClosingAt(o, Host(o))
      BY <1>7, <2>3, <2>4, <2>5 DEF ClosingAt
    <3>3. HostGone(o)'
      BY <1>1, <1>5, <2>3, <2>5 DEF HostGone
    <3>4. HasEnd(o, Host(o)) => ClosingAt(o, opener[o])'
      <4> SUFFICES ASSUME HasEnd(o, n) PROVE ClosingAt(o, opener[o])'
        BY <2>5
      <4>1. handle[o] \in hosted /\ tunnels[n][handle[o]] = o
        BY <1>2, <2>1, <2>2, <2>4, <2>5 DEF HasEnd
      <4>2. Close(n, handle[o]) \in requests'
        BY <1>1, <2>2, <4>1
      <4>3. opener[o] = Other(n)
        BY <2>2, <2>4, <2>5
      <4> QED
        BY <2>3, <4>1, <4>2, <4>3 DEF ClosingAt, Close
    <3>5. ClosingAt(o, opener[o]) => ClosingAt(o, opener[o])'
      BY <1>8, <2>3 DEF ClosingAt
    <3> QED
      BY <1>1, <2>2, <2>3, <3>1, <3>2, <3>3, <3>4, <3>5 DEF LifeOf
  <2>6. CASE Host(o) # n
    <3>1. opener[o] = n
      BY <2>2, <2>6
    <3>2. \A h \in hosted : tunnels[n][h] # o
      BY <1>2, <1>3, <3>1
    <3>3. \A k \in Nodes : HasEnd(o, k)' <=> HasEnd(o, k)
      BY <1>4, <2>1, <2>3, <2>4, <3>2 DEF HasEnd
    <3>4. \A k \in Nodes : ClosingAt(o, k)' <=> ClosingAt(o, k)
      BY <1>7, <1>8, <3>2 DEF ClosingAt
    <3>5. HostGone(o)' <=> HostGone(o)
      BY <1>1, <2>3, <2>6 DEF HostGone
    <3>6. Spared(o)
      BY <1>1, <2>3, <3>3, <3>4, <3>5 DEF Spared
    <3> QED
      BY <2>1, <2>2, <3>6, SparedLives DEF Base
  <2> QED
    BY <2>5, <2>6
<1>10. NothingLost'
  <2>1. \A o \in Opens : [do |-> "open", of |-> o] \in requests' => [do |-> "open", of |-> o] \in requests
    <3>1. \A o \in Opens : [do |-> "open", of |-> o].do # "close"
      OBVIOUS
    <3> QED
      BY <1>7, <3>1
  <2> QED
    BY <1>1, <2>1 DEF NothingLost, Base, LifeInv
<1> QED
  BY <1>6, <1>9, <1>10 DEF LifeInv, Lives

(* The opener releases its end, and tells the host.                        *)
LEMMA ReleaseLife ==
    ASSUME Base, NEW q \in Opens, Release(q)
    PROVE  LifeInv'
<1>1. PICK n \in Nodes, h \in Handles : n = opener[q] /\ h = handle[q]
  BY DEF Release, Base, QuietInv, GrantsGiveHandles
<1>2. /\ pc[q] = "open" /\ pc' = [pc EXCEPT ![q] = "released"]
      /\ tunnels' = [tunnels EXCEPT ![n][h] = None]
      /\ requests' = IF up /\ tunnels[n][h] # None THEN requests \cup {Close(n, h)} ELSE requests
      /\ UNCHANGED <<servers, serving, opener, handle, up, losses, early, reused>>
  BY <1>1 DEF Release, history
<1>3. Uses(q, h)
  BY <1>1, <1>2 DEF Uses
<1>4. \A k \in Nodes : \A j \in Handles :
        tunnels'[k][j] = IF k = n /\ j = h THEN None ELSE tunnels[k][j]
  BY <1>2 DEF Base, TypeOK
<1>5. \A o \in Opens : pc'[o] = IF o = q THEN "released" ELSE pc[o]
  BY <1>2 DEF Base, TypeOK
<1>6. HandlesAreReused'
  BY <1>2, ReuseStays DEF HandlesStay, Base, LifeInv
<1>7. \A m \in requests' : m \notin requests =>
        m.do = "close" /\ m.of = tunnels[n][h] /\ m.to = Other(n)
  BY <1>2 DEF Close
<1>8. \A m \in requests : m \in requests'
  BY <1>2
<1>9. ASSUME NEW o \in Opens, losses' = 0, handle'[o] \in Handles \ reused' PROVE LifeOf(o)'
  <2>1. losses = 0 /\ handle[o] \in Handles \ reused
    BY <1>2, <1>9
  <2>2. /\ LifeOf(o) /\ up /\ opener[o] \in Nodes /\ Host(o) \in Nodes /\ Host(o) # opener[o]
        /\ \A k \in Nodes : k \in {opener[o], Host(o)}
    BY <2>1, LifeBefore
  <2>3. /\ Host(o)' = Host(o) /\ opener'[o] = opener[o] /\ handle'[o] = handle[o]
        /\ (HostGone(o)' <=> HostGone(o)) /\ early' = early
    BY <1>2 DEF Host, HostGone
  <2>4. Other(n) \in Nodes /\ Other(n) # n /\ o # None
    BY TwoNodes, TunnelsAssumption
  <2>5. CASE o # q
    <3>1. tunnels[n][h] # o
      BY <1>3, <2>1, <2>5, EntryOfAnother DEF Base
    <3>2. \A k \in Nodes : HasEnd(o, k)' <=> HasEnd(o, k)
      BY <1>4, <2>1, <2>3, <2>4, <3>1 DEF HasEnd
    <3>3. \A k \in Nodes : ClosingAt(o, k)' <=> ClosingAt(o, k)
      BY <1>7, <1>8, <3>1 DEF ClosingAt
    <3>4. Spared(o)
      BY <1>5, <2>3, <2>5, <3>2, <3>3 DEF Spared
    <3> QED
      BY <2>1, <2>2, <3>4, SparedLives DEF Base
  <2>6. CASE o = q
    <3>1. Host(o) = Other(n)
      BY <1>1, <2>6 DEF Host
    <3>2. ~HasEnd(o, opener[o])' /\ (HasEnd(o, Host(o))' <=> HasEnd(o, Host(o)))
      BY <1>1, <1>4, <2>1, <2>2, <2>3, <2>4, <2>6 DEF HasEnd
    <3>3. HasEnd(o, opener[o]) => ClosingAt(o, Host(o))'
      <4> SUFFICES ASSUME tunnels[n][h] = o PROVE ClosingAt(o, Host(o))'
        BY <1>1, <2>6 DEF HasEnd
      <4>1. Close(n, h) \in requests'
        BY <1>2, <2>2, <2>4
      <4> QED
        BY <2>3, <3>1, <4>1 DEF ClosingAt, Close
    <3>4. /\ ClosingAt(o, opener[o])' => ClosingAt(o, opener[o])
          /\ ClosingAt(o, Host(o)) => ClosingAt(o, Host(o))'
      BY <1>1, <1>7, <1>8, <2>3, <2>4, <2>6 DEF ClosingAt
    <3> QED
      BY <1>2, <1>5, <2>2, <2>3, <2>6, <3>2, <3>3, <3>4 DEF LifeOf
  <2> QED
    BY <2>5, <2>6
<1>10. NothingLost'
  <2>1. \A o \in Opens : [do |-> "open", of |-> o] \in requests' => [do |-> "open", of |-> o] \in requests
    <3>1. \A o \in Opens : [do |-> "open", of |-> o].do # "close"
      OBVIOUS
    <3> QED
      BY <1>7, <3>1
  <2> QED
    BY <1>2, <1>5, <2>1 DEF NothingLost, Base, LifeInv
<1> QED
  BY <1>6, <1>9, <1>10 DEF LifeInv, Lives

(* A CLOSE arrives.                                                        *)
LEMMA HandleCloseLife ==
    ASSUME Base, NEW m \in requests, HandleClose(m)
    PROVE  LifeInv'
<1>1. /\ m.do = "close" /\ requests' = requests \ {m}
      /\ tunnels' = [tunnels EXCEPT ![m.to][m.handle] = None]
      /\ early' = IF pc[m.of] = "granted" THEN early \cup {m.of} ELSE early
      /\ UNCHANGED <<servers, serving, opener, pc, handle, up, losses, reused>>
  BY DEF HandleClose, openVars
<1>2. m.to \in Nodes /\ m.handle \in Handles /\ m.of \in Opens /\ Uses(m.of, m.handle)
  BY <1>1, CloseUses DEF Base, QuietInv
<1>3. \A k \in Nodes : \A j \in Handles :
        tunnels'[k][j] = IF k = m.to /\ j = m.handle THEN None ELSE tunnels[k][j]
  BY <1>1, <1>2 DEF Base, TypeOK
<1>4. HandlesAreReused'
  BY <1>1, ReuseStays DEF HandlesStay, Base, LifeInv
<1>5. ASSUME NEW o \in Opens, losses' = 0, handle'[o] \in Handles \ reused' PROVE LifeOf(o)'
  <2>1. losses = 0 /\ handle[o] \in Handles \ reused
    BY <1>1, <1>5
  <2>2. /\ LifeOf(o) /\ opener[o] \in Nodes /\ Host(o) \in Nodes /\ Host(o) # opener[o]
        /\ \A k \in Nodes : k \in {opener[o], Host(o)}
    BY <2>1, LifeBefore
  <2>3. /\ Host(o)' = Host(o) /\ opener'[o] = opener[o] /\ handle'[o] = handle[o]
        /\ (HostGone(o)' <=> HostGone(o)) /\ pc'[o] = pc[o] /\ o # None
        /\ (o \in early => o \in early')
    BY <1>1, TunnelsAssumption DEF Host, HostGone
  <2>4. CASE o # m.of
    <3>1. tunnels[m.to][m.handle] # o
      BY <1>2, <2>1, <2>4, EntryOfAnother DEF Base
    <3>2. \A k \in Nodes : HasEnd(o, k)' <=> HasEnd(o, k)
      BY <1>3, <2>1, <2>3, <3>1 DEF HasEnd
    <3>3. \A k \in Nodes : ClosingAt(o, k)' <=> ClosingAt(o, k)
      BY <1>1, <2>4 DEF ClosingAt
    <3>4. Spared(o)
      BY <2>3, <3>2, <3>3 DEF Spared
    <3> QED
      BY <2>1, <2>2, <3>4, SparedLives DEF Base
  <2>5. CASE o = m.of
    <3>1. m.handle = handle[o]
      BY <1>2, <2>5 DEF Uses
    <3>2. ClosingAt(o, m.to)
      BY <1>1, <2>5 DEF ClosingAt
    <3>3. ~ClosingAt(o, m.to)'
      <4> SUFFICES ASSUME NEW c \in requests, c.do = "close", c.of = o, c.to = m.to
                   PROVE  c = m
        BY <1>1 DEF ClosingAt
      <4>1. c.handle = m.handle
        BY <3>1 DEF Base, QuietInv, ClosesHaveTheirHandle
      <4>2. c \in CloseRequests /\ m \in CloseRequests
        BY <1>1 DEF Base, TypeOK, OpenRequests, CloseRequests
      <4> QED
        BY <1>1, <2>5, <4>1, <4>2 DEF CloseRequests
    <3>4. \A k \in Nodes : ClosingAt(o, k)' => ClosingAt(o, k)
      BY <1>1 DEF ClosingAt
    <3>5. \A k \in Nodes : HasEnd(o, k)' <=> HasEnd(o, k) /\ k # m.to
      BY <1>3, <2>1, <2>3, <3>1 DEF HasEnd
    <3>6. CASE m.to = Host(o)
      <4>1. pc[o] = "released" /\ ~HasEnd(o, opener[o])
        BY <2>2, <3>2, <3>6 DEF LifeOf
      <4> QED
        BY <2>2, <2>3, <3>3, <3>4, <3>5, <3>6, <4>1 DEF LifeOf
    <3>7. CASE m.to = opener[o]
      <4>1. HostGone(o) /\ ~HasEnd(o, Host(o))
        BY <2>2, <3>2, <3>7 DEF LifeOf
      <4>2. pc[o] = "granted" => o \in early'
        BY <1>1, <2>5
      <4>3. ~HasEnd(o, opener[o])' /\ ~HasEnd(o, Host(o))' /\ ~ClosingAt(o, opener[o])'
        BY <2>2, <2>3, <3>3, <3>5, <3>7, <4>1
      <4>4. ClosingAt(o, Host(o))' => pc[o] = "released"
        BY <2>2, <2>3, <3>4 DEF LifeOf
      <4> QED
        BY <2>2, <2>3, <4>1, <4>2, <4>3, <4>4 DEF LifeOf
    <3> QED
      BY <1>2, <2>2, <3>6, <3>7
  <2> QED
    BY <2>4, <2>5
<1>6. NothingLost'
  BY <1>1 DEF NothingLost, Base, LifeInv
<1> QED
  BY <1>4, <1>5, <1>6 DEF LifeInv, Lives

(* The host answers.  Of the handles in use it gives one only to a tunnel  *)
(* of the other direction, after a loss, or when its server went before.   *)
LEMMA HandleOpenLife ==
    ASSUME Base, NEW q \in Opens, HandleOpen(q)
    PROVE  LifeInv'
<1> DEFINE open == [do |-> "open", of |-> q]
<1>1. /\ open \in requests /\ requests' = requests \ {open}
      /\ UNCHANGED <<servers, serving, opener, up, losses, early>>
  BY DEF HandleOpen
<1>2. handle[q] = None /\ pc[q] # "idle" /\ opener[q] \in Nodes
  BY <1>1 DEF Base, QuietInv, GrantsGiveHandles
<1>3. PICK n \in Nodes : n = Host(q)
  BY <1>1, <1>2, OtherIsANode DEF Host
<1>4. PICK answer \in {"refused", "granted"} :
        /\ pc' = IF pc[q] = "requested" THEN [pc EXCEPT ![q] = answer] ELSE pc
        /\ \/ answer = "refused" /\ UNCHANGED <<tunnels, handle, reused>>
           \/ /\ answer = "granted"
              /\ \E h \in Free(n) :
                /\ tunnels' = [tunnels EXCEPT ![n][h] = q]
                /\ handle' = [handle EXCEPT ![q] = h]
                /\ reused' = IF \E p \in Opens : Uses(p, h) THEN reused \cup {h} ELSE reused
  BY <1>3 DEF HandleOpen
<1>5. \A o \in Opens : pc'[o] = IF o = q /\ pc[o] = "requested" THEN answer ELSE pc[o]
  BY <1>4 DEF Base, TypeOK
<1>6. \A o \in Opens : o # q =>
        ([do |-> "open", of |-> o] \in requests' => [do |-> "open", of |-> o] \in requests)
  BY <1>1
<1>7. open \notin requests'
  BY <1>1
<1> HIDE DEF open
<1>8. NothingLost'
  BY <1>1, <1>5, <1>6, <1>7 DEF NothingLost, Base, LifeInv, open
<1>9. ASSUME NEW o, NEW k PROVE ClosingAt(o, k)' <=> ClosingAt(o, k)
  <2>1. open.do # "close"
    BY DEF open
  <2> QED
    BY <1>1, <2>1 DEF ClosingAt
<1>10. CASE UNCHANGED <<tunnels, handle, reused>>
  <2>1. HandlesAreReused'
    BY <1>1, <1>10, ReuseStays DEF HandlesStay, Base, LifeInv
  <2>2. ASSUME NEW o \in Opens, losses' = 0, handle'[o] \in Handles \ reused' PROVE LifeOf(o)'
    <3>1. losses = 0 /\ handle[o] \in Handles \ reused /\ o # q
      BY <1>1, <1>2, <1>10, <2>2, NoneIsNoHandle
    <3>2. Spared(o)
      BY <1>1, <1>5, <1>9, <1>10, <3>1 DEF Spared, HasEnd, HostGone, Host
    <3> QED
      BY <3>1, <3>2, LifeBefore, SparedLives DEF Base
  <2> QED
    BY <1>8, <2>1, <2>2 DEF LifeInv, Lives
<1>11. ASSUME answer = "granted", NEW h \in Free(n),
              tunnels' = [tunnels EXCEPT ![n][h] = q], handle' = [handle EXCEPT ![q] = h],
              reused' = IF \E p \in Opens : Uses(p, h) THEN reused \cup {h} ELSE reused
       PROVE  LifeInv'
  <2>1. h \in Handles /\ tunnels[n][h] = None
    BY DEF Free
  <2>2. \A k \in Nodes : \A j \in Handles :
          tunnels'[k][j] = IF k = n /\ j = h THEN q ELSE tunnels[k][j]
    BY <1>11, <2>1 DEF Base, TypeOK
  <2>3. \A o \in Opens : handle'[o] = IF o = q THEN h ELSE handle[o]
    BY <1>11 DEF Base, TypeOK
  <2>4. reused \subseteq reused' /\ None \notin Opens
    BY <1>11, TunnelsAssumption
  <2>5. Host(q)' = Host(q) /\ \A o : Host(o)' = Host(o) /\ (HostGone(o)' <=> HostGone(o))
    BY <1>1 DEF Host, HostGone
  <2>6. ASSUME NEW o \in Opens, losses' = 0, handle'[o] \in Handles \ reused' PROVE LifeOf(o)'
    <3>1. CASE o # q
      <4>1. losses = 0 /\ handle[o] \in Handles \ reused /\ handle'[o] = handle[o]
        BY <1>1, <2>3, <2>4, <2>6, <3>1
      <4>2. \A k \in Nodes : HasEnd(o, k)' <=> HasEnd(o, k)
        BY <2>1, <2>2, <2>4, <3>1, <4>1 DEF HasEnd
      <4>3. Spared(o)
        BY <1>1, <1>5, <1>9, <2>5, <3>1, <4>1, <4>2 DEF Spared
      <4> QED
        BY <4>1, <4>3, LifeBefore, SparedLives DEF Base
    <3>2. CASE o = q
      <4>1. pc[q] \in {"requested", "cancelled"}
        BY <1>1, <2>6 DEF Base, LifeInv, NothingLost, open
      <4>2. pc'[q] \in {"granted", "cancelled"}
        BY <1>5, <1>11, <4>1
      <4>3. /\ n # opener[q] /\ opener'[q] = opener[q] /\ Host(q)' = n
        BY <1>1, <1>2, <1>3, <2>5, TwoNodes DEF Host
      <4>4. tunnels[opener[q]][h] # q
        BY <1>2, <2>1, <2>4, NoneIsNoHandle DEF Base, QuietInv, EntriesHaveTheirHandle
      <4>5. HasEnd(q, n)' /\ ~HasEnd(q, opener[q])'
        BY <1>1, <1>2, <2>1, <2>2, <2>3, <4>3, <4>4 DEF HasEnd
      <4>6. \A k : ~ClosingAt(q, k)'
        <5> SUFFICES ASSUME NEW m \in requests, m.do = "close", m.of = q PROVE FALSE
          BY <1>9 DEF ClosingAt
        <5>1. m.handle \in Handles /\ handle[m.of] = m.handle
          BY CloseUses DEF Base, QuietInv, Uses
        <5> QED
          BY <1>2, <5>1, NoneIsNoHandle
      <4> QED
        BY <3>2, <4>2, <4>3, <4>5, <4>6 DEF LifeOf
    <3> QED
      BY <3>1, <3>2
  <2>7. ASSUME NEW j \in reused'
        PROVE  \E o, p \in Opens :
                 /\ o # p /\ handle'[o] = j /\ handle'[p] = j
                 /\ \/ opener'[o] # opener'[p]
                    \/ Host(o)' \in servers' \ serving'
                    \/ losses' > 0
    <3>1. CASE j \in reused
      <4>1. PICK o, p \in Opens :
              /\ o # p /\ handle[o] = j /\ handle[p] = j
              /\ \/ opener[o] # opener[p]
                 \/ Host(o) \in servers \ serving
                 \/ losses > 0
        BY <3>1 DEF Base, LifeInv, HandlesAreReused
      <4>2. j # None
        BY <3>1, NoneIsNoHandle DEF Base, TypeOK
      <4> QED
        BY <1>1, <1>2, <2>3, <2>5, <4>1, <4>2
    <3>2. CASE j \notin reused
      <4>1. PICK p \in Opens : j = h /\ Uses(p, h)
        BY <1>11, <3>2
      <4>2. handle[p] = h /\ p # q
        BY <1>2, <2>1, <4>1, NoneIsNoHandle DEF Uses
      <4>3. ASSUME losses = 0, opener[p] = opener[q] PROVE Host(q) \in servers \ serving
        <5>1. Host(p) = n
          BY <1>3, <4>3 DEF Host
        <5>2. handle[p] \in Handles \ reused
          BY <2>1, <3>2, <4>1, <4>2
        <5>3. LifeOf(p) /\ \A k \in Nodes : k \in {opener[p], n}
          BY <4>3, <5>1, <5>2, LifeBefore
        <5>4. ~HasEnd(p, n)
          BY <2>1, <2>4, <4>2 DEF HasEnd
        <5>5. CASE pc[p] \in {"granted", "open"} \/ HasEnd(p, opener[p]) \/ ClosingAt(p, n)
                   \/ ClosingAt(p, opener[p])
          BY <1>3, <5>1, <5>3, <5>4, <5>5 DEF LifeOf, HostGone
        <5>6. ASSUME NEW k \in Nodes, tunnels[k][h] = p PROVE HasEnd(p, opener[p])
          BY <4>2, <5>3, <5>4, <5>6 DEF HasEnd
        <5>7. ASSUME Closing(p) PROVE ClosingAt(p, n) \/ ClosingAt(p, opener[p])
          <6>1. PICK m \in requests : m.do = "close" /\ m.of = p
            BY <5>7 DEF Closing
          <6>2. m.to \in Nodes
            BY <6>1, CloseUses DEF Base, QuietInv
          <6> QED
            BY <5>3, <6>1, <6>2 DEF ClosingAt
        <5> QED
          BY <4>1, <5>5, <5>6, <5>7 DEF Uses
      <4>4. losses \in Nat
        BY TunnelsAssumption DEF Base, TypeOK
      <4>5. /\ handle'[q] = j /\ handle'[p] = j /\ opener' = opener /\ losses' = losses
            /\ servers' \ serving' = servers \ serving
        BY <1>1, <2>3, <4>1, <4>2
      <4>6. opener[q] # opener[p] \/ Host(q) \in servers \ serving \/ losses > 0
        BY <4>3, <4>4
      <4> QED
        BY <2>5, <4>2, <4>5, <4>6
    <3> QED
      BY <3>1, <3>2
  <2>8. HandlesAreReused'
    BY <2>7 DEF HandlesAreReused
  <2> QED
    BY <1>8, <2>6, <2>8 DEF LifeInv, Lives
<1> QED
  BY <1>4, <1>10, <1>11

-----------------------------------------------------------------------------
LEMMA LifeStep == IInv /\ LifeInv /\ [Next]_vars => LifeInv'
<1> SUFFICES ASSUME IInv, LifeInv, [Next]_vars PROVE LifeInv'
  OBVIOUS
<1>1. Base
  BY IInvStep DEF Base, IInv, QuietInv
<1>2. ASSUME NEW n \in Nodes, CreateServer(n) \/ DestroyServer(n) PROVE LifeInv'
  BY <1>1, <1>2, CreateServerLife, DestroyServerLife
<1>3. ASSUME NEW o \in Opens, NEW n \in Nodes, OpenTunnel(o, n) PROVE LifeInv'
  BY <1>1, <1>3, OpenTunnelLife
<1>4. ASSUME NEW o \in Opens, HandleOpen(o) \/ Continue(o) \/ Release(o) PROVE LifeInv'
  BY <1>1, <1>4, HandleOpenLife, ContinueLife, ReleaseLife
<1>5. ASSUME NEW o \in Opens, ContinueFails(o) \/ Cancel(o) PROVE LifeInv'
  BY <1>1, <1>5, GiveUpLife
<1>6. ASSUME NEW m \in requests, HandleClose(m) PROVE LifeInv'
  BY <1>1, <1>6, HandleCloseLife
<1>7. CASE Lose \/ Reconnect
  BY <1>1, <1>7, LinkLife
<1>8. CASE UNCHANGED vars
  <2>1. UNCHANGED <<servers, serving, tunnels, opener, pc, handle, requests, up, losses, early, reused>>
    BY <1>8 DEF vars, tableVars, openVars, netVars, history
  <2>2. HandlesAreReused' /\ NothingLost'
    BY <2>1, <1>1, ReuseStays DEF HandlesStay, Base, LifeInv, NothingLost
  <2>3. ASSUME NEW o \in Opens, losses' = 0, handle'[o] \in Handles \ reused' PROVE LifeOf(o)'
    <3>1. Spared(o)
      BY <2>1 DEF Spared, HasEnd, ClosingAt, HostGone, Host
    <3> QED
      BY <1>1, <2>1, <2>3, <3>1, LifeBefore, SparedLives DEF Base
  <2> QED
    BY <2>2, <2>3 DEF LifeInv, Lives
<1> QED
  BY <1>2, <1>3, <1>4, <1>5, <1>6, <1>7, <1>8 DEF Next

LEMMA LifeInit == Init => LifeInv
  BY NoneIsNoHandle DEF Init, LifeInv, NothingLost, Lives, HandlesAreReused

LEMMA LifeIsInductive == Spec => []LifeInv
<1>1. Init => LifeInv
  BY LifeInit
<1>2. IInv /\ LifeInv /\ [Next]_vars => LifeInv'
  BY LifeStep
<1> QED
  BY <1>1, <1>2, Inductive, PTL DEF Spec

(* The host looks for a free handle in its own table only                  *)
(* (P2PTunnels.cpp:123).  It gives one that another tunnel uses only when  *)
(* that one was opened in the other direction, when its server is gone, or *)
(* when the connection was lost.                                           *)
THEOREM ReusedHandles == Spec => []HandlesAreReused
  BY LifeIsInductive, PTL DEF LifeInv

(* A tunnel with an end at one peer only is about to be closed, unless the *)
(* answer of the host was given up or is still to be handled, or the CLOSE *)
(* of the host came before it (P2PTunnels.cpp:82).                         *)
THEOREM LoneEndsAreClosing == Spec => []OneEndIsClosing
<1>1. IInv /\ LifeInv => OneEndIsClosing
  <2> SUFFICES ASSUME IInv, LifeInv, losses = 0, NEW n \in Nodes, NEW h \in Handles \ reused,
                      NEW o, o = tunnels[n][h], o # None, tunnels[Other(n)][h] # o
               PROVE  \/ Closing(o)
                      \/ n = Host(o) /\ pc[o] \in {"requested", "granted", "broken", "cancelled"}
                      \/ n = opener[o] /\ o \in early
    BY DEF OneEndIsClosing
  <2>1. o \in Opens /\ handle[o] = h
    BY EntryUses DEF IInv, Uses
  <2>2. LifeOf(o) /\ TypeOK /\ QuietInv
    BY <2>1 DEF IInv, QuietInv, LifeInv, Lives
  <2>3. Host(o) # opener[o] /\ n \in {opener[o], Host(o)} /\ Other(n) \in {opener[o], Host(o)}
        /\ Other(n) # n
    BY <2>1, <2>2, Peers, TwoNodes
  <2>4. HasEnd(o, n) /\ ~HasEnd(o, Other(n))
    BY <2>1 DEF HasEnd
  <2>5. \A k : ClosingAt(o, k) => Closing(o)
    BY DEF ClosingAt, Closing
  <2> QED
    BY <2>2, <2>3, <2>4, <2>5 DEF LifeOf
<1> QED
  BY <1>1, Inductive, LifeIsInductive, PTL
=============================================================================

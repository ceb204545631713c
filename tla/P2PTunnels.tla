------------------------------ MODULE P2PTunnels ------------------------------
(***************************************************************************)
(* The tunnels between two peers: P2PTunnels.cpp on both of them, and the  *)
(* handlers of P2P_OPEN_TUNNEL and P2P_CLOSE_TUNNEL (P2PRequestModule.cpp). *)
(* Each peer has a table of the tunnels it has with the other, by handle,  *)
(* the ones it opened and the ones it hosts in the same table.  The host   *)
(* chooses the handle, both ends use it.                                   *)
(*                                                                         *)
(* System requests are RELIABLE and not ordered, so they are a set; an     *)
(* answer concerns one opening only, so its arrival and the run of its     *)
(* continuation are one step, at any time after the answer was given.      *)
(* One server per peer; a host with a public ip, which gives its endpoint  *)
(* instead of a tunnel and changes no table, is left out.                  *)
(***************************************************************************)
EXTENDS Integers

CONSTANTS Nodes,
          Opens,     \* calls of openTunnel
          MaxHandle, \* the last handle (254 in the code)
          MaxLosses, \* bound: how often the connection is lost
          None

Handles == 0 .. MaxHandle

ASSUME TunnelsAssumption ==
    /\ \E a, b \in Nodes : a # b /\ Nodes = {a, b}
    /\ None \notin Opens
    /\ MaxHandle \in Nat /\ MaxLosses \in Nat
ASSUME NoneIsNoHandle == None \notin Handles

VARIABLES
    servers,  \* peers with an entry in _servers
    serving,  \* peers whose P2PTunnel of createServer is alive
    tunnels,  \* _tunnels: tunnels[n][h] is the opening the entry was made for
    opener, pc,
    handle,   \* the handle the host gave to the opening
    requests, \* system requests on their way
    up, losses,
    early,  \* history: openings closed by the host before their continuation
    reused  \* history: handles given to an opening while another one used them

tableVars == <<servers, serving, tunnels>>
openVars == <<opener, pc, handle>>
netVars == <<requests, up, losses>>
history == <<early, reused>>
vars == <<tableVars, openVars, netVars, history>>

OpenRequests == [do : {"open"}, of : Opens]
CloseRequests == [do : {"close"}, to : Nodes, handle : Handles, of : Opens]

TypeOK ==
    /\ servers \in SUBSET Nodes /\ serving \in SUBSET servers
    /\ tunnels \in [Nodes -> [Handles -> Opens \cup {None}]]
    /\ opener \in [Opens -> Nodes \cup {None}]
    /\ pc \in [Opens -> {"idle", "requested", "granted", "refused", "open", "released",
                         "broken", "cancelled", "lost"}]
    /\ handle \in [Opens -> Handles \cup {None}]
    /\ requests \in SUBSET (OpenRequests \cup CloseRequests)
    /\ up \in BOOLEAN /\ losses \in 0 .. MaxLosses
    /\ early \in SUBSET Opens /\ reused \in SUBSET Handles

Init ==
    /\ servers = {} /\ serving = {}
    /\ tunnels = [n \in Nodes |-> [h \in Handles |-> None]]
    /\ opener = [o \in Opens |-> None] /\ pc = [o \in Opens |-> "idle"]
    /\ handle = [o \in Opens |-> None]
    /\ requests = {} /\ up = TRUE /\ losses = 0 /\ early = {} /\ reused = {}

Other(n) == CHOOSE m \in Nodes : m # n
Host(o) == Other(opener[o])

\* Mutation of Free: nothing is looked up, every handle is free.
AllFree(n) == Handles

Free(n) == {h \in Handles : tunnels[n][h] = None}
Close(n, h) == [do |-> "close", to |-> Other(n), handle |-> h, of |-> tunnels[n][h]]

Closing(o) == \E m \in requests : m.do = "close" /\ m.of = o

\* The opening o still has the handle h: in its application, in a table, or in
\* a CLOSE under way.
Uses(o, h) ==
    /\ handle[o] = h
    /\ pc[o] \in {"granted", "open"} \/ (\E n \in Nodes : tunnels[n][h] = o) \/ Closing(o)

-----------------------------------------------------------------------------
\* Mutation of CreateServer: the server is not registered.
CreateServerUnregistered(n) ==
    /\ n \notin servers
    /\ serving' = serving \cup {n}
    /\ UNCHANGED <<servers, tunnels, openVars, netVars, history>>

CreateServer(n) ==
    /\ n \notin servers
    /\ servers' = servers \cup {n} /\ serving' = serving \cup {n}
    /\ UNCHANGED <<tunnels, openVars, netVars, history>>

\* Mutation of DestroyServer: serverSide is not tested.
DestroyServerAndClients(n) ==
    /\ n \in serving
    /\ serving' = serving \ {n}
    /\ tunnels' = [tunnels EXCEPT ![n] = [h \in Handles |-> None]]
    /\ requests' = IF up THEN requests \cup {Close(n, h) : h \in Handles \ Free(n)} ELSE requests
    /\ UNCHANGED <<servers, openVars, up, losses, history>>

\* destroyServer: the entry in _servers stays.
DestroyServer(n) ==
    LET hosted == {h \in Handles \ Free(n) : opener[tunnels[n][h]] # n} IN
    /\ n \in serving
    /\ serving' = serving \ {n}
    /\ tunnels' = [tunnels EXCEPT ![n] = [h \in Handles |-> IF h \in hosted THEN None ELSE @[h]]]
    /\ requests' = IF up THEN requests \cup {Close(n, h) : h \in hosted} ELSE requests
    /\ UNCHANGED <<servers, openVars, up, losses, history>>

OpenTunnel(o, n) ==
    /\ pc[o] = "idle"
    /\ opener' = [opener EXCEPT ![o] = n]
    /\ IF up
         THEN /\ pc' = [pc EXCEPT ![o] = "requested"]
              /\ requests' = requests \cup {[do |-> "open", of |-> o]}
         ELSE /\ pc' = [pc EXCEPT ![o] = "refused"]
              /\ UNCHANGED requests
    /\ UNCHANGED <<tableVars, handle, up, losses, history>>

\* addClient takes the first handle the host has free.  The answer goes to an
\* opening that may have been cancelled.
HandleOpen(o) ==
    /\ [do |-> "open", of |-> o] \in requests
    /\ requests' = requests \ {[do |-> "open", of |-> o]}
    /\ LET n == Host(o)
           Answered(answer) == pc' = IF pc[o] = "requested" THEN [pc EXCEPT ![o] = answer] ELSE pc
       IN \/ /\ n \notin servers \/ Free(n) = {}
             /\ Answered("refused")
             /\ UNCHANGED <<tunnels, handle, reused>>
          \/ /\ n \in servers
             /\ \E h \in Free(n) :
                  /\ \A k \in Free(n) : h <= k
                  /\ tunnels' = [tunnels EXCEPT ![n][h] = o]
                  /\ handle' = [handle EXCEPT ![o] = h]
                  /\ reused' = IF \E p \in Opens : Uses(p, h) THEN reused \cup {h} ELSE reused
             /\ Answered("granted")
    /\ UNCHANGED <<servers, serving, opener, up, losses, early>>

\* Mutation of Continue: the first handle free here, not that of the answer.
ContinueWithOwnHandle(o) ==
    /\ pc[o] = "granted"
    /\ pc' = [pc EXCEPT ![o] = "open"]
    /\ \E h \in Free(opener[o]) :
         /\ \A k \in Free(opener[o]) : h <= k
         /\ tunnels' = [tunnels EXCEPT ![opener[o]][h] = o]
    /\ UNCHANGED <<servers, serving, opener, handle, netVars, history>>

\* The continuation of openTunnel writes over the entry there is.
Continue(o) ==
    /\ pc[o] = "granted"
    /\ pc' = [pc EXCEPT ![o] = "open"]
    /\ tunnels' = [tunnels EXCEPT ![opener[o]][handle[o]] = o]
    /\ UNCHANGED <<servers, serving, opener, handle, netVars, history>>

\* The socket of the client cannot be bound, to tunnelPort for instance.
ContinueFails(o) ==
    /\ pc[o] = "granted"
    /\ pc' = [pc EXCEPT ![o] = "broken"]
    /\ UNCHANGED <<tableVars, opener, handle, netVars, history>>

Cancel(o) ==
    /\ pc[o] \in {"requested", "granted"}
    /\ pc' = [pc EXCEPT ![o] = "cancelled"]
    /\ UNCHANGED <<tableVars, opener, handle, netVars, history>>

\* Mutation of Release: the peer is not told.
ReleaseSilently(o) ==
    /\ pc[o] = "open"
    /\ pc' = [pc EXCEPT ![o] = "released"]
    /\ tunnels' = [tunnels EXCEPT ![opener[o]][handle[o]] = None]
    /\ UNCHANGED <<servers, serving, opener, handle, netVars, history>>

\* destroyTunnel erases what has the handle by then and tells the peer.
Release(o) ==
    LET n == opener[o]
        h == handle[o]
    IN
    /\ pc[o] = "open"
    /\ pc' = [pc EXCEPT ![o] = "released"]
    /\ tunnels' = [tunnels EXCEPT ![n][h] = None]
    /\ requests' = IF up /\ tunnels[n][h] # None THEN requests \cup {Close(n, h)} ELSE requests
    /\ UNCHANGED <<servers, serving, opener, handle, up, losses, history>>

\* closeTunnel.
HandleClose(m) ==
    /\ m \in requests /\ m.do = "close"
    /\ requests' = requests \ {m}
    /\ tunnels' = [tunnels EXCEPT ![m.to][m.handle] = None]
    /\ early' = IF pc[m.of] = "granted" THEN early \cup {m.of} ELSE early
    /\ UNCHANGED <<servers, serving, openVars, up, losses, reused>>

\* The requests and some of the answers are lost; no table is cleaned.
Lose ==
    /\ up /\ losses < MaxLosses
    /\ up' = FALSE /\ losses' = losses + 1
    /\ requests' = {}
    /\ \E arrived \in SUBSET {o \in Opens : pc[o] = "granted"} :
         pc' = [o \in Opens |-> IF pc[o] \in {"requested", "granted"} /\ o \notin arrived
                                THEN "lost" ELSE pc[o]]
    /\ UNCHANGED <<tableVars, opener, handle, history>>

Reconnect ==
    /\ ~up
    /\ up' = TRUE
    /\ UNCHANGED <<tableVars, openVars, requests, losses, history>>

-----------------------------------------------------------------------------
Next ==
    \/ \E n \in Nodes : CreateServer(n) \/ DestroyServer(n)
    \/ \E o \in Opens :
         \/ \E n \in Nodes : OpenTunnel(o, n)
         \/ HandleOpen(o) \/ Continue(o) \/ ContinueFails(o) \/ Cancel(o) \/ Release(o)
    \/ \E m \in requests : HandleClose(m)
    \/ Lose \/ Reconnect

Spec == Init /\ [][Next]_vars

-----------------------------------------------------------------------------
(***************************************************************************)
(* Properties.  The host looks for a free handle in its own table only     *)
(* (P2PTunnels.cpp:123), and what it closes its peer's application may go  *)
(* on holding: a handle can be given while another tunnel still uses it.   *)
(* What goes wrong then is limited to that handle.                         *)
(***************************************************************************)
\* A handle is given twice only to tunnels opened in opposite directions, after
\* the end of a server, or after a loss of the connection.
HandlesAreReused ==
    \A h \in reused : \E o, p \in Opens :
        /\ o # p /\ handle[o] = h /\ handle[p] = h
        /\ \/ opener[o] # opener[p]
           \/ Host(o) \in servers \ serving
           \/ losses > 0

\* The entries that two peers have for a handle are the ends of one tunnel: what
\* onMsgReceived sends with the handle, receiveFrom gives to the other end.
EndsMatch ==
    \A h \in Handles \ reused : \A n \in Nodes :
        LET o == tunnels[n][h]
            p == tunnels[Other(n)][h]
        IN None \in {o, p} \/ o = p

\* A step takes the end of a tunnel for a reason that concerns that tunnel.
EndGoes ==
    \A n \in Nodes : \A h \in Handles \ reused' :
        LET o == tunnels[n][h] IN
        o # None /\ tunnels'[n][h] # o =>
            \/ pc[o] = "open" /\ pc'[o] = "released"
            \/ n \in serving \ serving' /\ opener[o] # n
            \/ \E m \in requests \ requests' : m.do = "close" /\ m.of = o

\* An end goes when its application releases the tunnel, when its server is
\* destroyed, or by the CLOSE sent for it (P2PTunnels.cpp:148, :193): not by that
\* of another tunnel, and no other takes its place.
EndsGoWithTheirTunnel == [][EndGoes]_vars

\* A tunnel with one end only is about to be closed (P2PTunnels.cpp:189, :193),
\* but for a host whose answer was given up, failed or is still to be handled,
\* and for an opener whose continuation the CLOSE of the host overtook
\* (P2PTunnels.cpp:82).
OneEndIsClosing ==
    losses = 0 =>
        \A n \in Nodes : \A h \in Handles \ reused :
            LET o == tunnels[n][h] IN
            o # None /\ tunnels[Other(n)][h] # o =>
                \/ Closing(o)
                \/ n = Host(o) /\ pc[o] \in {"requested", "granted", "broken", "cancelled"}
                \/ n = opener[o] /\ o \in early
=============================================================================

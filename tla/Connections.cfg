\* Three requests, a server and a remote peer.
SPECIFICATION Spec
CONSTANTS
    Requests = {r1, r2, r3}
    Servers = {s1}
    Remotes = {q1}
    None = None
SYMMETRY Symmetry
INVARIANTS TypeOK RightPeer HeadIsServed TablesAgree PendingIsRemembered
CHECK_DEADLOCK FALSE

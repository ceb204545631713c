\* Two requests, a server and a remote peer: what must happen.
SPECIFICATION FairSpec
CONSTANTS
    Requests = {r1, r2}
    Servers = {s1}
    Remotes = {q1}
    None = None
PROPERTIES LocksAreFreed 
CHECK_DEADLOCK FALSE

\* Two sessions with a peer, two connections, two entries in the scene.
SPECIFICATION Spec
CONSTANTS
    Sessions = {s1, s2}
    MaxConnections = 2
    MaxPeers = 2
    MaxJoins = 1
    None = None
SYMMETRY Symmetry
INVARIANTS TypeOK SessionsEndWithTheirConnection PeersEndWithTheirConnection PeerEventsInOrder
 
CHECK_DEADLOCK FALSE

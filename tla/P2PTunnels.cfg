\* Three tunnels between two peers.
SPECIFICATION Spec
CONSTANTS
    Nodes = {a, b}
    Opens = {o1, o2, o3}
    MaxHandle = 1
    MaxLosses = 1
    None = None
SYMMETRY Symmetry
INVARIANTS TypeOK  EndsMatch OneEndIsClosing
PROPERTY EndsGoWithTheirTunnel
CHECK_DEADLOCK FALSE

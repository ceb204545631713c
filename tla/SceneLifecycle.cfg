\* Two scenes of one uri and two handles, which the server uses again.
SPECIFICATION Spec
CONSTANTS
    Scenes = {s1, s2}
    Handles = {h1, h2}
    None = None
SYMMETRY Symmetry
INVARIANTS TypeOK ConnectedScenesAreJoined  EndedScenesLeaveTheTable
CHECK_DEADLOCK FALSE

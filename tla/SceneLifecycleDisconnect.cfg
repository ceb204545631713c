\* A disconnection too late to cancel the connection waits for itself.
SPECIFICATION FairSpec
CONSTANTS
    Scenes = {s1}
    Handles = {h1}
    None = None
PROPERTY DisconnectEnds
CHECK_DEADLOCK FALSE

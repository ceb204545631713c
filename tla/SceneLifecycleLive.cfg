\* One scene: what must happen.
SPECIFICATION FairSpec
CONSTANTS
    Scenes = {s1}
    Handles = {h1}
    None = None
PROPERTY ConnectionEnds HostLossEndsScenes ClosingEnds
CHECK_DEADLOCK FALSE

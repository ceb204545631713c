\* One id: the second call is rejected or takes the id of the first; every
\* subscription ends.
SPECIFICATION FairSpec
CONSTANTS
    Calls = {c1, c2}
    MaxId = 0
    MaxSkew = 0
    MaxValues = 1
    None = None
PROPERTY EveryCallEnds
CHECK_DEADLOCK FALSE

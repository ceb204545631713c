\* Two ids, one of which the calls can share.
SPECIFICATION Spec
CONSTANTS
    Calls = {c1, c2}
    MaxId = 1
    MaxSkew = 1
    MaxValues = 2
    None = None
SYMMETRY Symmetry
INVARIANTS TypeOK TableMatchesObservers OwnEvents
    DataBeforeCompletion DisposedCallsAreCancelled
CHECK_DEADLOCK FALSE

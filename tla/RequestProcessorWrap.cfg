\* Two ids for three requests: ids are used again, slots run out.
SPECIFICATION Spec
CONSTANTS
    Requests = {r1, r2, r3}
    MaxId = 1
    MaxValues = 1
    None = None
SYMMETRY Symmetry
INVARIANTS TypeOK NoOrphan OnlyFailedSendsLeak OwnAnswer
CHECK_DEADLOCK FALSE

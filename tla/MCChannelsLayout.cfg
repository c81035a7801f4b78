CONSTANTS
    c1 = c1
    c2 = c2
    t1 = t1
    t2 = t2
    Channels = {c1, c2}
    Threads = {t1, t2}
    Home <- HomeOf
    Changes = {"is_resolved", "task"}
    None = None
    Failed = Failed
    MaxInFlight = 2
    MaxOthers = 1
    MaxFailures = 1
SPECIFICATION Spec
SYMMETRY ThreadSymmetry
INVARIANTS TypeOK PageIsCoherent

CONSTANTS
    t1 = t1
    t2 = t2
    Tasks = {t1, t2}
    a1 = a1
    a2 = a2
    Agents = {a1}
    Mergers = {}
    Lead = Lead
    User = User
    Nobody = Nobody
    Missing = Missing
    Keep = Keep
    r1 = r1
    r2 = r2
    Requests = {r1, r2}
    Changes <- MCChanges
    Settings <- MCSettings
    InitialRows <- MCInitial
    Approvals <- MCApprovals
SPECIFICATION Spec
INVARIANTS TypeOK StartedUnblocked CycleNeedsOvertaking
PROPERTIES RunsAtomically
SYMMETRY Symmetry
CHECK_DEADLOCK FALSE
CONSTANTS
    MaxRequests = 3
    MaxOthers = 1

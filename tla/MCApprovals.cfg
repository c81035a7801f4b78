CONSTANTS
    a1 = a1
    a2 = a2
    b1 = b1
    b2 = b2
    r1 = r1
    r2 = r2
    Tasks <- TwoTasks
    Approvals = {a1, a2}
    Boards = {b1}
    Requests = {r1, r2}
    None = None
SPECIFICATION Spec
CHECK_DEADLOCK FALSE
SYMMETRY RequestSymmetry
PROPERTIES ImplementsApprovalBook
INVARIANTS TypeOK OnePendingPerTask PrimaryIsLinked OrderedLockingNeverDeadlocks

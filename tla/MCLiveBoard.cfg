CONSTANTS
    t1 = t1
    t2 = t2
    Tasks = {t1}
    Statuses = {inbox, review}
    inbox = inbox
    review = review
    Others = {w1}
    Own = {p1}
    w1 = w1
    p1 = p1
    w2 = w2
    p2 = p2
    None = None
    Gone = Gone
    Res = 2
    MaxChanges = 2
    MaxCuts = 1
    MaxFailures = 1
SPECIFICATION FairSpec
INVARIANTS TypeOK PageIsCurrent OnlyCommittedShown
PROPERTIES EventReachesPage
CHECK_DEADLOCK FALSE

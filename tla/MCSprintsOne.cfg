CONSTANTS
    t1 = t1
    t2 = t2
    qa = qa
    security = security
    api = api
    api2 = api2
    worker = worker
    Sprints <- TwoSprints
    Tasks = {t1}
    Roles = {qa, security}
    Requests = {api}
    Worker = None
    None = None
    AutoAdvance = FALSE
    MaxFailures = 0
SPECIFICATION FairSpec
PROPERTIES ClosedStaysClosed GateClosesApproved ApprovalStands ApprovedSprintCloses

CONSTANTS
    t1 = t1
    t2 = t2
    qa = qa
    security = security
    api = api
    api2 = api2
    worker = worker
    Sprints <- OneSprint
    Tasks = {t1}
    Roles = {qa}
    Requests = {api, api2}
    Worker = None
    None = None
    AutoAdvance = TRUE
    MaxFailures = 0
SPECIFICATION Spec
PROPERTY GateClosesApproved

CONSTANTS
    t1 = t1
    t2 = t2
    qa = qa
    security = security
    api = api
    api2 = api2
    worker = worker
    Sprints <- OneSprint
    Tasks = {t1, t2}
    Roles = {qa}
    Requests = {api, worker}
    Worker = worker
    None = None
    AutoAdvance = TRUE
    MaxFailures = 1
SPECIFICATION FairSpec
PROPERTY FinishedSprintIsReviewed

CONSTANTS
    t1 = t1
    t2 = t2
    qa = qa
    security = security
    api = api
    api2 = api2
    worker = worker
    Sprints <- TwoSprints
    Tasks = {t1}
    Roles = {qa}
    Requests = {api, api2}
    Worker = None
    None = None
    AutoAdvance = TRUE
    MaxFailures = 0
SPECIFICATION Spec
SYMMETRY Symmetry
INVARIANTS TypeOK OneActiveSprint TicketsHaveSprints

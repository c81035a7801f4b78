CONSTANTS
    api = api
    worker = worker
    Clients = {api}
    Worker = worker
    None = None
    MaxWake = 2
    MaxRetries = 1
    Standalone = FALSE
    MaxEvents = 2
SPECIFICATION FairSpec
INVARIANTS TypeOK OneReconcilePerGeneration WakeIsWatched EscalationStops
PROPERTIES MissedWakeIsSettled LostProvisioningIsRetried
\* An agent that is online, or given up, waits for a request: no more are made
\* than the bounds allow.
CHECK_DEADLOCK FALSE

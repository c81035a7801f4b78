CONSTANTS
    Ids = {1, 2, 3, 4}
    MaxRetries = 1
    MaxLive = 2
    MaxFaults = 1
    None = None
SPECIFICATION FairSpec
INVARIANT OneNextRun
PROPERTIES ChainEndsOnlyByFault WorksOrCanBeSeeded

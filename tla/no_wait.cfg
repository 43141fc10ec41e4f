SPECIFICATION FairSpec
CONSTANTS
    b1 = b1
    b2 = b2
    u1 = u1
    u2 = u2
    Batches = {b1}
    Uuids = {u1}
    Responses <- NoWaitResponses
    GhConcurrency = 1
    ReadyPollAttempts = 1
    UpstreamRetries = 1
    PauseCyclesMax = 1
    UnavailableMaxWait = 2
    DefaultRetryAfter = 1
    Enrich = FALSE
    MaxPages = 2
    MaxCrashes = 0
    MaxGenerations = 1
PROPERTIES
    BatchSettles
CHECK_DEADLOCK FALSE

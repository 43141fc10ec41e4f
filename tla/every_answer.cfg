SPECIFICATION FairSpec
CONSTANTS
    b1 = b1
    b2 = b2
    u1 = u1
    u2 = u2
    Batches = {b1}
    Uuids = {u1, u2}
    Responses <- FairResponses
    GhConcurrency = 2
    ReadyPollAttempts = 2
    UpstreamRetries = 1
    PauseCyclesMax = 1
    UnavailableMaxWait = 2
    DefaultRetryAfter = 1
    Enrich = TRUE
    MaxPages = 2
    MaxCrashes = 1
    MaxGenerations = 1
PROPERTIES
    BatchSettles
    KeepsLedger
    WorkersGetOn
CHECK_DEADLOCK FALSE

SPECIFICATION FairSpec
CONSTANTS
    b1 = b1
    b2 = b2
    u1 = u1
    u2 = u2
    Batches = {b1}
    Uuids = {u1, u2}
    Responses <- FaultyResponses
    GhConcurrency = 1
    ReadyPollAttempts = 1
    UpstreamRetries = 1
    PauseCyclesMax = 1
    UnavailableMaxWait = 2
    DefaultRetryAfter = 1
    Enrich = FALSE
    MaxPages = 2
    MaxCrashes = 1
    MaxGenerations = 2
INVARIANTS
    CommittedPagesStored
PROPERTIES
    BatchSettles
CHECK_DEADLOCK FALSE

SPECIFICATION FairSpec
CONSTANTS
    Events <- ThreeEvents
    PageSize = 1
    Unbindable <- FirstEvent
    Pulled <- SecondEvent
    OddReplies = TRUE
    MaxCrashes = 1
    Streams = {"s1"}
    MaxJobs = 2
    MaxLate = 1
INVARIANTS
    WatchTypeOK
    NoneMissed
    ResumeMissesNothing
    NothingToldInVain
    NoLostWakeup
PROPERTIES
    ToldAll
    PageComesToRest
    StreamsEnd
CHECK_DEADLOCK FALSE

SPECIFICATION WatchSpec
CONSTANTS
    Events <- ThreeEvents
    PageSize = 2
    Unbindable <- FirstEvent
    Pulled <- SecondEvent
    OddReplies = FALSE
    MaxCrashes = 0
    Streams = {"s1"}
    MaxJobs = 1
    MaxLate = 1
PROPERTY PageAtomic
CHECK_DEADLOCK FALSE

SPECIFICATION FairSpec
CONSTANTS
    a1 = a1
    a2 = a2
    i1 = i1
    i2 = i2
    Accounts = {a1, a2}
    Ips = {i1, i2}
    Replies <- RaisingReplies
    LostReplies = FALSE
    DailyCap = 1
    MaxPaid = 2
    MaxMidnights = 0
    MaxTails = 1
    MaxCrashes = 0
INVARIANTS
    PaidWithinCap
PROPERTIES
    PressEnds

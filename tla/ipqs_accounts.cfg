SPECIFICATION Spec
CONSTANTS
    a1 = a1
    a2 = a2
    i1 = i1
    i2 = i2
    Accounts = {a1, a2}
    Ips = {i1, i2}
    Replies <- AllReplies
    LostReplies = TRUE
    DailyCap = 1
    MaxPaid = 2
    MaxMidnights = 1
    MaxTails = 1
    MaxCrashes = 1
SYMMETRY Symmetric
INVARIANTS
    TypeOK
    WithinCap
    NothingForgotten

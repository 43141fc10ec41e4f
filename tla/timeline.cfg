SPECIFICATION Spec
CONSTANTS
    i1 = i1
    i2 = i2
    i3 = i3
    u1 = u1
    u2 = u2
    u3 = u3
    u4 = u4
    u5 = u5
    u6 = u6
    u7 = u7
    u8 = u8
    Ips = {i1, i2, i3}
    Uas = {u1, u2, u3, u4, u5, u6, u7, u8}
    AsnOf <- Asns
    ParseOf <- Parses
    MaxEvents = 3
    MaxAccounts = 2
INVARIANTS
    TypeOK
    BadgesAgree
    BadgesCover
    FiltersNarrow
    NoSilentReturn
CHECK_DEADLOCK FALSE

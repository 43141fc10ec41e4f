SPECIFICATION FairSpec
CONSTANTS
    p1 = p1
    p2 = p2
    i1 = i1
    i2 = i2
    r1 = r1
    Passes = {p1, p2}
    Ips = {i1, i2}
    Registries = {r1}
    RegistryOf <- Private
    OddValues = TRUE
    Interval = 1
    MaxRedirects = 1
    MaxCrashes = 1
    MaxWeeks = 1
INVARIANTS
    TypeOK
    EveryIpRecorded
PROPERTIES
    SpacedSends
    PassEnds

SPECIFICATION Spec
CONSTANTS
    p1 = p1
    p2 = p2
    i1 = i1
    i2 = i2
    r1 = r1
    Passes = {p1, p2}
    Ips = {i1, i2}
    Registries = {r1}
    RegistryOf <- Unlisted
    OddValues = FALSE
    Interval = 1
    MaxRedirects = 0
    MaxCrashes = 0
    MaxWeeks = 0
PROPERTIES
    GoodRowsStay

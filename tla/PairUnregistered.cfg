SPECIFICATION Spec
CONSTANTS
    People = {p1, p2}
    p1 = p1
    p2 = p2
    Markets = {m1}
    m1 = m1
    MaxTtl = 1
    MaxPools = 2
    MaxTime = 1
    None = None
PROPERTIES
    DepositsOnlyIfRegistered

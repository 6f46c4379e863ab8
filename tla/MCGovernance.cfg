SPECIFICATION Spec
CONSTANTS
    People = {p1, p2, p3}
    p1 = p1
    p2 = p2
    p3 = p3
    Markets = {m1}
    m1 = m1
    MaxTtl = 1
    MaxPools = 1
    MaxTime = 3
    None = None
SYMMETRY Symmetry
INVARIANTS
    TypeOK
PROPERTIES
    OwnershipMandated

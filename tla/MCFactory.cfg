SPECIFICATION Spec
CONSTANTS
    People = {p1, p2}
    p1 = p1
    p2 = p2
    Denoms <- MCDenoms
    PairTypes = {concentrated}
    concentrated = concentrated
    Codes = {pcl, other}
    Supporting = {pcl}
    pcl = pcl
    other = other
    FeeDenoms = {uosmo, usdc}
    uosmo = uosmo
    usdc = usdc
    MaxFee = 1
    MaxPools = 2
    None = None
SYMMETRY Symmetry
INVARIANTS
    TypeOK
    RegistryFaithful
    PairsKnowTheirPool
PROPERTIES
    FeePassedOn
    RegistrySpec

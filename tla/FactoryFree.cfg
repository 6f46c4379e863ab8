SPECIFICATION Spec
CONSTANTS
    People = {p1, p2}
    p1 = p1
    p2 = p2
    Denoms <- TwoDenoms
    PairTypes = {concentrated}
    concentrated = concentrated
    Codes = {pcl}
    Supporting = {pcl}
    pcl = pcl
    FeeDenoms = {uosmo, usdc}
    uosmo = uosmo
    usdc = usdc
    MaxFee = 2
    MaxPools = 1
    None = None
SYMMETRY Symmetry
INVARIANTS
    FreeWithoutParams

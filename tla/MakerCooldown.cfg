SPECIFICATION Spec
CONSTANTS
    People = {p1, p2}
    p1 = p1
    p2 = p2
    Denoms = {astro1, usdc, osmo}
    AstroDenoms = {astro1}
    astro1 = astro1
    usdc = usdc
    osmo = osmo
    Pools = {{usdc, osmo}, {osmo, astro1}}
    Cooldowns = {2}
    MaxTime = 3
    MaxAmount = 2
    MaxAssets = 2
    MaxRoutes = 2
    MaxOut = 1
    None = None
SYMMETRY Symmetry
PROPERTIES
    InstantiatedCooldownKept

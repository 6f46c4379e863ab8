SPECIFICATION Spec
CONSTANTS
    People = {p1, p2}
    p1 = p1
    p2 = p2
    Denoms = {astro, c1, c2, c3, c4, c5, c6}
    AstroDenoms = {astro, c1}
    astro = astro
    c1 = c1
    c2 = c2
    c3 = c3
    c4 = c4
    c5 = c5
    c6 = c6
    Pools = {{astro, c1}, {c1, c2}, {c2, c3, c5}, {c3, c4}, {c4, c5}, {c5, c6}, {c6, astro}}
    Cooldowns = {}
    MaxTime = 0
    MaxAmount = 0
    MaxAssets = 0
    MaxRoutes = 2
    MaxOut = 0
    None = None
SYMMETRY Symmetry
PROPERTIES
    RoutesNeverCutOff

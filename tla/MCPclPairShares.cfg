SPECIFICATION Spec
CONSTANTS
    Users = {u1}
    u1 = u1
    Pair = pair
    FeeCollector = fee_collector
    None = None
    NoOrder = NoOrder
    NoCall = NoCall
    Endowment = 5
    MinLiquidity = 2
    DecimalUnit = 10
    Limits = {1}
    MaxSupply = 5
INVARIANTS
    TrackedBalancesExact
    MinLiquidityLocked
    ReservesNeverEmpty
PROPERTIES
    WithdrawNeverDilutes
CHECK_DEADLOCK FALSE

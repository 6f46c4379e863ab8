SPECIFICATION Spec
CONSTANTS
    Users = {u1, u2}
    u1 = u1
    u2 = u2
    Pair = pair
    FeeCollector = fee_collector
    None = None
    NoOrder = NoOrder
    NoCall = NoCall
    Endowment = 2
    MinLiquidity = 1
    DecimalUnit = 100
    Limits = {0, 2}
    MaxSupply = 3
SYMMETRY Traders
INVARIANTS
    TypeOK
    SwapParamsConsumed
PROPERTIES
    LedgerSpec
    RecordsSpec
CHECK_DEADLOCK FALSE

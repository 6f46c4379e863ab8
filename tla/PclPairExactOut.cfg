SPECIFICATION Spec
CONSTANTS
    Users = {u1}
    u1 = u1
    Pair = pair
    FeeCollector = fee_collector
    None = None
    NoOrder = NoOrder
    NoCall = NoCall
    Endowment = 5
    MinLiquidity = 2
    DecimalUnit = 100
    Limits = {1}
    MaxSupply = 5
PROPERTIES
    ExactAmountOut
CHECK_DEADLOCK FALSE

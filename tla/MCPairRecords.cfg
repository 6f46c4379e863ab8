\* The bounds on blocks and operations end every behaviour.
SPECIFICATION Spec
CONSTANTS
    None = None
    Capacity = 2
    DecimalUnit = 10
    MinTrade = 2
    Deposits <- MCDeposits
    Swaps <- MCSwaps
    MaxAmount = 6
    MaxHeight = 4
    MaxPerSecond = 2
    MaxTime = 3
    MaxOperations = 6
INVARIANTS
    TypeOK
    SecondsObserved
    SmaNearMean
    AverageNeverRefused
    HistoryRight
PROPERTIES
    WindowSpec
CHECK_DEADLOCK FALSE

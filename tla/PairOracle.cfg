\* The bounds on time and trades end every behaviour.
SPECIFICATION Spec
CONSTANTS
    None = None
    Capacity = 2
    DecimalUnit = 10
    MaxVolume = 2
    MaxPerSecond = 2
    MaxTime = 2
INVARIANTS
    TradesReflected
CHECK_DEADLOCK FALSE

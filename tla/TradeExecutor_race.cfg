\* A manual close beside the listener, nothing failing.
SPECIFICATION Spec
CONSTANTS
    Listener = listener
    Tasks = {listener, r1}
    None = None
    Ttl = 1
    InitialCapital = 1000
    MaxPositionSize = 5000
    MaxTotalExposure = 10000
    MaxDailyLoss = 950
    MaxDrawdown = 1000
    CircuitBreakerDrawdown = 800
    MinTradeInterval = 1
    MaxTradesPerDay = 3
    StopLoss = 2000
    TakeProfit = 2000
    MaxPositionAge = 2
    AtrStopMultiplier = 2
    MaxStopLoss = 3000
    Prices = {7, 10}
    Predictions <- UpThenStop
    Atrs = {0}
    VolScalars = {100}
    BasePositionSize = 3000
    ChainEnabled = FALSE
    ProgramDeployed = FALSE
    LimitChoices = {}
    MaxTime = 1
    MaxFaults = 0
    MaxRequests = 1
    MaxOpens = 2
INVARIANT ClosedOnce

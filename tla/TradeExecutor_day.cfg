\* The trading loop by itself; a day is one tick.
SPECIFICATION Spec
CONSTANTS
    Listener = listener
    Tasks = {listener}
    None = None
    Ttl = 1
    InitialCapital = 1000
    MaxPositionSize = 5000
    MaxTotalExposure = 10000
    MaxDailyLoss = 700
    MaxDrawdown = 1000
    CircuitBreakerDrawdown = 800
    MinTradeInterval = 1
    MaxTradesPerDay = 2
    StopLoss = 2000
    TakeProfit = 2000
    MaxPositionAge = 2
    AtrStopMultiplier = 2
    MaxStopLoss = 3000
    Prices = {7, 10, 12}
    Predictions <- AllPredictions
    Atrs = {0, 1}
    VolScalars = {100}
    BasePositionSize = 3000
    ChainEnabled = FALSE
    ProgramDeployed = FALSE
    LimitChoices = {}
    MaxTime = 3
    MaxFaults = 0
    MaxRequests = 0
    MaxOpens = 3
INVARIANT DailyCountIsDaily

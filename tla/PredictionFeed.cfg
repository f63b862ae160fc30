\* Two requests at a time, windows of four and five candles, one failure,
\* lost connection or restart.
\* When nothing arrives any more, the exploration stops.
SPECIFICATION FairSpec
CONSTANTS
    RsiPeriod = 3
    MacdFast = 1
    MacdSlow = 2
    MacdSignal = 2
    EmaPeriod = 3
    VolatilityPeriod = 3
    VolumeAvgPeriod = 3
    MomentumPeriod = 2
    BollingerPeriod = 3
    BollingerStd = 1
    AdxPeriod = 1
    AtrPeriod = 2
    RegimeLookback = 4
    VolWindowMax = 2
    VolWindowMin = 2
    VolWindowShare = 1
    RangeLookback = 4
    RangeMin = 2
    Candles <- UpAndDown
    Limit = 4
    None = None
    Classify <- FollowRsi
    Histories <- Three
    Requests = {r1, r2}
    MaxRows = 5
    MaxRequests = 2
    MaxFaults = 1
CHECK_DEADLOCK FALSE
INVARIANT TypeOK
INVARIANT PredictionIsOfOneWindow
INVARIANT NoneLost
INVARIANT TradeRowHasDecision
INVARIANT IndicatorsMatchReference
PROPERTY ChannelImplemented
PROPERTY InboxDrains

\* Two minutes of two ticks each, a failing poll and a restart.
\* When the clock stands still and all polls are used up, the exploration stops.
SPECIFICATION FairSpec
CONSTANTS
    Prices = {4, 5, 6}
    History <- OneCandle
    MinuteLength = 2
    MaxTime = 5
    MaxPolls = 2
    MaxFaults = 1
    MaxRestarts = 1
CHECK_DEADLOCK FALSE
INVARIANT TypeOK
INVARIANT CandleIsFold
INVARIANT ClosesInRange
INVARIANT LastPollCounts
PROPERTY MinuteKept
PROPERTY MinuteIsStored

\* The history and two minutes of two ticks each, nothing failing.
\* When the clock stands still and all polls are used up, the exploration stops.
SPECIFICATION Spec
CONSTANTS
    Prices = {4, 5, 6}
    History <- OneCandle
    MinuteLength = 2
    MaxTime = 5
    MaxPolls = 2
    MaxFaults = 0
    MaxRestarts = 0
CHECK_DEADLOCK FALSE
INVARIANT OpensInRange

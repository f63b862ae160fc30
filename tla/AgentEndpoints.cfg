\* Two requests at a time, on an agent with one account besides its own; a
\* name that fits and the one of the settings, of ten bytes.
\* When all requests are served and nothing can happen on the chain any more,
\* the exploration stops.
SPECIFICATION FairSpec
CONSTANTS
    NameLengths = {10, 32}
    Misreadings <- TwoDecisions
    TTL = 1
    MaxShown = 1
    None = None
    Timeout = 2
    Interval = 1
    Authorities = {a}
    Ciphertexts = {"c"}
    Limits <- Same
    Params <- Same
    Hashes = {h}
    Outputs = {o}
    DWallets = {d}
    U64Max = 1
    U32Max = 1
    MaxComputations = 0
    Agent = a
    Message <- OneApproval
    InFlight = InFlight
    Raised = Raised
    Requests = {1, 2}
    Setups <- FullAndLess
    Polls = 2
    MaxClock = 2
    MaxRequests = 2
    MaxFaults = 1
CHECK_DEADLOCK FALSE
INVARIANT TypeOK
INVARIANT LiveDataIsFresh
INVARIANT ShownIsOnChain
INVARIANT SuccessIsReal
PROPERTY RequestsEnd

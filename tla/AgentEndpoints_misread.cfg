\* The same instance.
SPECIFICATION FairSpec
CONSTANTS
    NameLengths = {10, 32}
    Misreadings <- TwoDecisions
    TTL = 1
    MaxShown = 1
    None = None
    Timeout = 2
    Interval = 1
    Authorities = {a}
    Ciphertexts = {"c"}
    Limits <- Same
    Params <- Same
    Hashes = {h}
    Outputs = {o}
    DWallets = {d}
    U64Max = 1
    U32Max = 1
    MaxComputations = 0
    Agent = a
    Message <- OneApproval
    InFlight = InFlight
    Raised = Raised
    Requests = {1, 2}
    Setups <- FullAndLess
    Polls = 2
    MaxClock = 2
    MaxRequests = 2
    MaxFaults = 1
CHECK_DEADLOCK FALSE
INVARIANT CountersAreReal

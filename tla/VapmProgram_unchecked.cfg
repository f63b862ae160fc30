\* The same instance.
SPECIFICATION Spec
CONSTANTS
    Authorities = {a1, a2}
    c1 = c1
    c2 = c2
    Ciphertexts = {c1, c2}
    Limits <- TwoLimits
    Params <- OneParam
    Hashes = {h1, h2}
    Outputs = {o1, o2}
    DWallets = {d1, d2}
    U64Max = 2
    U32Max = 1
    MaxComputations = 2
CHECK_DEADLOCK FALSE
INVARIANT NoApprovalWithoutChecks

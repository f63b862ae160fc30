\* Two agents with at most two accounts each and three in all, and one verdict
\* of each kind.
\* When every counter is at its maximum all transactions fail: that is no
\* deadlock of the program.
SPECIFICATION Spec
CONSTANTS
    Authorities = {a1, a2}
    c1 = c1
    c2 = c2
    Ciphertexts = {c1, c2}
    Limits <- TwoLimits
    Params <- OneParam
    Hashes = {h1, h2}
    Outputs = {o1, o2}
    DWallets = {d1, d2}
    U64Max = 2
    U32Max = 1
    MaxComputations = 2
SYMMETRY Symmetry
CONSTRAINT AtMostThree
CHECK_DEADLOCK FALSE
INVARIANT TypeOK
INVARIANT SlotsPartition
INVARIANT ApprovedIsSignable
INVARIANT ResultsCompareOwnLimits
INVARIANT VerdictsAreCounted

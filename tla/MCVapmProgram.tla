--------------------------- MODULE MCVapmProgram ---------------------------
(***************************************************************************)
(* Small instances of VapmProgram: two agents with different limits, and   *)
(* trades whose parameters are one ciphertext for all three checks.        *)
(***************************************************************************)
EXTENDS VapmProgram, TLC

CONSTANTS c1, c2

TwoLimits == {[c \in Checks |-> c1],
              [c \in Checks |-> IF c = "pnl" THEN c1 ELSE c2]}
OneParam == {[c \in Checks |-> IF c = "pnl" THEN c2 ELSE c1]}

(* Bound of the exploration: proposals and decisions, of both agents       *)
AtMostThree == Cardinality(DOMAIN proposals) + Cardinality(DOMAIN decisions) <= 3

(* Wallets are interchangeable, and so are hashes, outputs and dWallets.   *)
Symmetry == Permutations(Authorities) \cup Permutations(Hashes)
              \cup Permutations(Outputs) \cup Permutations(DWallets)
=============================================================================

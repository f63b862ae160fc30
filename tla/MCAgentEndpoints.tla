-------------------------- MODULE MCAgentEndpoints --------------------------
(***************************************************************************)
(* A small instance of AgentEndpoints: one agent, whose limits and         *)
(* parameters are all the same ciphertext; everything set up, with a name  *)
(* that fits; only the key loaded, with one that does not; and with one    *)
(* thing missing.                                                          *)
(***************************************************************************)
EXTENDS AgentEndpoints

(* The three checks of VapmProgram                                         *)
Same == {[c \in {"position", "pnl", "drawdown"} |-> "c"]}

(* Of the bytes of a dWallet, beside zeros                                 *)
TwoDecisions == {[count |-> 2, approved |-> 0, rejected |-> 0]}

OneApproval == CHOOSE approval \in DWallets \X Hashes : TRUE

Full == [deployed |-> TRUE, client |-> "ready", session |-> TRUE,
         encrypting |-> TRUE, nameLength |-> 32]

FullAndLess ==
    {Full, [Full EXCEPT !.client = "keyed", !.session = FALSE, !.nameLength = 10],
     [Full EXCEPT !.deployed = FALSE], [Full EXCEPT !.client = "keyless"],
     [Full EXCEPT !.client = "disabled", !.deployed = FALSE,
          !.encrypting = FALSE]}
=============================================================================

-------------------------- MODULE BlockchainClient --------------------------
(***************************************************************************)
(* backend/services/blockchain_client.py, without the guardrail that       *)
(* TradeExecutor models: what initialize leaves, and what the methods that *)
(* never reach the network answer.  A TxResult is whether it is a success; *)
(* where nothing was sent, its error says so and success is True.          *)
(***************************************************************************)
EXTENDS Integers

VARIABLES
    deployed,       \* settings.decision_program_id is set
    client,         \* how far initialize got
    decisionCount   \* _decision_count

clientVars == <<deployed, client, decisionCount>>

(* Not enabled; without a keypair; with one, but get_balance raised; ready *)
ClientStates == {"disabled", "keyless", "keyed", "ready"}

ClientInit ==
    /\ deployed \in BOOLEAN
    /\ client \in ClientStates
    /\ decisionCount = 0

(* address is not empty, and there is an HTTP session.                     *)
HasKey == client \in {"keyed", "ready"}
IsEnabled == client # "disabled"
Initialized == client = "ready"

(* log_decision: it counts the decision and sends nothing.                 *)
LogDecisionLocally ==
    /\ decisionCount' = IF Initialized THEN decisionCount + 1 ELSE decisionCount
    /\ UNCHANGED <<deployed, client>>

(* Mutant: any status that is not an error is a success.                   *)
ConfirmedEarly(status) ==
    CASE status \in {"processed", "confirmed"} -> "success"
      [] status = "failed" -> "failure"
      [] OTHER -> "unknown"

(* What _send_and_confirm_tx makes of a signature's status.  One that was  *)
(* only processed may still be dropped.                                    *)
Confirmed(status) ==
    CASE status = "confirmed" -> "success"
      [] status = "failed" -> "failure"
      [] OTHER -> "unknown"
=============================================================================

----------------------------- MODULE AuditTrail -----------------------------
(***************************************************************************)
(* The rows a trade leaves in PostgreSQL (backend/db): _save_decision and  *)
(* _save_trade_execution of backend/services/trade_executor.py, each a     *)
(* get_session of its own.  A session that raises may have committed; the  *)
(* error is printed and the caller goes on.  There is no foreign key from  *)
(* a trade to its decision.  A decision is known by the message it was     *)
(* made on.                                                                *)
(***************************************************************************)
EXTENDS Integers, Sequences

VARIABLES
    decisionRows,   \* the decisions with a row
    tradeRows,      \* the decisions whose trade has a row
    unsaved         \* the decisions whose _save_decision raised (a history)

auditVars == <<decisionRows, tradeRows, unsaved>>

AuditInit ==
    /\ decisionRows = {}
    /\ tradeRows = {}
    /\ unsaved = {}

SaveDecision(d) ==
    /\ decisionRows' = decisionRows \cup {d}
    /\ UNCHANGED <<tradeRows, unsaved>>

SaveDecisionRaises(d) ==
    /\ decisionRows' \in {decisionRows, decisionRows \cup {d}}
    /\ unsaved' = unsaved \cup {d}
    /\ UNCHANGED tradeRows

SaveTrade(d) ==
    /\ tradeRows' = tradeRows \cup {d}
    /\ UNCHANGED <<decisionRows, unsaved>>

SaveTradeRaises(d) ==
    /\ tradeRows' \in {tradeRows, tradeRows \cup {d}}
    /\ UNCHANGED <<decisionRows, unsaved>>
=============================================================================

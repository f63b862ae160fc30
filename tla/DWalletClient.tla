---------------------------- MODULE DWalletClient ----------------------------
(***************************************************************************)
(* backend/services/dwallet_client.py: the loop of poll_message_approval.  *)
(* Times are in units of the clock of whoever composes it.                 *)
(***************************************************************************)
EXTENDS Integers

CONSTANTS
    Timeout,    \* timeout_seconds
    Interval    \* poll_interval

VARIABLES
    session     \* initialize found a dWallet, and there is an HTTP session

ASSUME DWalletAssumption == Timeout \in Nat \ {0} /\ Interval \in Nat \ {0}

DWalletInit == session \in BOOLEAN

(* Mutant: the loop does not look at the time.                             *)
PollsForever(start, now) == TRUE

(* The condition of the loop                                               *)
PollsOn(start, now) == now - start < Timeout
=============================================================================

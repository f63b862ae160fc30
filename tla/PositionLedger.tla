--------------------------- MODULE PositionLedger ---------------------------
(***************************************************************************)
(* What the position manager promises its callers, with no Redis, no       *)
(* awaits and no tasks: there is at most one position, it is bought whole  *)
(* and sold whole, and selling it moves its profit or loss into the cash   *)
(* in the same step, once.                                                 *)
(***************************************************************************)
EXTENDS Integers

CONSTANTS Prices, InitialCapital, None

VARIABLES held, cash

Init ==
    /\ held = None
    /\ cash = InitialCapital

Buy ==
    /\ held = None
    /\ held' \in [entry : Prices, size : Nat \ {0}]
    /\ cash' = cash

Sell(price) ==
    /\ held # None
    /\ cash' = cash + (price - held.entry) * held.size
    /\ held' = None

Next ==
    \/ Buy
    \/ \E price \in Prices : Sell(price)

Spec == Init /\ [][Next]_<<held, cash>>
=============================================================================

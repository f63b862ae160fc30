-------------------------- MODULE PositionManager --------------------------
(***************************************************************************)
(* backend/services/position_manager.py: the one position of the agent and *)
(* its capital.  Each operator is the part of a method that runs between   *)
(* two awaits, so open_position and close_position are two operators each: *)
(* up to the first Redis command, and up to the second.                    *)
(*                                                                         *)
(* Amounts are integers in the unit calculate_position_size rounds to, a   *)
(* millionth of a dollar and of a SOL; prices are whole dollars per SOL.   *)
(* A position's uuid is the number of positions opened so far.             *)
(***************************************************************************)
EXTENDS Runtime

CONSTANTS InitialCapital

VARIABLES
    position,   \* _position
    capital,    \* capital: cash plus the stake at its entry price
    opens       \* how many positions were ever opened (source of fresh ids)

positionVars == <<position, capital, opens>>

ASSUME CapitalAssumption == InitialCapital \in Nat \ {0}

Position == [id : Nat, size : Int, entry : Int, price : Int, since : Int]
Empty == [id |-> 0, size |-> 0, entry |-> 0, price |-> 0, since |-> 0]

IsOpen(p) == p.size > 0

(* Mutant: the guards ask Redis.                                           *)
SavedPositionOpen == store["position"] # None /\ IsOpen(store["position"])

HasPosition == IsOpen(position)

UnrealizedPnl(p) == (p.price - p.entry) * p.size

(* Mutant: the sign of the profit is wrong.                                *)
RealizedLoss(exit) == (position.entry - exit) * position.size

RealizedPnl(exit) == (exit - position.entry) * position.size

(* get_current_capital, for a capital of c                                 *)
EquityOf(c) == IF HasPosition THEN c + UnrealizedPnl(position) ELSE c
CurrentCapital == EquityOf(capital)

(* calculate_position_size, for a fraction of the capital in basis points, *)
(* rounded to the nearest unit                                             *)
SizeFor(price, pct) ==
    (2 * capital * pct + 10000 * price) \div (20000 * price)

PositionInit ==
    /\ position = Empty
    /\ capital = InitialCapital
    /\ opens = 0

(* load_from_redis in a new process, whose capital is the default again.   *)
LoadPosition ==
    /\ position' = IF store["position"] = None THEN Empty ELSE store["position"]
    /\ capital' = InitialCapital
    /\ opens' = opens

UpdatePrice(t, price) ==
    /\ HasPosition
    /\ position' = [position EXCEPT !.price = price]
    /\ Send(t, "position", position')
    /\ UNCHANGED <<capital, opens>>

OpenPosition(t, price, pct) ==
    /\ ~HasPosition
    /\ opens' = opens + 1
    /\ position' = [id |-> opens', size |-> SizeFor(price, pct),
                    entry |-> price, price |-> price, since |-> now]
    /\ Send(t, "position", position')
    /\ UNCHANGED capital

(* The position may have changed while it was saved: the log entry takes   *)
(* the id it has now.                                                      *)
LogOpen(t) ==
    /\ Send(t, "stream", [event |-> "OPEN", id |-> position.id])
    /\ UNCHANGED positionVars

(* A close logs first and forgets the position when the log has answered.  *)
LogClose(t) ==
    /\ HasPosition
    /\ Send(t, "stream", [event |-> "CLOSE", id |-> position.id])
    /\ UNCHANGED positionVars

(* Mutant: the empty position is saved but not kept.                       *)
SaveEmpty(t) ==
    /\ Send(t, "position", Empty)
    /\ UNCHANGED positionVars

ResetPosition(t) ==
    /\ position' = Empty
    /\ Send(t, "position", Empty)
    /\ UNCHANGED <<capital, opens>>

UpdateCapital(pnl) ==
    /\ capital' = capital + pnl
    /\ UNCHANGED <<position, opens>>
=============================================================================

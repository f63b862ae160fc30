-------------------------- MODULE MCTradeExecutor --------------------------
(***************************************************************************)
(* Small instances of TradeExecutor.  The fractions are larger than the    *)
(* deployed ones so that one or two trades cross every bracket and limit:  *)
(* a stake of 30% of 1000 at price 10 loses 9% of the capital at price 7   *)
(* (the breaker), and gains at price 12.                                   *)
(***************************************************************************)
EXTENDS TradeExecutor

AllPredictions == [price : Prices, signal : Signals]
UpThenStop == {[price |-> 10, signal |-> "up"], [price |-> 7, signal |-> "weak"]}

(* Limits an operator might PUT: all of them lowered                       *)
Operators == {[position |-> 1000, loss |-> 100, drawdown |-> 100]}
=============================================================================

-------------------------- MODULE MCPredictionFeed --------------------------
(***************************************************************************)
(* A small instance of PredictionFeed: the indicators with short periods,  *)
(* two candles that move in both directions, and a model that follows the  *)
(* RSI.                                                                    *)
(***************************************************************************)
EXTENDS PredictionFeed

UpAndDown == {[close |-> 4, high |-> 5, low |-> 4, volume |-> 1],
              [close |-> 6, high |-> 6, low |-> 3, volume |-> 0]}

(* One candle short of a computation, at prices that stand still           *)
Three == LET up == CHOOSE c \in UpAndDown : c.close = 4
         IN  {<<up, up, up>>}

FollowRsi(values) ==
    IF values.rsi >= 70 THEN "up" ELSE IF values.rsi < 30 THEN "down" ELSE "weak"
=============================================================================

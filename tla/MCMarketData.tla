---------------------------- MODULE MCMarketData ----------------------------
(***************************************************************************)
(* A small instance of MarketData.  The history has a candle above every   *)
(* polled price.                                                           *)
(***************************************************************************)
EXTENDS MarketData

OneCandle == {[open |-> 8, high |-> 9, low |-> 7, close |-> 8, trades |-> 0]}
=============================================================================

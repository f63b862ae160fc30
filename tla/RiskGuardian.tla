---------------------------- MODULE RiskGuardian ----------------------------
(***************************************************************************)
(* backend/services/risk_guardian.py: the risk state, the checks a trade   *)
(* must pass, and the bookkeeping after a trade.  As in PositionManager,   *)
(* an operator is the part of a method between two awaits.                 *)
(*                                                                         *)
(* Fractions are integers in basis points, rounded down.                   *)
(***************************************************************************)
EXTENDS Runtime

CONSTANTS              \* RiskConfig, captured once when the process starts
    MaxPositionSize, MaxTotalExposure, MaxDailyLoss, MaxDrawdown,
    CircuitBreakerDrawdown, MinTradeInterval, MaxTradesPerDay,
    StopLoss, TakeProfit, MaxPositionAge, AtrStopMultiplier, MaxStopLoss

VARIABLES
    risk,       \* _state
    breaker     \* _circuit_breaker_active, which is not saved

riskVars == <<risk, breaker>>

ASSUME RiskAssumption ==
    {MaxPositionSize, MaxTotalExposure, MaxDailyLoss, MaxDrawdown,
     CircuitBreakerDrawdown, MinTradeInterval, MaxTradesPerDay, StopLoss,
     TakeProfit, MaxPositionAge, AtrStopMultiplier, MaxStopLoss} \subseteq Nat

RiskState == [daily_pnl : Int, drawdown : Int, max_drawdown : Int, peak : Int,
              trades : Nat, last_trade : Int \cup {None}, enabled : BOOLEAN]

FreshRisk == [daily_pnl |-> 0, drawdown |-> 0, max_drawdown |-> 0, peak |-> 0,
              trades |-> 0, last_trade |-> None, enabled |-> TRUE]

LesserOf(x, y) == IF x < y THEN x ELSE y
GreaterOf(x, y) == IF x > y THEN x ELSE y

(* x as a fraction of y, for a y that is an amount of money in the account *)
Bps(x, y) == IF y > 0 THEN (x * 10000) \div y ELSE 0

RiskInit ==
    /\ risk = FreshRisk
    /\ breaker = FALSE

(* load_state: the snapshot, then the three keys that overrule parts of it *)
LoadedRisk ==
    LET snapshot == IF store["risk"] = None THEN FreshRisk ELSE store["risk"]
        Latest(key, field) == IF Live(key) THEN store[key].value ELSE field
    IN  [snapshot EXCEPT
            !.daily_pnl  = Latest("daily_pnl", snapshot.daily_pnl),
            !.trades     = Latest("trades_today", snapshot.trades),
            !.last_trade = Latest("last_trade", snapshot.last_trade)]

LoadRisk ==
    /\ risk' = LoadedRisk
    /\ breaker' = FALSE

-----------------------------------------------------------------------------
(* The checks                                                              *)

CooldownMet ==
    risk.last_trade # None => now - risk.last_trade >= MinTradeInterval

(* Mutant: the cooldown is not checked.                                    *)
CheckTradeNoCooldown(action, pct, exposure) ==
    /\ ~breaker
    /\ risk.enabled
    /\ pct <= MaxPositionSize
    /\ action = "BUY" => exposure + pct <= MaxTotalExposure
    /\ risk.daily_pnl >= -MaxDailyLoss
    /\ risk.drawdown <= MaxDrawdown
    /\ risk.trades < MaxTradesPerDay

CheckTrade(action, pct, exposure) ==
    /\ ~breaker
    /\ risk.enabled
    /\ pct <= MaxPositionSize
    /\ action = "BUY" => exposure + pct <= MaxTotalExposure
    /\ risk.daily_pnl >= -MaxDailyLoss
    /\ risk.drawdown <= MaxDrawdown
    /\ CooldownMet
    /\ risk.trades < MaxTradesPerDay

(* get_throttle_factor, in percent; the brackets are literals in the code  *)
Throttle ==
    CASE risk.drawdown < 200 -> 100
      [] risk.drawdown \in 200..399 -> 75
      [] risk.drawdown \in 400..599 -> 50
      [] risk.drawdown \in 600..799 -> 25
      [] OTHER -> 0

(* calculate_position_size; scalar is the volatility scalar in percent,    *)
(* clamped to half and double.                                             *)
PositionSize(base, scalar) ==
    LesserOf((base * GreaterOf(50, LesserOf(scalar, 200)) * Throttle) \div 10000,
             MaxPositionSize)

(* check_stop_loss and check_take_profit, multiplied out                   *)
StopLossHit(entry, price) == (price - entry) * 10000 <= -(StopLoss * entry)
TakeProfitHit(entry, price) == (price - entry) * 10000 >= TakeProfit * entry

(* check_stop_loss_dynamic: the distance of calculate_stop_loss_price is   *)
(* the smaller of the ATR's multiple and the capped fraction of the entry. *)
AtrStopHit(entry, price, atr) ==
    (entry - price) * 10000 >=
        LesserOf(atr * AtrStopMultiplier * 10000, entry * MaxStopLoss)

TooOld(age) == age >= MaxPositionAge

-----------------------------------------------------------------------------
(* record_trade, one operator for each Redis command it waits for          *)

RecordTime(t) ==
    /\ risk' = [risk EXCEPT !.last_trade = now]
    /\ Send(t, "last_trade", now)
    /\ UNCHANGED breaker

(* Mutant: the count is saved before it is incremented.                    *)
RecordOldCount(t) ==
    /\ risk' = [risk EXCEPT !.trades = @ + 1]
    /\ Send(t, "trades_today", risk.trades)
    /\ UNCHANGED breaker

(* Mutant: the count is read from Redis and incremented.                   *)
RecordStoredCount(t) ==
    /\ risk' = [risk EXCEPT !.trades =
                    1 + IF Live("trades_today") THEN store["trades_today"].value
                                                ELSE 0]
    /\ Send(t, "trades_today", risk'.trades)
    /\ UNCHANGED breaker

RecordCount(t) ==
    /\ risk' = [risk EXCEPT !.trades = @ + 1]
    /\ Send(t, "trades_today", risk'.trades)
    /\ UNCHANGED breaker

RecordPnl(t, pct) ==
    /\ risk' = [risk EXCEPT !.daily_pnl = @ + pct]
    /\ Send(t, "daily_pnl", risk'.daily_pnl)
    /\ UNCHANGED breaker

SaveRisk(t) ==
    /\ Send(t, "risk", risk)
    /\ UNCHANGED riskVars

(* The risk state after update_equity has taken in an equity               *)
WithEquity(equity) ==
    LET peak == IF risk.peak <= 0 THEN equity ELSE GreaterOf(risk.peak, equity)
        drawdown == IF peak > 0 THEN Bps(peak - equity, peak) ELSE risk.drawdown
    IN  [risk EXCEPT !.peak = peak,
                     !.drawdown = drawdown,
                     !.max_drawdown = GreaterOf(@, drawdown)]

Trips(r) == r.drawdown >= CircuitBreakerDrawdown /\ ~breaker

(* Mutant: trading comes back by itself when the drawdown is small again.  *)
UpdateEquityEnabling(t, equity) ==
    LET r == WithEquity(equity)
    IN  /\ risk' = [r EXCEPT !.enabled = ~Trips(r)]
        /\ breaker' = (breaker \/ Trips(r))
        /\ Send(t, "risk", risk')

(* update_equity, with trigger_circuit_breaker up to its save_state        *)
UpdateEquity(t, equity) ==
    LET r == WithEquity(equity)
    IN  /\ risk' = IF Trips(r) THEN [r EXCEPT !.enabled = FALSE] ELSE r
        /\ breaker' = (breaker \/ Trips(r))
        /\ Send(t, "risk", risk')

ResetCircuitBreaker(t) ==
    /\ breaker' = FALSE
    /\ risk' = [risk EXCEPT !.enabled = TRUE]
    /\ Send(t, "risk", risk')
=============================================================================

----------------------------- MODULE MarketData -----------------------------
(***************************************************************************)
(* backend/services/market_data.py: the loop that polls the price, the     *)
(* candle of the minute it accumulates, and the candles in PostgreSQL.     *)
(*                                                                         *)
(* pc is the await the service is suspended at: start's store of the       *)
(* history, the sleep between two polls, the three commands of _emit_tick, *)
(* the store of a closed candle, the event that announces it, and the save *)
(* of the current candle.  An exception out of any of them ends the poll.  *)
(*                                                                         *)
(* The two price sources are external.  Jupiter answers a poll with some   *)
(* price; Birdeye answers start with candles of some minutes up to the     *)
(* current one, each consistent in itself.                                 *)
(***************************************************************************)
EXTENDS Integers, Sequences

CONSTANTS
    Prices,         \* prices Jupiter can answer
    History,        \* candles Birdeye can answer
    MinuteLength,   \* a minute, in clock ticks
    MaxTime,        \* bounds of the exploration: clock ticks,
    MaxPolls,       \* polls of a minute after its first,
    MaxFaults,      \* polls that fail,
    MaxRestarts     \* restarts of the process

VARIABLES
    now,            \* the wall clock
    pc,             \* the await the service is suspended at
    tick,           \* the price and the minute of the poll in hand
    latestPrice,    \* latest_price
    candle,         \* _current_candle_start, _current_open, ...
    rows,           \* PostgreSQL: the closed candle of each minute
    taken,          \* history variable: the prices candle was built from
    faults, restarts

memory == <<pc, tick, latestPrice, candle, taken>>
vars == <<now, memory, rows, faults, restarts>>

(* Volume is always 0 for a polled candle and is left out.                 *)
Candle == [open : Nat, high : Nat, low : Nat, close : Nat, trades : Nat]

InRange(c) == c.low <= c.close /\ c.close <= c.high

ASSUME MarketAssumption ==
    /\ Prices \subseteq Nat \ {0}
    /\ History \subseteq Candle
    /\ \A c \in History : InRange(c) /\ c.low <= c.open /\ c.open <= c.high
    /\ MinuteLength \in Nat \ {0}
    /\ {MaxTime, MaxPolls, MaxFaults, MaxRestarts} \subseteq Nat

Minute(time) == time \div MinuteLength

(* _current_candle_start is 0: no candle yet                               *)
NoCandle == [start |-> 0, open |-> 0, high |-> 0, low |-> 0, close |-> 0,
             trades |-> 0]
NoTick == [price |-> 0, minute |-> 0]

Row(c) == [open |-> c.open, high |-> c.high, low |-> c.low,
           close |-> c.close, trades |-> c.trades]

(* Mutant: a conflict updates the range and not the close.                 *)
MergedKeepingClose(candles) ==
    [m \in DOMAIN rows \cup DOMAIN candles |->
        IF m \notin DOMAIN candles THEN rows[m]
        ELSE IF m \notin DOMAIN rows THEN candles[m]
        ELSE [candles[m] EXCEPT !.open = rows[m].open, !.close = rows[m].close]]

(* _store_candles: all rows in one transaction; a conflict updates every   *)
(* column but the open.                                                    *)
Merged(candles) ==
    [m \in DOMAIN rows \cup DOMAIN candles |->
        IF m \notin DOMAIN candles THEN rows[m]
        ELSE IF m \notin DOMAIN rows THEN candles[m]
        ELSE [candles[m] EXCEPT !.open = rows[m].open]]

MergedCandle == Merged([m \in {candle.start} |-> Row(candle)])

Init ==
    /\ now = MinuteLength
    /\ pc = "start"
    /\ tick = NoTick
    /\ latestPrice = 0
    /\ candle = NoCandle
    /\ rows = [m \in {} |-> 0]
    /\ taken = <<>>
    /\ faults = 0
    /\ restarts = 0

-----------------------------------------------------------------------------
(* start: what Birdeye answered, if anything, is stored, and polling       *)
(* begins.                                                                 *)
Start ==
    /\ pc = "start"
    /\ \E minutes \in SUBSET (1..Minute(now)) :
         \E candles \in [minutes -> History] : rows' = Merged(candles)
    /\ pc' = "sleep"
    /\ UNCHANGED <<now, tick, latestPrice, candle, taken, faults, restarts>>

(* _poll_price, up to _emit_tick                                           *)
Poll(price) ==
    /\ pc = "sleep"
    /\ candle.start = Minute(now) => candle.trades < MaxPolls
    /\ latestPrice' = price
    /\ tick' = [price |-> price, minute |-> Minute(now)]
    /\ pc' = "tick"
    /\ UNCHANGED <<now, candle, rows, taken, faults, restarts>>

(* A new candle, of the price in hand                                      *)
OpenCandle ==
    /\ candle' = [start |-> tick.minute, open |-> tick.price,
                  high |-> tick.price, low |-> tick.price,
                  close |-> tick.price, trades |-> 0]
    /\ taken' = <<tick.price>>
    /\ pc' = "current"

LesserOf(x, y) == IF x < y THEN x ELSE y
GreaterOf(x, y) == IF x > y THEN x ELSE y

(* Mutant: a price is either a new high or a new low.                      *)
ExtendCandleHighOrLow ==
    /\ candle' = [candle EXCEPT
                    !.high = GreaterOf(@, tick.price),
                    !.low = IF tick.price <= candle.high THEN tick.price ELSE @,
                    !.close = tick.price,
                    !.trades = @ + 1]
    /\ taken' = Append(taken, tick.price)
    /\ pc' = "current"

(* One more price for the candle of the minute                             *)
ExtendCandle ==
    /\ candle' = [candle EXCEPT !.high = GreaterOf(@, tick.price),
                                !.low = LesserOf(@, tick.price),
                                !.close = tick.price,
                                !.trades = @ + 1]
    /\ taken' = Append(taken, tick.price)
    /\ pc' = "current"

(* Mutant: a candle is closed though there is none yet.                    *)
TickEmittedClosing ==
    /\ pc = "tick"
    /\ \/ candle.start = tick.minute /\ ExtendCandle
       \/ /\ candle.start # tick.minute
          /\ pc' = "store"
          /\ UNCHANGED <<candle, taken>>
    /\ UNCHANGED <<now, tick, latestPrice, rows, faults, restarts>>

(* _accumulate_candle, up to its first await                               *)
TickEmitted ==
    /\ pc = "tick"
    /\ \/ candle.start = 0 /\ OpenCandle
       \/ candle.start = tick.minute /\ ExtendCandle
       \/ /\ candle.start \notin {0, tick.minute}
          /\ pc' = "store"
          /\ UNCHANGED <<candle, taken>>
    /\ UNCHANGED <<now, tick, latestPrice, rows, faults, restarts>>

(* Mutant: a candle of a single price is not worth a row.                  *)
CandleStoredIfMany ==
    /\ pc = "store"
    /\ rows' = IF candle.trades > 0 THEN MergedCandle ELSE rows
    /\ pc' = "publish"
    /\ UNCHANGED <<now, tick, latestPrice, candle, taken, faults, restarts>>

CandleStored ==
    /\ pc = "store"
    /\ rows' = MergedCandle
    /\ pc' = "publish"
    /\ UNCHANGED <<now, tick, latestPrice, candle, taken, faults, restarts>>

(* Mutant: the price that closed a candle is not the first of the next.    *)
CandlePublishedWithoutPrice ==
    /\ pc = "publish"
    /\ candle' = NoCandle
    /\ taken' = <<>>
    /\ pc' = "current"
    /\ UNCHANGED <<now, tick, latestPrice, rows, faults, restarts>>

(* The closed candle was announced, and the next one begins.               *)
CandlePublished ==
    /\ pc = "publish"
    /\ OpenCandle
    /\ UNCHANGED <<now, tick, latestPrice, rows, faults, restarts>>

CurrentSaved ==
    /\ pc = "current"
    /\ pc' = "sleep"
    /\ UNCHANGED <<now, tick, latestPrice, candle, rows, taken, faults, restarts>>

(* Mutant: a candle that could not be stored is given up.                  *)
PollFailedForgetting ==
    /\ faults < MaxFaults
    /\ faults' = faults + 1
    /\ pc \in {"tick", "store", "publish", "current"}
    /\ rows' = rows
    /\ IF pc = "store" THEN candle' = NoCandle /\ taken' = <<>>
                       ELSE UNCHANGED <<candle, taken>>
    /\ pc' = "sleep"
    /\ UNCHANGED <<now, tick, latestPrice, restarts>>

(* What the poll waits for raises, whether it took effect or not.          *)
(* _price_poll_loop logs the error and polls again later.                  *)
PollFailed ==
    /\ faults < MaxFaults
    /\ faults' = faults + 1
    /\ pc \in {"tick", "store", "publish", "current"}
    /\ \/ rows' = rows
       \/ pc = "store" /\ rows' = MergedCandle
    /\ pc' = "sleep"
    /\ UNCHANGED <<now, tick, latestPrice, candle, taken, restarts>>

Restart ==
    /\ restarts < MaxRestarts
    /\ restarts' = restarts + 1
    /\ pc' = "start"
    /\ tick' = NoTick
    /\ latestPrice' = 0
    /\ candle' = NoCandle
    /\ taken' = <<>>
    /\ UNCHANGED <<now, rows, faults>>

Tick ==
    /\ now < MaxTime
    /\ now' = now + 1
    /\ UNCHANGED <<memory, rows, faults, restarts>>

Continue ==
    \/ Start
    \/ TickEmitted
    \/ CandleStored
    \/ CandlePublished
    \/ CurrentSaved

Next ==
    \/ Continue
    \/ \E price \in Prices : Poll(price)
    \/ PollFailed
    \/ Restart
    \/ Tick

Spec == Init /\ [][Next]_vars

(* The event loop goes on, Jupiter answers some poll, and time passes.     *)
FairSpec ==
    /\ Spec
    /\ WF_vars(Continue)
    /\ WF_vars(\E price \in Prices : Poll(price))
    /\ WF_vars(Tick)

-----------------------------------------------------------------------------
Labels == {"start", "sleep", "tick", "store", "publish", "current"}

(* Every variable has its type, a poll in hand has a price, and a candle   *)
(* is closed only if there is one.                                         *)
TypeOK ==
    /\ now \in Nat
    /\ pc \in Labels
    /\ tick \in [price : Nat, minute : Nat]
    /\ latestPrice \in Nat
    /\ candle \in [start : Nat, open : Nat, high : Nat, low : Nat, close : Nat,
                   trades : Nat]
    /\ rows \in [DOMAIN rows -> Candle]
    /\ DOMAIN rows \subseteq Nat
    /\ taken \in Seq(Nat)
    /\ faults \in Nat
    /\ restarts \in Nat
    /\ pc \in {"store", "publish"} => candle.start # 0

(* The candle of the current minute is the fold of the prices polled in    *)
(* it, over any number of polls and failures (_accumulate_candle).         *)
CandleIsFold ==
    LET taking == DOMAIN taken
    IN  candle.start # 0 =>
          /\ taken # <<>>
          /\ candle.open = taken[1]
          /\ candle.close = taken[Len(taken)]
          /\ candle.high \in {taken[i] : i \in taking}
          /\ candle.low \in {taken[i] : i \in taking}
          /\ \A i \in taking : candle.low <= taken[i] /\ taken[i] <= candle.high
          /\ candle.trades = Len(taken) - 1

(* The close of a candle in the database is in its range, though a live    *)
(* candle and one of the history may have met there (_store_candles).      *)
ClosesInRange == \A m \in DOMAIN rows : InRange(rows[m])

(* The open of a candle in the database is in its range ("OHLCV candle     *)
(* data").                                                                 *)
OpensInRange ==
    \A m \in DOMAIN rows :
        rows[m].low <= rows[m].open /\ rows[m].open <= rows[m].high

(* While the process runs, it leaves a minute only when the candle of the  *)
(* minute is in the database, as it was accumulated: a failed store or     *)
(* announcement is tried again (_accumulate_candle).                       *)
MinuteKept ==
    [][(candle.start # 0 /\ candle'.start # candle.start /\ ~Restart) =>
        /\ candle.start \in DOMAIN rows
        /\ [rows[candle.start] EXCEPT !.open = candle.open] = Row(candle)]_vars

(* Unless something failed, the last price polled is in the candle when    *)
(* the loop sleeps (_poll_price).                                          *)
LastPollCounts ==
    (faults = 0 /\ pc = "sleep" /\ latestPrice # 0) =>
        candle.start # 0 /\ candle.close = latestPrice

(* A minute that was polled, and is over before the clock stops, gets its  *)
(* candle stored, or the process restarts.                                 *)
MinuteIsStored ==
    \A m \in 1..(Minute(MaxTime) - 1) :
        candle.start = m ~> (m \in DOMAIN rows \/ candle.start = 0)
=============================================================================

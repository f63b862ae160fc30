----------------------------- MODULE Indicators -----------------------------
(***************************************************************************)
(* backend/core/indicators.py: the technical indicators, as functions of a *)
(* window of candles, the oldest first.                                    *)
(*                                                                         *)
(* Ratios are percentages rounded down (100 is the code's 1.0, and the RSI *)
(* and the ADX are percentages already).  An exponential moving average is *)
(* exact: as alpha is 2 / (p + 1), its k-th value is an integer over       *)
(* (p + 1)^(k - 1), and Ema is that integer.  The square root in a         *)
(* standard deviation is never taken: deviations are compared by their     *)
(* squares.  The 1e-10 that compute_adx adds to its denominators only      *)
(* turns 0/0 into 0.                                                       *)
(***************************************************************************)
EXTENDS Integers, Sequences, SequencesExt

CONSTANTS
    RsiPeriod, MacdFast, MacdSlow, MacdSignal, EmaPeriod,
    VolatilityPeriod, VolumeAvgPeriod, MomentumPeriod, BollingerPeriod,
    BollingerStd, AdxPeriod, AtrPeriod, RegimeLookback,
    VolWindowMax, VolWindowMin, VolWindowShare, \* 20, 5 and 5
    RangeLookback, RangeMin                     \* 50 and 5

Periods == {RsiPeriod, MacdFast, MacdSlow, MacdSignal, EmaPeriod,
            VolatilityPeriod, VolumeAvgPeriod, MomentumPeriod,
            BollingerPeriod, BollingerStd, AdxPeriod, AtrPeriod,
            RegimeLookback, VolWindowMax, VolWindowMin, VolWindowShare,
            RangeLookback, RangeMin}

ASSUME IndicatorAssumption == Periods \subseteq Nat \ {0}

(* MIN_CANDLES                                                             *)
MinCandles == Max({MacdSlow + MacdSignal, RegimeLookback})

(* What the periods of the code satisfy: the RSI (14) smooths over more    *)
(* than one change and has enough of them, and so has the volatility       *)
(* regime (a lookback of 100, windows of at least 5, a fifth of the        *)
(* returns).                                                               *)
ASSUME PeriodsAssumption ==
    /\ 1 < RsiPeriod /\ RsiPeriod < MinCandles
    /\ VolWindowMin <= VolWindowMax
    /\ VolWindowMin * VolWindowShare < RegimeLookback

Closes(w) == [i \in DOMAIN w |-> w[i].close]
Highs(w) == [i \in DOMAIN w |-> w[i].high]
Lows(w) == [i \in DOMAIN w |-> w[i].low]
Volumes(w) == [i \in DOMAIN w |-> w[i].volume]

(* np.diff, and x[-n:]                                                     *)
Diff(x) == [i \in 1..Len(x) - 1 |-> x[i + 1] - x[i]]
LastOf(x, n) == SubSeq(x, Len(x) - n + 1, Len(x))
Absolute(n) == IF n < 0 THEN -n ELSE n

(* b to the n-th, as a recursive function                                  *)
Power(b, n) ==
    LET pow[k \in 0..n] == IF k = 0 THEN 1 ELSE b * pow[k - 1]
    IN  pow[n]

Percent(n, d) == (100 * n) \div d

(* Mutant: the average starts at zero instead of at the first value.       *)
EmaFromZero(x, p) ==
    LET e[k \in 1..Len(x)] ==
            IF k = 1 THEN 0
                     ELSE 2 * Power(p + 1, k - 2) * x[k] + (p - 1) * e[k - 1]
    IN  e

(* ema, its k-th value times (p + 1)^(k - 1)                               *)
Ema(x, p) ==
    LET e[k \in 1..Len(x)] ==
            IF k = 1 THEN x[1]
                     ELSE 2 * Power(p + 1, k - 2) * x[k] + (p - 1) * e[k - 1]
    IN  e

LastEma(x, p) == Ema(x, p)[Len(x)]

Gains(x) == [i \in DOMAIN x |-> Max({x[i], 0})]
Losses(x) == [i \in DOMAIN x |-> Max({-x[i], 0})]

(* 100 - 100 / (1 + gain / loss); without a loss, 100 by definition.       *)
Rsi(closes) ==
    LET gain == LastEma(Gains(Diff(closes)), RsiPeriod)
        loss == LastEma(Losses(Diff(closes)), RsiPeriod)
    IN  IF Len(closes) < RsiPeriod + 1 THEN 50
        ELSE IF loss = 0 THEN 100
        ELSE Percent(gain, gain + loss)

(* The scale of the MACD line: its k-th value is over MacdScale^(k - 1).   *)
MacdScale == (MacdFast + 1) * (MacdSlow + 1)

(* The fast average minus the slow one, all values over one denominator    *)
MacdLine(closes) ==
    [k \in DOMAIN closes |->
        (Ema(closes, MacdFast)[k] * Power(MacdSlow + 1, k - 1)
            - Ema(closes, MacdSlow)[k] * Power(MacdFast + 1, k - 1))
        * Power(MacdScale, Len(closes) - k)]

(* MACD, signal and histogram, in percent of the price                     *)
Macd(closes) ==
    LET n == Len(closes)
        smoothing == Power(MacdSignal + 1, n - 1)
        unit == Power(MacdScale, n - 1) * smoothing * closes[n]
        line == MacdLine(closes)[n] * smoothing
        signal == LastEma(MacdLine(closes), MacdSignal)
    IN  IF n < MacdSlow + MacdSignal
          THEN [macd |-> 0, signal |-> 0, histogram |-> 0]
          ELSE [macd |-> Percent(line, unit),
                signal |-> Percent(signal, unit),
                histogram |-> Percent(line - signal, unit)]

EmaRatio(closes) ==
    LET n == Len(closes)
    IN  IF n < EmaPeriod THEN 100
        ELSE Percent(closes[n] * Power(EmaPeriod + 1, n - 1),
                     LastEma(closes, EmaPeriod))

(* np.diff(closes) / closes[:-1]                                           *)
Returns(closes) == [i \in 1..Len(closes) - 1 |->
                        Percent(closes[i + 1] - closes[i], closes[i])]

(* The variance of x, times the square of its length                       *)
Spread(x) == Len(x) * SumFunction([i \in DOMAIN x |-> x[i] * x[i]])
                - SumFunction(x) * SumFunction(x)

(* The square of compute_volatility, times that of the period              *)
Volatility(closes) ==
    IF Len(closes) < VolatilityPeriod + 1 THEN 0
    ELSE Spread(LastOf(Returns(closes), VolatilityPeriod))

(* The average is over the volumes before the current one; with exactly    *)
(* VolumeAvgPeriod of them the slice is one shorter.                       *)
VolumeSpike(volumes) ==
    LET n == Len(volumes)
        past == SubSeq(volumes, Max({1, n - VolumeAvgPeriod}), n - 1)
        total == SumFunction(past)
    IN  IF n < VolumeAvgPeriod \/ total = 0 THEN 100
        ELSE Percent(volumes[n] * Len(past), total)

Momentum(closes) ==
    LET n == Len(closes)
        past == closes[n - MomentumPeriod]
    IN  IF n < MomentumPeriod + 1 THEN 0
        ELSE Percent(closes[n] - past, past)

(* The position within the bands is z / BollingerStd for the z-score z of  *)
(* the close, clipped to [-1, 1]: -1 and 1 beyond the bands, 0 within.     *)
BollingerPosition(closes) ==
    LET x == LastOf(closes, BollingerPeriod)
        off == BollingerPeriod * closes[Len(closes)] - SumFunction(x)
    IN  IF \/ Len(closes) < BollingerPeriod
           \/ Spread(x) = 0
           \/ off * off < BollingerStd * BollingerStd * Spread(x)
          THEN 0
          ELSE IF off > 0 THEN 1 ELSE -1

TrueRange(highs, lows, closes) ==
    [i \in 1..Len(closes) - 1 |->
        Max({highs[i + 1] - lows[i + 1],
             Absolute(highs[i + 1] - closes[i]),
             Absolute(lows[i + 1] - closes[i])})]

Atr(highs, lows, closes) ==
    LET n == Len(closes)
    IN  IF n < AtrPeriod + 1 THEN 0
        ELSE LastEma(TrueRange(highs, lows, closes), AtrPeriod)
                \div Power(AtrPeriod + 1, n - 2)

(* Directional movement: the part of up that exceeds down and zero         *)
Movement(up, down) ==
    [i \in DOMAIN up |-> IF up[i] > down[i] /\ up[i] > 0 THEN up[i] ELSE 0]

(* The true range cancels out of DX; flat prices give 0.                   *)
Adx(highs, lows, closes) ==
    LET n == Len(closes)
        up == Diff(highs)
        down == [i \in DOMAIN up |-> -Diff(lows)[i]]
        plus == Ema(Movement(up, down), AdxPeriod)
        minus == Ema(Movement(down, up), AdxPeriod)
        dx == [i \in DOMAIN up |->
                IF plus[i] + minus[i] = 0 THEN 0
                ELSE Percent(Absolute(plus[i] - minus[i]), plus[i] + minus[i])]
    IN  IF n < 2 * AdxPeriod + 1 THEN 25
        ELSE LastEma(dx, AdxPeriod) \div Power(AdxPeriod + 1, n - 2)

(* The window of the rolling volatility over the given number of returns   *)
VolWindow(returns) == Min({VolWindowMax, returns \div VolWindowShare})

(* The rolling volatilities: of each window, at the return it ends with    *)
RollingVolatility(returns) ==
    LET size == VolWindow(Len(returns))
    IN  [i \in size..Len(returns) |-> Spread(SubSeq(returns, i - size + 1, i))]

(* The windows that were at most as volatile as the current one            *)
AtMostCurrent(returns) ==
    LET vol == RollingVolatility(returns)
    IN  {i \in DOMAIN vol : vol[i] <= vol[Len(returns)]}

(* The share of the rolling volatilities that are at most the current one  *)
VolatilityRegime(closes) ==
    LET returns == Returns(closes)
    IN  IF \/ Len(closes) < RegimeLookback
           \/ VolWindow(Len(returns)) < VolWindowMin
          THEN 50
          ELSE Percent(Cardinality(AtMostCurrent(returns)),
                       Cardinality(DOMAIN RollingVolatility(returns)))

(* The mean of the last changes of the returns                             *)
PriceAcceleration(closes) ==
    LET last == LastOf(Diff(Returns(closes)),
                       Min({MomentumPeriod, Len(closes) - 2}))
    IN  IF Len(closes) < 2 * MomentumPeriod THEN 0
        ELSE SumFunction(last) \div Len(last)

(* The position before it is clipped to [-100, 100]                        *)
RawRangePosition(highs, lows, closes) ==
    LET n == Min({RangeLookback, Len(closes)})
        high == Max(Range(LastOf(highs, n)))
        low == Min(Range(LastOf(lows, n)))
    IN  IF n < RangeMin \/ high = low THEN 0
        ELSE Percent(2 * (closes[Len(closes)] - low), high - low) - 100

RangePosition(highs, lows, closes) ==
    Max({-100, Min({100, RawRangePosition(highs, lows, closes)})})

(* compute_all_features with include_regime; fewer than MinCandles candles *)
(* are an error, which its caller excludes.                                *)
AllFeatures(w) ==
    LET closes == Closes(w)
        highs == Highs(w)
        lows == Lows(w)
    IN  [price |-> closes[Len(w)],
         rsi |-> Rsi(closes),
         macd |-> Macd(closes),
         ema_ratio |-> EmaRatio(closes),
         volatility |-> Volatility(closes),
         volume_spike |-> VolumeSpike(Volumes(w)),
         momentum |-> Momentum(closes),
         bollinger_position |-> BollingerPosition(closes),
         adx |-> Adx(highs, lows, closes),
         atr |-> Atr(highs, lows, closes),
         volatility_regime |-> VolatilityRegime(closes),
         price_acceleration |-> PriceAcceleration(closes),
         range_position |-> RangePosition(highs, lows, closes)]

(***************************************************************************)
(* Reference definitions                                                   *)
(***************************************************************************)

(* The moving average as the weighted mean it is meant to be               *)
WeightedMean(x, p) ==
    LET n == Len(x)
    IN  Power(p - 1, n - 1) * x[1]
            + SumFunction([i \in 2..n |->
                    2 * Power(p - 1, n - i) * Power(p + 1, i - 2) * x[i]])

(* The prices upside down                                                  *)
Mirrored(x) == [i \in DOMAIN x |-> Max(ToSet(x)) + Min(ToSet(x)) - x[i]]
=============================================================================

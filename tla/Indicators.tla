----------------------------- MODULE Indicators -----------------------------
(***************************************************************************)
(* calculate_indicators, as far as a decision depends on it.  The floating *)
(* point values are integers in a small unit, rounded down to it.  The     *)
(* Bollinger bands and the volume average are only shown to the reviewer   *)
(* and left out.                                                           *)
(***************************************************************************)
EXTENDS Integers, Sequences, Functions

CONSTANTS
  Unit,        \* denominator of a ratio
  Periods      \* the periods of the indicators

PeriodNames ==
  {"emaFast", "emaSlow", "rsi", "macdFast", "macdSlow", "macdSignal",
   "bollinger", "atr", "volume"}

ASSUME PeriodsAssumption ==
  /\ Unit \in Nat \ {0}
  /\ Periods \in [PeriodNames -> Nat \ {0}]
  /\ Periods.macdFast <= Periods.macdSlow

\* The least number of candles every indicator can be computed of.
MinimumCandles ==
  LET needed == {Periods.emaFast, Periods.emaSlow, Periods.rsi + 1,
                 Periods.macdSlow + Periods.macdSignal - 1,
                 Periods.bollinger, Periods.atr + 1, Periods.volume}
  IN  CHOOSE n \in needed : \A m \in needed : m <= n

Sum(values) == FoldFunction(LAMBDA x, y : x + y, 0, values)

Mean(values, period) == Sum(SubSeq(values, 1, period)) \div period

\* _ema: from the mean of the first values on, one value per further one
Ema(values, period) ==
  LET ema[n \in period..Len(values)] ==
        IF n = period THEN Mean(values, period)
        ELSE LET before == ema[n - 1]
             IN  before + ((values[n] - before) * 2) \div (period + 1)
  IN  ema

\* Wilder's smoothing, of the gains, the losses and the true ranges
Smoothed(values, period) ==
  LET smoothed[n \in period..Len(values)] ==
        IF n = period THEN Mean(values, period)
        ELSE ((period - 1) * smoothed[n - 1] + values[n]) \div period
  IN  smoothed[Len(values)]

Abs(x) == IF x < 0 THEN -x ELSE x
Gain(x) == IF x > 0 THEN x ELSE 0

Changes(values) == [n \in 1..(Len(values) - 1) |-> values[n + 1] - values[n]]

\* Mutant: the gains are divided by the losses, not by both.
OverLosses(gain, loss) == (100 * gain) \div loss

Share(gain, loss) == (100 * gain) \div (gain + loss)

\* _rsi
Rsi(values) ==
  LET changes == Changes(values)
      gain == Smoothed([n \in DOMAIN changes |-> Gain(changes[n])], Periods.rsi)
      loss == Smoothed([n \in DOMAIN changes |-> Gain(-changes[n])], Periods.rsi)
  IN  IF loss = 0 THEN (IF gain > 0 THEN 100 ELSE 50)
                  ELSE Share(gain, loss)

\* _atr
Atr(candles) ==
  LET widest(n) ==
        LET before == candles[n].close
            candle == candles[n + 1]
            ranges == {candle.high - candle.low, Abs(candle.high - before),
                       Abs(candle.low - before)}
        IN  CHOOSE r \in ranges : \A other \in ranges : other <= r
  IN  Smoothed([n \in 1..(Len(candles) - 1) |-> widest(n)], Periods.atr)

\* The MACD line, from the first candle both averages exist for.
Macd(values) ==
  LET fast == Ema(values, Periods.macdFast)
      slow == Ema(values, Periods.macdSlow)
      before == Periods.macdSlow - 1
  IN  [n \in 1..(Len(values) - before) |-> fast[n + before] - slow[n + before]]

VolumeRatio(volumes) ==
  LET total == Sum(SubSeq(volumes, Len(volumes) - Periods.volume + 1, Len(volumes)))
  IN  IF total = 0 THEN 0
      ELSE (volumes[Len(volumes)] * Periods.volume * Unit) \div total

\* Of at least MinimumCandles candles.
Snapshot(candles) ==
  LET n == Len(candles)
      closes == [i \in 1..n |-> candles[i].close]
      macd == Macd(closes)
  IN  [close |-> closes[n],
       fast |-> Ema(closes, Periods.emaFast)[n],
       slow |-> Ema(closes, Periods.emaSlow)[n],
       rsi |-> Rsi(closes),
       macd |-> macd[Len(macd)],
       macdSignal |-> Ema(macd, Periods.macdSignal)[Len(macd)],
       atr |-> Atr(candles),
       volumeRatio |-> VolumeRatio([i \in 1..n |-> candles[i].volume])]
=============================================================================

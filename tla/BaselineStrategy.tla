-------------------------- MODULE BaselineStrategy --------------------------
(***************************************************************************)
(* classify_regime and BaselineStrategy, on the indicators of a timeframe: *)
(* a snapshot as Indicators makes it, with the highest high and the lowest *)
(* low of the candles a breakout must leave behind.                        *)
(***************************************************************************)
EXTENDS Indicators, FiniteSetsExt

CONSTANTS
  MinimumHistory,    \* minimum_history
  BreakoutLookback,  \* breakout_lookback
  BreakoutVolume,    \* breakout_volume_ratio
  PullbackDistance,  \* pullback_atr_distance
  HighVolatility,    \* high_volatility_atr_fraction
  TrendSpread        \* trend_ema_spread_fraction

ASSUME StrategyAssumption ==
  /\ MinimumHistory \in Nat /\ MinimumHistory >= MinimumCandles
  /\ BreakoutLookback \in Nat \ {0}
  /\ BreakoutVolume \in Nat /\ PullbackDistance \in Nat
  /\ HighVolatility \in Nat /\ TrendSpread \in Nat

Snapshots ==
  [close : Nat \ {0}, fast : Int, slow : Int, rsi : 0..100, macd : Int,
   macdSignal : Int, atr : Nat, volumeRatio : Nat]

\* classify_regime
Volatile(s) == s.atr * Unit >= s.close * HighVolatility

Trending(s) == ~Volatile(s) /\ Abs(s.fast - s.slow) * Unit >= s.close * TrendSpread

Bullish(s) == s.fast > s.slow
Bearish(s) == s.fast < s.slow

VolumeConfirmed(s) == s.volumeRatio >= BreakoutVolume

NearFastEma(s) == Abs(s.close - s.fast) * Unit <= s.atr * PullbackDistance

\* The two ways to go long, and to go short; "left behind" are the extremes
\* of the candles before.
LongBreakout(s, high) == s.close > high /\ VolumeConfirmed(s) /\ Bullish(s)
ShortBreakout(s, low) == s.close < low /\ VolumeConfirmed(s) /\ Bearish(s)

LongPullback(s) ==
  Trending(s) /\ NearFastEma(s) /\ Bullish(s) /\ s.rsi \in 40..65 /\ s.macd >= s.macdSignal

\* Mutant: the band of the longs is used for the shorts.
ShortInLongBand(s) ==
  Trending(s) /\ NearFastEma(s) /\ Bearish(s) /\ s.rsi \in 40..65 /\ s.macd <= s.macdSignal

ShortPullback(s) ==
  Trending(s) /\ NearFastEma(s) /\ Bearish(s) /\ s.rsi \in 35..60 /\ s.macd <= s.macdSignal

\* BaselineStrategy.evaluate, once it knows the indicators
SideOf(s, high, low) ==
  CASE Volatile(s) -> "NO_TRADE"
    [] ~Volatile(s) /\ (LongBreakout(s, high) \/ LongPullback(s)) -> "LONG"
    [] ~Volatile(s) /\ (ShortBreakout(s, low) \/ ShortPullback(s)) -> "SHORT"
    [] OTHER -> "NO_TRADE"

\* evaluate raises on fewer candles.
EnoughHistory(candles) ==
  Len(candles) >= MinimumHistory /\ Len(candles) > BreakoutLookback

\* The candles a breakout must leave behind: those before the last one.
Previous(candles) ==
  {candles[i] : i \in (Len(candles) - BreakoutLookback)..(Len(candles) - 1)}

PreviousHigh(candles) == Max({candle.high : candle \in Previous(candles)})
PreviousLow(candles) == Min({candle.low : candle \in Previous(candles)})

Evaluate(candles) ==
  SideOf(Snapshot(candles), PreviousHigh(candles), PreviousLow(candles))

\* Mutant: the other timeframes need only point the same way.
PointsSameWay(side, s) == IF side = "LONG" THEN Bullish(s) ELSE Bearish(s)

\* What evaluate_timeframes asks of every other timeframe.
Confirms(side, s) ==
  Trending(s) /\ (IF side = "LONG" THEN Bullish(s) ELSE Bearish(s))

-----------------------------------------------------------------------------
(* The market turned upside down around its last close.                    *)

Opposite(side) ==
  CASE side = "LONG" -> "SHORT" [] side = "SHORT" -> "LONG" [] OTHER -> side

Turned(price, s) == 2 * s.close - price

Mirrored(s) ==
  [s EXCEPT !.fast = Turned(s.fast, s), !.slow = Turned(s.slow, s),
            !.rsi = 100 - s.rsi, !.macd = -s.macd, !.macdSignal = -s.macdSignal]
=============================================================================

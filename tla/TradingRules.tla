---------------------------- MODULE TradingRules ----------------------------
(***************************************************************************)
(* The pure trading rules the components share: the limits of Settings,    *)
(* the guardrail of RiskEngine and the fill model of the paper broker.     *)
(*                                                                         *)
(* Time is the index of an hourly candle: candle k is the k-th to close    *)
(* after the model starts and 0 stands for the last one before that.       *)
(* Decimals are integers in a small unit; a rate r stands for r/Unit, and  *)
(* an amount scaled by a rate is rounded down to that unit.  Comparisons   *)
(* with a limit are cross-multiplied, so no rounding enters a decision.    *)
(***************************************************************************)
EXTENDS OrderIntents

CONSTANTS
  Unit,              \* denominator of every rate
  FeeRate,           \* taker fee
  Slippage,          \* adverse slippage of a fill
  RiskPerTrade,      \* Settings.risk_per_trade
  PositionFraction,  \* Settings.max_position_fraction
  DailyLossLimit,    \* Settings.daily_loss_limit
  MaxLeverage,       \* Settings.max_leverage
  MaxOpenPositions,  \* Settings.max_open_positions
  StopAtrMultiple,   \* stop distance in ATRs
  TargetRiskReward,  \* target distance in stop distances
  DayLength,         \* candles per UTC day
  InitialEquity,     \* --initial-equity
  Candles,           \* the shapes a candle may have
  Atrs,              \* the ATR values a signal may carry
  None               \* Python's None

Price == Nat \ {0}

ASSUME RatesAssumption ==
  /\ Unit \in Nat \ {0}
  /\ FeeRate \in Nat
  /\ Slippage \in Nat /\ Slippage < Unit

\* Settings.validate: risk in (0, 2%], fraction in (0, 50%], leverage in
\* (0, 3], daily loss in (0, 5%], one to five positions; the program does not
\* start with others.
ValidSettings ==
  /\ RiskPerTrade \in Nat \ {0} /\ 50 * RiskPerTrade <= Unit
  /\ PositionFraction \in Nat \ {0} /\ 2 * PositionFraction <= Unit
  /\ MaxLeverage \in Nat \ {0} /\ MaxLeverage <= 3 * Unit
  /\ DailyLossLimit \in Nat \ {0} /\ 20 * DailyLossLimit <= Unit
  /\ MaxOpenPositions \in 1..5

ASSUME SettingsAssumption == ValidSettings

ASSUME RunnerAssumption ==
  /\ StopAtrMultiple \in Nat \ {0}
  /\ TargetRiskReward \in Nat \ {0}
  /\ DayLength \in Nat \ {0}
  /\ InitialEquity \in Nat \ {0}

\* validate_candles: positive prices, the open and the close between the low
\* and the high.
ASSUME CandlesAssumption ==
  /\ Candles \subseteq [open : Price, high : Price, low : Price, close : Price]
  /\ \A c \in Candles : /\ c.low <= c.open /\ c.open <= c.high
                        /\ c.low <= c.close /\ c.close <= c.high

ASSUME AtrsAssumption == Atrs \subseteq Nat

ASSUME NoneAssumption == None \notin Nat

Sides == {"LONG", "SHORT"}

Of(amount, rate) == (amount * rate) \div Unit

Least(x, y) == IF x <= y THEN x ELSE y
Greatest(x, y) == IF x <= y THEN y ELSE x

Day(k) == k \div DayLength

Direction(side) == IF side = "LONG" THEN 1 ELSE -1

\* What a strategy may answer when it is asked on candle at, other than
\* NO_TRADE, which is None.
Signals(at) == [side : Sides, atr : Atrs, at : {at}]

-----------------------------------------------------------------------------
(* RiskEngine.evaluate: proposal is [side, entry, stop, leverage], account *)
(* is [equity, dailyPnl, openPositions].                                   *)

StopDistance(proposal) == Greatest(proposal.entry - proposal.stop,
                                   proposal.stop - proposal.entry)

\* The checks made before the daily loss is looked at.
Admissible(proposal, account) ==
  /\ account.equity > 0
  /\ proposal.entry > 0 /\ proposal.stop > 0
  /\ proposal.leverage > 0 /\ proposal.leverage <= MaxLeverage
  /\ account.openPositions < MaxOpenPositions

\* Mutant: the sign of the loss is forgotten.
DailyGainReached(account) ==
  account.dailyPnl * Unit >= account.equity * DailyLossLimit

DailyLossReached(account) ==
  account.dailyPnl * Unit <= -(account.equity * DailyLossLimit)

StopProtects(proposal) ==
  IF proposal.side = "LONG" THEN proposal.stop < proposal.entry
                            ELSE proposal.stop > proposal.entry

Quantity(proposal, account) ==
  Least(Of(account.equity, RiskPerTrade) \div StopDistance(proposal),
        Of(account.equity, PositionFraction) \div proposal.entry)

Approved(proposal, account) ==
  /\ Admissible(proposal, account)
  /\ ~DailyLossReached(account)
  /\ StopProtects(proposal)
  /\ Quantity(proposal, account) > 0

-----------------------------------------------------------------------------
(* The fill model.                                                         *)

Slipped(price, side, entering) ==
  IF (side = "LONG") = entering THEN Of(price, Unit + Slippage)
                                ELSE Of(price, Unit - Slippage)

StopHit(position, candle) ==
  IF position.side = "LONG" THEN candle.low <= position.stop
                            ELSE candle.high >= position.stop

TargetHit(position, candle) ==
  IF position.side = "LONG" THEN candle.high >= position.target
                            ELSE candle.low <= position.target

\* A candle that opens beyond the level fills at its open: a gap hurts a
\* stop and helps a target.
ExitLevel(position, candle) ==
  LET level == IF StopHit(position, candle) THEN position.stop ELSE position.target
  IN  IF StopHit(position, candle) = (position.side = "LONG")
      THEN Least(candle.open, level)
      ELSE Greatest(candle.open, level)
=============================================================================

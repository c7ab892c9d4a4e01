----------------------------- MODULE Backtester -----------------------------
(***************************************************************************)
(* Backtester.run, one step per candle: enter the queued signal at the     *)
(* open, pay the funding, look for an exit, mark the equity, ask the       *)
(* strategy; after the last candle close what is open.  The candles are    *)
(* given, what the strategy and the funding history answer is any value    *)
(* they may take.  Trades are summed up as in PaperBroker.  WalkForward    *)
(* starts further runs, on candles of its choice.                          *)
(***************************************************************************)
EXTENDS TradingRules, SequencesExt

CONSTANTS
  Length,         \* candles of the run
  MinHistory,     \* the strategy's minimum_history
  FundingRates    \* funding rates a candle may carry

ASSUME LengthAssumption ==
  /\ MinHistory \in Nat \ {0}
  /\ Length \in Nat /\ Length > MinHistory
  /\ FundingRates \subseteq Int

VARIABLES
  candles, index, cash, position, pending, trades, curve

vars == <<candles, index, cash, position, pending, trades, curve>>

Holdings ==
  [side : Sides, quantity : Nat \ {0}, entry : Nat, stop : Price,
   target : Price, time : Nat, fee : Nat, funding : Int]

ASSUME NoHoldingAssumption == None \notin Holdings

\* run raises an error when there are no more candles than the strategy needs.
Enough(run) == Len(run) > MinHistory

TypeOK ==
  /\ candles \in Seq(Candles) /\ Enough(candles)
  /\ index \in 0..Len(candles) + 1
  /\ cash \in Int
  /\ curve \in Seq(Int) /\ Len(curve) = Least(index, Len(candles))
  /\ position = None \/ position \in Holdings
  /\ pending = None \/ pending \in Signals(index)
  /\ trades \in [net : Int, last : Nat]

Fresh ==
  [index |-> 0, cash |-> InitialEquity, curve |-> <<>>, position |-> None,
   pending |-> None, trades |-> [net |-> 0, last |-> 0]]

Init ==
  /\ candles \in [1..Length -> Candles]
  /\ index = Fresh.index
  /\ cash = Fresh.cash /\ curve = Fresh.curve
  /\ position = Fresh.position /\ pending = Fresh.pending
  /\ trades = Fresh.trades

-----------------------------------------------------------------------------
(* The parts of one candle's step, on accounts [cash, position, trades]    *)

StopAway(signal) == signal.atr * StopAtrMultiple

EntryAt(signal, candle) == Slipped(candle.open, signal.side, TRUE)

\* Mutant: the position is sized on the open, not on the slipped entry.
SizeOnOpen(signal, candle, equity) ==
  Least(Of(equity, RiskPerTrade) \div StopAway(signal),
        Of(equity, PositionFraction) \div candle.open)

Size(signal, candle, equity) ==
  Least(Of(equity, RiskPerTrade) \div StopAway(signal),
        Of(equity, PositionFraction) \div EntryAt(signal, candle))

\* The holding a signal asks for: its levels are around the slipped entry.
Holding(signal, candle, equity, k) ==
  LET entry == EntryAt(signal, candle)
      away == Direction(signal.side) * StopAway(signal)
      quantity == Size(signal, candle, equity)
  IN  [side |-> signal.side, quantity |-> quantity, entry |-> entry,
       stop |-> entry - away, target |-> entry + away * TargetRiskReward,
       time |-> k, fee |-> Of(entry * quantity, FeeRate), funding |-> 0]

\* Mutant: the target is not checked.
HoldsAnyTarget(signal, candle, equity) ==
  /\ StopAway(signal) > 0
  /\ Size(signal, candle, equity) > 0
  /\ Holding(signal, candle, equity, 0).stop > 0

Holds(signal, candle, equity) ==
  /\ StopAway(signal) > 0
  /\ Size(signal, candle, equity) > 0
  /\ LET holding == Holding(signal, candle, equity, 0)
     IN  holding.stop > 0 /\ holding.target > 0

Entered(account, signal, candle, k) ==
  IF /\ signal # None /\ account.position = None
     /\ Holds(signal, candle, account.cash)
  THEN LET holding == Holding(signal, candle, account.cash, k)
       IN  [account EXCEPT !.cash = @ - holding.fee, !.position = holding]
  ELSE account

Funded(account, rate) ==
  IF account.position = None \/ rate = None THEN account
  ELSE LET held == account.position
           payment == -(Of(Direction(held.side) * held.entry * held.quantity, rate))
       IN  [account EXCEPT !.cash = @ + payment, !.position.funding = @ + payment]

\* Mutant: funding is left out of the trade.
NetUnfunded(gross, exitFee, held) == gross - held.fee - exitFee

Net(gross, exitFee, held) == gross - held.fee - exitFee + held.funding

\* _close_position at a price, and what run does with the trade
ClosedAt(account, price, k) ==
  LET held == account.position
      gross == Direction(held.side) * (price - held.entry) * held.quantity
      exitFee == Of(price * held.quantity, FeeRate)
  IN  [cash |-> account.cash + gross - exitFee,
       position |-> None,
       trades |-> [net |-> account.trades.net + Net(gross, exitFee, held), last |-> k]]

Exited(account, candle, k) ==
  LET held == account.position
  IN  IF held # None /\ (StopHit(held, candle) \/ TargetHit(held, candle))
      THEN ClosedAt(account, Slipped(ExitLevel(held, candle), held.side, FALSE), k)
      ELSE account

Marked(account, price) ==
  LET held == account.position
  IN  IF held = None THEN account.cash
      ELSE account.cash + Direction(held.side) * (price - held.entry) * held.quantity

-----------------------------------------------------------------------------

Account == [cash |-> cash, position |-> position, trades |-> trades]

Becomes(account) ==
  /\ cash' = account.cash /\ position' = account.position
  /\ trades' = account.trades

\* Mutant: the strategy is asked on the last candle too, and while holding.
AsksAlways(k) == k >= MinHistory

Asks(k) == position' = None /\ k >= MinHistory /\ k < Len(candles)

Bar(rate) ==
  LET k == index + 1
      candle == candles[k]
  IN  /\ index < Len(candles)
      /\ Becomes(Exited(Funded(Entered(Account, pending, candle, k), rate), candle, k))
      /\ curve' = Append(curve, Marked(Account', candle.close))
      /\ IF Asks(k) THEN pending' \in Signals(k) \union {None}
                    ELSE pending' = None
      /\ index' = k
      /\ UNCHANGED candles

\* Mutant: the last point of the curve stays what the last close made it.
LastPointStays(points, equity) == points

\* The last point of the curve becomes the equity after the last close.
LastPoint(points, equity) == [points EXCEPT ![Len(points)] = equity]

EndOfData ==
  /\ index = Len(candles)
  /\ IF position = None
     THEN UNCHANGED <<cash, position, trades, curve>>
     ELSE /\ Becomes(ClosedAt(Account, Slipped(Last(candles).close, position.side, FALSE),
                              index))
          /\ curve' = LastPoint(curve, cash')
  /\ index' = index + 1
  /\ UNCHANGED <<candles, pending>>

Next == (\E rate \in FundingRates \union {None} : Bar(rate)) \/ EndOfData

Spec == Init /\ [][Next]_vars

-----------------------------------------------------------------------------
(* _result, in parts of Precise, a loss rounded as a drawdown is           *)

Precise == Unit * Unit

Share(amount, whole) == (amount * Precise) \div whole

TotalReturn == -Share(InitialEquity - cash, InitialEquity)

Peak(k) == Max({curve[i] : i \in 1..k})

MaxDrawdown ==
  Max({0} \union {Share(Peak(k) - curve[k], Peak(k)) : k \in {i \in DOMAIN curve : Peak(i) > 0}})

IsOver == index = Len(candles) + 1

-----------------------------------------------------------------------------
(* Safety                                                                  *)

\* The cash is the initial equity, plus what the trades made, plus what the
\* open position has been paid in funding and less its entry fee: run charges
\* the entry fee at the entry and takes it out of the fees of the trade.
Balanced ==
  cash = InitialEquity + trades.net
           + (IF position = None THEN 0 ELSE position.funding - position.fee)

\* When the run is over nothing is held, the last point of the equity curve
\* is the final equity, and it is what the trades in the result account for.
AllAccountedFor ==
  IsOver =>
    /\ position = None /\ pending = None
    /\ Last(curve) = cash
    /\ cash = InitialEquity + trades.net

\* A result shows at least the drawdown of what it lost: had the end of the
\* curve been left as the last candle marked it, the cost of closing the
\* position would be in the return and in no drawdown.
DrawdownCoversLoss == IsOver /\ cash > 0 => -TotalReturn <= MaxDrawdown

\* A position costs at most the configured fraction of the cash it is opened
\* with, at the price it is opened at and not only at the candle's open.
WithinFraction ==
  [][(position = None /\ position' # None)
       => position'.entry * position'.quantity * Unit <= cash * PositionFraction]_vars
=============================================================================

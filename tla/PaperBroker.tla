----------------------------- MODULE PaperBroker -----------------------------
(***************************************************************************)
(* PaperBroker as functions on its state: what submit and on_candle make   *)
(* of the broker.  The list of trades is kept as what the ledger needs of  *)
(* it: the sum of the net profits and the time of the last exit.           *)
(***************************************************************************)
EXTENDS TradingRules

Positions ==
  [side : Sides, quantity : Nat \ {0}, entry : Nat, stop : Price,
   target : Price, time : Nat, fee : Nat]

Brokers ==
  [equity : Int, position : Positions \union {None},
   trades : [net : Int, last : Nat], day : Nat \union {None}, dayStart : Int]

ASSUME NoPositionAssumption == None \notin Positions

\* The program runs with the constructor's default fee rate, 0.055%: a fee is
\* no more than what is traded.
ASSUME FeeAssumption == FeeRate <= Unit

NewBroker ==
  [equity |-> InitialEquity, position |-> None,
   trades |-> [net |-> 0, last |-> 0], day |-> None, dayStart |-> InitialEquity]

Flat(broker) == broker.position = None

DailyPnl(broker) == broker.equity - broker.dayStart

Rolled(broker, k) ==
  IF broker.day = Day(k) THEN broker
  ELSE [broker EXCEPT !.day = Day(k), !.dayStart = broker.equity]

\* Mutant: the day of the saved state is not restored.
RestoredDayless(broker) == [broker EXCEPT !.day = None]

\* restore_state takes over all that export_state saved, unless the equity
\* is not positive.
Restorable(broker) == broker.equity > 0
Restored(broker) == broker

-----------------------------------------------------------------------------
(* submit, after its checks *)

EntryPrice(intent) == Slipped(intent.entry, intent.side, TRUE)

EntryFee(intent) == Of(EntryPrice(intent) * intent.quantity, FeeRate)

Opened(broker, intent, k) ==
  [Rolled(broker, k) EXCEPT
     !.equity = broker.equity - EntryFee(intent),
     !.position = [side |-> intent.side, quantity |-> intent.quantity,
                   entry |-> EntryPrice(intent), stop |-> intent.stop,
                   target |-> intent.target, time |-> k,
                   fee |-> EntryFee(intent)]]

-----------------------------------------------------------------------------
(* on_candle *)

Closes(broker, candle) ==
  /\ ~Flat(broker)
  /\ StopHit(broker.position, candle) \/ TargetHit(broker.position, candle)

ExitPrice(position, candle) ==
  Slipped(ExitLevel(position, candle), position.side, FALSE)

Gross(position, candle) ==
  Direction(position.side)
    * (ExitPrice(position, candle) - position.entry) * position.quantity

ExitFee(position, candle) ==
  Of(ExitPrice(position, candle) * position.quantity, FeeRate)

\* Mutant: the entry fee is left out of the trade.
NetOfExitFee(position, candle) ==
  Gross(position, candle) - ExitFee(position, candle)

NetPnl(position, candle) ==
  Gross(position, candle) - position.fee - ExitFee(position, candle)

Closed(broker, candle, k) ==
  LET position == broker.position
  IN  [broker EXCEPT
         !.equity = @ + Gross(position, candle) - ExitFee(position, candle),
         !.trades = [net |-> broker.trades.net + NetPnl(position, candle),
                     last |-> k],
         !.position = None]

Settled(broker, candle, k) ==
  IF Closes(broker, candle) THEN Closed(Rolled(broker, k), candle, k)
                            ELSE Rolled(broker, k)

\* Mutant: the loss has the wrong sign.
GainReached(broker) ==
  (broker.equity - broker.dayStart) * Unit >= broker.dayStart * DailyLossLimit

\* _enforce_daily_loss
LossReached(broker) ==
  (broker.dayStart - broker.equity) * Unit >= broker.dayStart * DailyLossLimit

-----------------------------------------------------------------------------
(* The runner's entry (_enter_pending)                                     *)

ProposalOf(signal, candle) ==
  [side |-> signal.side, entry |-> candle.open, leverage |-> Unit,
   stop |-> candle.open - Direction(signal.side) * signal.atr * StopAtrMultiple]

\* The day is not rolled yet: the profit is that of the broker's last day.
AccountOf(broker) ==
  [equity |-> broker.equity, dailyPnl |-> DailyPnl(broker), openPositions |-> 0]

IntentOf(broker, signal, candle) ==
  LET proposal == ProposalOf(signal, candle)
  IN  [side |-> signal.side, entry |-> candle.open, stop |-> proposal.stop,
       target |-> candle.open + Direction(signal.side) * signal.atr
                                  * StopAtrMultiple * TargetRiskReward,
       quantity |-> Quantity(proposal, AccountOf(broker))]

Wanted(broker, signal) == signal # None /\ Flat(broker)

RiskApproves(broker, signal, candle) ==
  Approved(ProposalOf(signal, candle), AccountOf(broker))

\* The broker after the entry part of a candle's handling.
Entered(broker, signal, candle, k) ==
  IF /\ Wanted(broker, signal)
     /\ RiskApproves(broker, signal, candle)
     /\ ValidIntent(IntentOf(broker, signal, candle))
  THEN Opened(broker, IntentOf(broker, signal, candle), k)
  ELSE broker

\* The broker after a candle's handling.
Processed(broker, signal, candle, k) ==
  Settled(Entered(broker, signal, candle, k), candle, k)
=============================================================================

-------------------------- MODULE PaperBrokerProofs --------------------------
(***************************************************************************)
(* Lemmas about the broker: what its operations return and that they keep  *)
(* its books balanced.                                                     *)
(***************************************************************************)
EXTENDS PaperBroker, TradingRulesProofs

\* Rolling the day keeps the broker's type, and touches neither its equity,
\* nor its position, nor its trades.
LEMMA RolledKeeps ==
  ASSUME NEW b \in Brokers, NEW k \in Nat
  PROVE  /\ Rolled(b, k) \in Brokers
         /\ Rolled(b, k).equity = b.equity
         /\ Rolled(b, k).position = b.position
         /\ Rolled(b, k).trades = b.trades
         /\ Rolled(b, k).dayStart \in Int
<1>1. Day(k) \in Nat
  BY RunnerAssumption DEF Day
<1> QED
  BY <1>1 DEF Rolled, Brokers

\* What RiskEngine approves and validate accepts is a well-formed intent.
LEMMA IntentType ==
  ASSUME NEW b \in Brokers, NEW at \in Nat, NEW signal \in Signals(at),
         NEW candle \in Candles,
         RiskApproves(b, signal, candle),
         ValidIntent(IntentOf(b, signal, candle))
  PROVE  IntentOf(b, signal, candle)
           \in [side : Sides, entry : Price, stop : Price, target : Price,
               quantity : Nat \ {0}]
<1> DEFINE proposal == ProposalOf(signal, candle)
           account == AccountOf(b)
           intent == IntentOf(b, signal, candle)
<1>1. candle.open \in Price /\ signal.side \in Sides /\ signal.atr \in Nat
  BY CandlesAssumption, AtrsAssumption DEF Signals
<1>2. Direction(signal.side) \in Int
  BY DEF Direction
<1>3. Direction(signal.side) * signal.atr * StopAtrMultiple \in Int
  BY <1>1, <1>2, RunnerAssumption
<1>4. Direction(signal.side) * signal.atr * StopAtrMultiple * TargetRiskReward \in Int
  BY <1>3, RunnerAssumption
<1>5. proposal \in [side : Sides, entry : Price, leverage : Nat, stop : Int]
  BY <1>1, <1>3, RatesAssumption DEF ProposalOf, Price
<1>6. account \in [equity : Int, dailyPnl : Int, openPositions : Nat]
  BY DEF AccountOf, DailyPnl, Brokers
<1>7. Quantity(proposal, account) \in Nat \ {0}
  BY <1>5, <1>6, QuantityNat DEF RiskApproves
<1>8. intent.stop \in Price /\ intent.target \in Price
  <2>1. intent.stop \in Int
    BY <1>1, <1>3 DEF IntentOf, ProposalOf, Price
  <2>2. intent.target \in Int
    BY <1>1, <1>4 DEF IntentOf, Price
  <2> QED
    BY <2>1, <2>2 DEF ValidIntent, Price
<1> QED
  BY <1>1, <1>7, <1>8 DEF IntentOf

\* submit keeps the broker's type, enters a position and charges its fee.
LEMMA OpenedKeeps ==
  ASSUME NEW b \in Brokers, NEW k \in Nat,
         NEW intent \in [side : Sides, entry : Price, stop : Price,
                         target : Price, quantity : Nat \ {0}]
  PROVE  /\ Opened(b, intent, k) \in Brokers
         /\ Opened(b, intent, k).position \in Positions
         /\ Opened(b, intent, k).position.time = k
         /\ Opened(b, intent, k).equity
              = b.equity - Opened(b, intent, k).position.fee
         /\ Opened(b, intent, k).trades = b.trades
<1> DEFINE fee == EntryFee(intent)
           position == [side |-> intent.side, quantity |-> intent.quantity,
                        entry |-> EntryPrice(intent), stop |-> intent.stop,
                        target |-> intent.target, time |-> k, fee |-> fee]
<1>1. EntryPrice(intent) \in Nat
  BY SlippedNat DEF EntryPrice, Price
<1>2. EntryPrice(intent) * intent.quantity \in Nat
  BY <1>1
<1>3. fee \in Nat
  BY <1>2, OfNat, RatesAssumption DEF EntryFee
<1>4. position \in Positions
  BY <1>1, <1>3 DEF Positions
<1>5. Rolled(b, k) \in Brokers /\ Rolled(b, k).trades = b.trades
  BY RolledKeeps
<1>6. Opened(b, intent, k)
        = [Rolled(b, k) EXCEPT !.equity = b.equity - fee, !.position = position]
  BY DEF Opened
<1>7. b.equity - fee \in Int /\ b.equity \in Int
  BY <1>3 DEF Brokers
<1> HIDE DEF fee, position
<1>8. /\ Opened(b, intent, k) \in Brokers
      /\ Opened(b, intent, k).position = position
      /\ Opened(b, intent, k).equity = b.equity - fee
      /\ Opened(b, intent, k).trades = b.trades
  BY <1>4, <1>5, <1>6, <1>7 DEF Brokers
<1>9. position.time = k /\ position.fee = fee
  BY DEF position
<1> QED
  BY <1>4, <1>8, <1>9

\* What closing a position pays is an integer, gross and net of fees.
LEMMA ExitType ==
  ASSUME NEW position \in Positions, NEW candle \in Candles
  PROVE  /\ Gross(position, candle) \in Int
         /\ ExitFee(position, candle) \in Nat
         /\ NetPnl(position, candle) \in Int
<1> DEFINE level == ExitLevel(position, candle)
           price == ExitPrice(position, candle)
<1>1. candle.open \in Nat /\ position.stop \in Nat /\ position.target \in Nat
  BY CandlesAssumption DEF Positions, Price
<1>2. /\ position.side \in Sides /\ position.entry \in Nat
      /\ position.quantity \in Nat /\ position.fee \in Nat
  BY DEF Positions
<1>3. level \in Nat
  BY <1>1 DEF ExitLevel, Least, Greatest
<1>4. price \in Nat
  BY <1>2, <1>3, SlippedNat DEF ExitPrice
<1>5. Direction(position.side) \in Int
  BY DEF Direction
<1> HIDE DEF price
<1>6. Direction(position.side) * (price - position.entry) \in Int
  BY <1>2, <1>4, <1>5
<1>7. Gross(position, candle) \in Int
  BY <1>2, <1>6 DEF Gross, price
<1>8. price * position.quantity \in Nat
  BY <1>2, <1>4
<1>9. ExitFee(position, candle) \in Nat
  BY <1>8, OfNat, RatesAssumption DEF ExitFee, price
<1> QED
  BY <1>2, <1>7, <1>9 DEF NetPnl

\* on_candle keeps the broker's type; it either leaves the books as they are
\* or closes the position and moves its profit from equity to trades.
LEMMA SettledKeeps ==
  ASSUME NEW b \in Brokers, NEW candle \in Candles, NEW k \in Nat
  PROVE  /\ Settled(b, candle, k) \in Brokers
         /\ ~Closes(b, candle) =>
              /\ Settled(b, candle, k).equity = b.equity
              /\ Settled(b, candle, k).position = b.position
              /\ Settled(b, candle, k).trades = b.trades
         /\ Closes(b, candle) =>
              /\ b.position \in Positions
              /\ Flat(Settled(b, candle, k))
              /\ Settled(b, candle, k).equity
                   = b.equity + NetPnl(b.position, candle) + b.position.fee
              /\ Settled(b, candle, k).trades.net
                   = b.trades.net + NetPnl(b.position, candle)
              /\ Settled(b, candle, k).trades.last = k
<1>1. /\ Rolled(b, k) \in Brokers
      /\ Rolled(b, k).equity = b.equity
      /\ Rolled(b, k).position = b.position
      /\ Rolled(b, k).trades = b.trades
  BY RolledKeeps
<1>2. CASE ~Closes(b, candle)
  BY <1>1, <1>2 DEF Settled
<1>3. CASE Closes(b, candle)
  <2> DEFINE position == b.position
             r == Rolled(b, k)
             c == Closed(r, candle, k)
  <2>1. position \in Positions
    BY <1>3 DEF Closes, Flat, Brokers
  <2>2. /\ Gross(position, candle) \in Int
        /\ ExitFee(position, candle) \in Nat
        /\ NetPnl(position, candle) \in Int
    BY <2>1, ExitType
  <2>3. position.fee \in Nat /\ b.equity \in Int /\ b.trades.net \in Int
    BY <2>1 DEF Positions, Brokers
  <2>4. Settled(b, candle, k) = c
    BY <1>3 DEF Settled
  <2>5. c = [r EXCEPT
               !.equity = b.equity + Gross(position, candle) - ExitFee(position, candle),
               !.trades = [net |-> b.trades.net + NetPnl(position, candle), last |-> k],
               !.position = None]
    BY <1>1 DEF Closed, Brokers
  <2>6. Gross(position, candle) - ExitFee(position, candle)
          = NetPnl(position, candle) + position.fee
    BY <2>2, <2>3 DEF NetPnl
  <2> DEFINE paid == b.equity + Gross(position, candle) - ExitFee(position, candle)
             made == [net |-> b.trades.net + NetPnl(position, candle), last |-> k]
  <2>7. c \in Brokers
    <3>1. paid \in Int /\ made \in [net : Int, last : Nat]
      BY <2>2, <2>3
    <3>2. r \in Brokers
      BY <1>1
    <3>3. c = [r EXCEPT !.equity = paid, !.trades = made, !.position = None]
      BY <2>5
    <3> HIDE DEF paid, made, r, c
    <3> QED
      BY <3>1, <3>2, <3>3 DEF Brokers
  <2> HIDE DEF position, r, c
  <2>8. /\ c.equity = b.equity + Gross(position, candle) - ExitFee(position, candle)
        /\ c.trades = [net |-> b.trades.net + NetPnl(position, candle), last |-> k]
        /\ c.position = None
    BY <1>1, <2>5 DEF Brokers, r
  <2>9. c.equity = b.equity + NetPnl(position, candle) + position.fee
    BY <2>2, <2>3, <2>6, <2>8
  <2> QED
    BY <1>3, <2>1, <2>4, <2>7, <2>8, <2>9 DEF Flat, position
<1> QED
  BY <1>2, <1>3

\* The entry fee of an approved intent is less than the equity it is sized on.
LEMMA EntryFeeBelowEquity ==
  ASSUME NEW b \in Brokers, NEW at \in Nat, NEW signal \in Signals(at),
         NEW candle \in Candles,
         RiskApproves(b, signal, candle)
  PROVE  EntryFee(IntentOf(b, signal, candle)) < b.equity
<1> DEFINE proposal == ProposalOf(signal, candle)
           account == AccountOf(b)
           intent == IntentOf(b, signal, candle)
           q == intent.quantity
           e == candle.open
           price == EntryPrice(intent)
           fee == EntryFee(intent)
<1>1. e \in Price /\ signal.side \in Sides /\ signal.atr \in Nat
  BY CandlesAssumption, AtrsAssumption DEF Signals
<1>2. proposal \in [side : Sides, entry : Price, leverage : Nat, stop : Int]
  <2>1. Direction(signal.side) * signal.atr * StopAtrMultiple \in Int
    BY <1>1, RunnerAssumption DEF Direction
  <2> QED
    BY <1>1, <2>1, RatesAssumption DEF ProposalOf, Price
<1>3. account \in [equity : Int, dailyPnl : Int, openPositions : Nat]
  BY DEF AccountOf, DailyPnl, Brokers
<1>4. q = Quantity(proposal, account) /\ proposal.entry = e /\ account.equity = b.equity
  BY DEF IntentOf, ProposalOf, AccountOf
<1>5. q \in Nat \ {0} /\ q * e * Unit <= b.equity * PositionFraction
  BY <1>2, <1>3, <1>4, QuantityNat, QuantityWithinFraction DEF RiskApproves
<1>6. b.equity \in Nat \ {0}
  BY <1>3, <1>4 DEF RiskApproves, Approved, Admissible
<1>7. price \in Nat /\ price < 2 * e
  BY <1>1, SlippedNat, SlippedBelowTwice DEF EntryPrice, IntentOf, Price
<1>8. fee = Of(price * q, FeeRate)
  BY DEF EntryFee
<1> HIDE DEF proposal, account, intent, q, price, fee
<1>9. e \in Nat \ {0} /\ Unit \in Nat \ {0} /\ FeeRate \in Nat /\ FeeRate <= Unit
      /\ PositionFraction \in Nat /\ 2 * PositionFraction <= Unit
  BY <1>1, RatesAssumption, SettingsAssumption, FeeAssumption DEF Price, ValidSettings
<1>10. 2 * (q * e) <= b.equity
  <2>1. q * e \in Nat
    BY <1>5, <1>9
  <2>2. b.equity * (2 * PositionFraction) <= b.equity * Unit
    BY <1>6, <1>9, TimesMonotone
  <2>3. (2 * (q * e)) * Unit = 2 * (q * e * Unit)
    BY <1>5, <1>9, <2>1
  <2>4. b.equity * (2 * PositionFraction) = 2 * (b.equity * PositionFraction)
    BY <1>6, <1>9
  <2>5. (2 * (q * e)) * Unit <= b.equity * Unit
    BY <1>5, <1>6, <1>9, <2>1, <2>2, <2>3, <2>4
  <2>6. CASE 2 * (q * e) > b.equity
    <3>1. b.equity * Unit < (2 * (q * e)) * Unit
      BY <1>6, <1>9, <2>1, <2>6, TimesStrict
    <3> QED
      BY <1>6, <1>9, <2>1, <2>5, <3>1
  <2> QED
    BY <1>6, <2>1, <2>6
<1>11. price * q < b.equity
  <2>1. price * q < (2 * e) * q
    BY <1>5, <1>7, <1>9, TimesStrict
  <2>2. (2 * e) * q = 2 * (q * e)
    BY <1>5, <1>9
  <2> QED
    BY <1>5, <1>6, <1>7, <1>9, <1>10, <2>1, <2>2
<1>12. fee <= price * q
  <2> DEFINE cost == price * q
  <2>1. cost \in Nat
    BY <1>5, <1>7
  <2> HIDE DEF cost
  <2>2. fee \in Nat /\ fee * Unit <= cost * FeeRate
    BY <1>8, <1>9, <2>1, OfNat, OfBounds DEF cost
  <2>3. cost * FeeRate <= cost * Unit
    BY <1>9, <2>1, TimesMonotone
  <2>4. CASE fee > cost
    <3>1. cost * Unit < fee * Unit
      BY <1>9, <2>1, <2>2, <2>4, TimesStrict
    <3> QED
      BY <1>9, <2>1, <2>2, <2>3, <3>1
  <2> QED
    BY <2>1, <2>2, <2>4 DEF cost
<1>13. price * q \in Nat /\ fee \in Nat
  BY <1>5, <1>7, <1>8, <1>9, OfNat
<1> QED
  BY <1>6, <1>11, <1>12, <1>13 DEF fee, intent

\* A broker with equity has a positive day start, and one with a position has
\* equity.
Solvent(b) ==
  /\ b.equity > 0 => b.dayStart > 0
  /\ b.equity > 0 \/ Flat(b)

LEMMA RolledSolvent ==
  ASSUME NEW b \in Brokers, NEW k \in Nat, Solvent(b)
  PROVE  Solvent(Rolled(b, k))
BY RolledKeeps DEF Rolled, Solvent, Flat, Brokers

\* An approved entry is made on a positive day start and leaves equity.
LEMMA OpenedSolvent ==
  ASSUME NEW b \in Brokers, NEW at \in Nat, NEW signal \in Signals(at),
         NEW candle \in Candles, NEW k \in Nat, Solvent(b),
         RiskApproves(b, signal, candle),
         ValidIntent(IntentOf(b, signal, candle))
  PROVE  /\ Solvent(Opened(b, IntentOf(b, signal, candle), k))
         /\ Opened(b, IntentOf(b, signal, candle), k).dayStart = Rolled(b, k).dayStart
         /\ Rolled(b, k).dayStart > 0
<1> DEFINE intent == IntentOf(b, signal, candle)
           o == Opened(b, intent, k)
<1>1. intent \in [side : Sides, entry : Price, stop : Price, target : Price,
                  quantity : Nat \ {0}]
  BY IntentType
<1>2. /\ o \in Brokers /\ o.position \in Positions
      /\ o.equity = b.equity - o.position.fee
  BY <1>1, OpenedKeeps
<1>3. o.position.fee = EntryFee(intent) /\ o.dayStart = Rolled(b, k).dayStart
  BY RolledKeeps DEF Opened, Brokers
<1>4. EntryFee(intent) < b.equity
  BY EntryFeeBelowEquity
<1>5. b.equity > 0
  BY DEF RiskApproves, Approved, Admissible, AccountOf
<1>6. Rolled(b, k).dayStart > 0
  BY <1>5, RolledKeeps, RolledSolvent DEF Solvent
<1>7. b.equity \in Int /\ o.position.fee \in Nat
  BY <1>2 DEF Brokers, Positions
<1>8. o.equity > 0
  BY <1>2, <1>3, <1>4, <1>7
<1> QED
  BY <1>3, <1>6, <1>8 DEF Solvent

LEMMA SettledSolvent ==
  ASSUME NEW b \in Brokers, NEW candle \in Candles, NEW k \in Nat, Solvent(b)
  PROVE  Solvent(Settled(b, candle, k))
<1>1. CASE ~Closes(b, candle)
  BY <1>1, RolledSolvent DEF Settled
<1>2. CASE Closes(b, candle)
  <2>1. Rolled(b, k).dayStart > 0
    BY <1>2, RolledKeeps, RolledSolvent DEF Closes, Flat, Solvent
  <2>2. Settled(b, candle, k).dayStart = Rolled(b, k).dayStart
    BY <1>2, RolledKeeps DEF Settled, Closed, Brokers
  <2>3. Flat(Settled(b, candle, k))
    BY <1>2, SettledKeeps
  <2> QED
    BY <2>1, <2>2, <2>3 DEF Solvent
<1> QED
  BY <1>1, <1>2

=============================================================================

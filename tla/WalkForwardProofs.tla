-------------------------- MODULE WalkForwardProofs --------------------------
(***************************************************************************)
(* What the runs of the backtester and the walk over them keep to, for any *)
(* candles, rates, grid and sizes.  The first part is about the parts of a *)
(* candle's step, the second about the result, the third about the walk.   *)
(***************************************************************************)
EXTENDS WalkForward, TradingRulesProofs, FiniteSetTheorems, SequenceTheorems

-----------------------------------------------------------------------------
(* The greatest of finitely many integers                                  *)

\* Among finitely many integers, at least one, there is a greatest.
LEMMA GreatestExists ==
  ASSUME NEW I, IsFiniteSet(I), I # {}, NEW f, \A i \in I : f[i] \in Int
  PROVE  \E m \in I : \A i \in I : f[i] <= f[m]
<1> DEFINE Above(i) == {j \in I : f[j] > f[i]}
           T == {Above(i) : i \in I}
<1>1. IsWellFoundedOn(StrictSubsetOrdering(I), SUBSET I)
  BY FS_FiniteSubsetsOfFinite, FS_StrictSubsetOrderingWellFounded
<1>2. T \subseteq SUBSET I /\ T # {}
  OBVIOUS
<1>3. PICK x \in T : \A y \in T : <<y, x>> \notin StrictSubsetOrdering(I)
  BY <1>1, <1>2, WFMin
<1>4. PICK m \in I : x = Above(m)
  OBVIOUS
<1>5. ASSUME NEW i \in I, ~(f[i] <= f[m])
      PROVE  FALSE
  <2>1. Above(i) \in T
    OBVIOUS
  <2>2. Above(i) \subseteq Above(m)
    BY <1>5
  <2>3. i \in Above(m) /\ i \notin Above(i)
    BY <1>5
  <2>4. <<Above(i), x>> \in StrictSubsetOrdering(I)
    BY <1>4, <2>2, <2>3 DEF StrictSubsetOrdering
  <2> QED
    BY <1>3, <2>1, <2>4
<1> QED
  BY <1>5

\* The ends of an interval.
LEMMA IntervalEnds ==
  ASSUME NEW a \in Int, NEW b \in Int, a <= b
  PROVE  Min(a..b) = a /\ Max(a..b) = b
<1> DEFINE S == a..b
<1>1. a \in S /\ b \in S /\ \A x \in S : x \in Int /\ a <= x /\ b >= x
  OBVIOUS
<1> HIDE DEF S
<1>2. /\ Min(S) \in S /\ \A x \in S : Min(S) <= x
      /\ Max(S) \in S /\ \A x \in S : Max(S) >= x
  BY <1>1 DEF Min, Max
<1>3. Min(S) <= a /\ a <= Min(S) /\ Max(S) >= b /\ b >= Max(S)
  BY <1>1, <1>2
<1>4. Min(S) \in Int /\ Max(S) \in Int
  BY <1>1, <1>2
<1>5. Min(S) = a /\ Max(S) = b
  BY <1>3, <1>4
<1> QED
  BY <1>5 DEF S

-----------------------------------------------------------------------------
(* The parts of one candle's step                                          *)

Accounts ==
  [cash : Int, position : Holdings \union {None}, trades : [net : Int, last : Nat]]

\* The cash accounts for the trades and the open position.
Accounted(account) ==
  account.cash = InitialEquity + account.trades.net
    + (IF account.position = None THEN 0
       ELSE account.position.funding - account.position.fee)

\* A holding that passes _open_position's checks has positive prices and a
\* positive size, and costs at most the configured fraction of the equity.
LEMMA HoldingType ==
  ASSUME NEW at \in Nat, NEW signal \in Signals(at), NEW candle \in Candles,
         NEW equity \in Int, NEW k \in Nat, Holds(signal, candle, equity)
  PROVE  /\ Holding(signal, candle, equity, k) \in Holdings
         /\ EntryAt(signal, candle) * Size(signal, candle, equity) * Unit
              <= equity * PositionFraction
<1> DEFINE entry == EntryAt(signal, candle)
           away == StopAway(signal)
           quantity == Size(signal, candle, equity)
           byRisk == Of(equity, RiskPerTrade)
           allowed == Of(equity, PositionFraction)
           held == Holding(signal, candle, equity, k)
<1>1. /\ candle.open \in Nat /\ signal.side \in Sides /\ signal.atr \in Nat
      /\ Unit \in Nat \ {0} /\ StopAtrMultiple \in Nat /\ TargetRiskReward \in Nat \ {0}
      /\ RiskPerTrade \in Nat /\ PositionFraction \in Nat /\ FeeRate \in Nat
  BY CandlesAssumption, AtrsAssumption, RatesAssumption, RunnerAssumption,
     SettingsAssumption DEF Signals, Price, ValidSettings
<1>2. entry \in Nat
  BY <1>1, SlippedNat DEF EntryAt
<1>3. away \in Nat \ {0}
  BY <1>1 DEF StopAway, Holds
<1>4. away * TargetRiskReward \in Nat
  BY <1>1, <1>3
<1>5. /\ held.stop = entry - Direction(signal.side) * away
      /\ held.target = entry + Direction(signal.side) * away * TargetRiskReward
      /\ held.stop > 0 /\ held.target > 0
  BY DEF Holds, Holding
<1>6. /\ entry > 0 /\ held.stop \in Int /\ held.target \in Int
  <2>1. CASE signal.side = "LONG"
    <3>1. held.stop = entry - away /\ held.target = entry + away * TargetRiskReward
      BY <1>3, <1>5, <2>1 DEF Direction
    <3> QED
      BY <1>2, <1>3, <1>4, <1>5, <3>1
  <2>2. CASE signal.side # "LONG"
    <3>1. Direction(signal.side) * away * TargetRiskReward = -(away * TargetRiskReward)
      BY <1>1, <1>3, <2>2 DEF Direction
    <3>2. held.stop = entry + away /\ held.target = entry - away * TargetRiskReward
      BY <1>2, <1>3, <1>4, <1>5, <2>2, <3>1 DEF Direction
    <3>3. away * TargetRiskReward > 0
      BY <1>1, <1>3
    <3> QED
      BY <1>2, <1>3, <1>4, <1>5, <3>2, <3>3
  <2> QED
    BY <2>1, <2>2
<1>7. byRisk \in Int /\ allowed \in Int
  <2>1. RiskPerTrade \in Int /\ PositionFraction \in Int
    BY <1>1
  <2> QED
    BY <2>1, OfInt
<1> HIDE DEF entry, away, byRisk, allowed
<1>8. byRisk \div away \in Int /\ allowed \div entry \in Int
  BY <1>2, <1>3, <1>6, <1>7
<1>9. quantity = Least(byRisk \div away, allowed \div entry)
  BY DEF Size, byRisk, away, allowed, entry
<1>10. quantity \in Nat \ {0} /\ quantity <= allowed \div entry
  BY <1>8, <1>9 DEF Holds, Least
<1>11. Of(entry * quantity, FeeRate) \in Nat
  <2>1. entry * quantity \in Nat
    BY <1>2, <1>10
  <2> QED
    BY <1>1, <2>1, OfNat
<1>12. held \in Holdings
  BY <1>1, <1>2, <1>5, <1>6, <1>10, <1>11 DEF Holding, Holdings, Price, entry
<1>13. (allowed \div entry) * entry <= allowed
  BY <1>2, <1>6, <1>7, DivBounds
<1>14. allowed * Unit <= equity * PositionFraction
  BY <1>1, DivBounds DEF Of, allowed
<1> HIDE DEF quantity
<1>15. quantity * entry <= (allowed \div entry) * entry
  BY <1>2, <1>8, <1>10, TimesMonotone
<1>16. entry * quantity <= allowed /\ entry * quantity \in Nat
  BY <1>2, <1>7, <1>8, <1>10, <1>13, <1>15
<1>17. entry * quantity * Unit <= allowed * Unit
  BY <1>1, <1>7, <1>16, TimesMonotone
<1>18. /\ entry * quantity * Unit \in Int /\ allowed * Unit \in Int
       /\ equity * PositionFraction \in Int
  BY <1>1, <1>7, <1>16
<1>19. entry * quantity * Unit <= equity * PositionFraction
  BY <1>14, <1>17, <1>18
<1> QED
  BY <1>12, <1>19 DEF entry, quantity

\* The same holding, but for the funding it has been paid.
Alike(held, other) ==
  /\ held.side = other.side /\ held.entry = other.entry /\ held.stop = other.stop
  /\ held.quantity = other.quantity /\ held.time = other.time

\* Entering keeps the account's type and its balance.
LEMMA EnteredKeeps ==
  ASSUME NEW account \in Accounts, Accounted(account),
         NEW at \in Nat, NEW signal \in Signals(at) \union {None},
         NEW candle \in Candles, NEW k \in Nat
  PROVE  LET after == Entered(account, signal, candle, k)
         IN  /\ after \in Accounts /\ Accounted(after)
             /\ \/ after = account
                \/ /\ account.position = None /\ signal # None
                   /\ Holds(signal, candle, account.cash)
                   /\ after.position = Holding(signal, candle, account.cash, k)
                   /\ after.trades = account.trades
<1> DEFINE enters == /\ signal # None /\ account.position = None
                     /\ Holds(signal, candle, account.cash)
           holding == Holding(signal, candle, account.cash, k)
           after == [account EXCEPT !.cash = @ - holding.fee, !.position = holding]
<1>1. CASE ~enters
  BY <1>1 DEF Entered
<1>2. CASE enters
  <2>1. Entered(account, signal, candle, k) = after
    BY <1>2 DEF Entered
  <2>2. holding \in Holdings
    BY <1>2, HoldingType DEF Accounts
  <2>3. holding.fee \in Nat /\ holding.funding = 0 /\ holding # None
    BY <2>2, NoHoldingAssumption DEF Holdings, Holding
  <2> HIDE DEF holding
  <2>4. /\ after \in Accounts
        /\ after.position = holding /\ after.trades = account.trades
        /\ after.cash = account.cash - holding.fee
    <3>1. account.cash \in Int /\ account.cash - holding.fee \in Int
      BY <2>3 DEF Accounts
    <3> QED
      BY <2>2, <3>1 DEF Accounts
  <2>5. account.cash = InitialEquity + account.trades.net + 0
    BY <1>2 DEF Accounted
  <2>6. Accounted(after)
    BY <2>3, <2>4, <2>5, RunnerAssumption DEF Accounted, Accounts
  <2> QED
    BY <1>2, <2>1, <2>4, <2>6 DEF holding
<1> QED
  BY <1>1, <1>2

\* So does the funding, which touches nothing else of the position.
LEMMA FundedKeeps ==
  ASSUME NEW account \in Accounts, Accounted(account),
         NEW rate \in FundingRates \union {None}
  PROVE  LET after == Funded(account, rate)
         IN  /\ after \in Accounts /\ Accounted(after)
             /\ after.trades = account.trades
             /\ account.position = None => after = account
             /\ account.position # None =>
                  after.position # None /\ Alike(after.position, account.position)
<1> DEFINE held == account.position
           payment == -(Of(Direction(held.side) * held.entry * held.quantity, rate))
           after == [account EXCEPT !.cash = @ + payment, !.position.funding = @ + payment]
<1>1. CASE account.position = None \/ rate = None
  BY <1>1 DEF Funded, Alike
<1>2. CASE ~(account.position = None \/ rate = None)
  <2>1. Funded(account, rate) = after
    BY <1>2 DEF Funded
  <2>2. held \in Holdings /\ rate \in Int
    BY <1>2, LengthAssumption DEF Accounts
  <2>3. held.entry \in Nat /\ held.quantity \in Nat /\ Direction(held.side) \in Int
    BY <2>2 DEF Holdings, Direction
  <2>4. held.entry * held.quantity \in Nat
    BY <2>3
  <2>5. Direction(held.side) * held.entry * held.quantity \in Int
    BY <2>2, <2>3, <2>4 DEF Direction
  <2>6. payment \in Int
    <3>1. Of(Direction(held.side) * held.entry * held.quantity, rate) \in Int
      BY <2>2, <2>5, OfInt
    <3> QED
      BY <3>1
  <2> HIDE DEF payment
  <2>7. /\ after.cash = account.cash + payment /\ after.trades = account.trades
        /\ after.position = [held EXCEPT !.funding = @ + payment]
    BY <2>2 DEF Accounts, Holdings
  <2>8. /\ after.position \in Holdings /\ after.position.fee = held.fee
        /\ after.position.funding = held.funding + payment
        /\ Alike(after.position, held)
    BY <2>2, <2>6, <2>7 DEF Holdings, Alike
  <2>9. after \in Accounts
    <3>1. account.cash + payment \in Int
      BY <2>6 DEF Accounts
    <3>2. after = [account EXCEPT !.cash = account.cash + payment,
                                  !.position = [held EXCEPT !.funding = @ + payment]]
      BY DEF Accounts
    <3> QED
      BY <2>7, <2>8, <3>1, <3>2 DEF Accounts
  <2>10. after.position # None
    BY <2>8, NoHoldingAssumption
  <2>11. account.cash = InitialEquity + account.trades.net + (held.funding - held.fee)
    BY <1>2 DEF Accounted
  <2>12. /\ account.cash \in Int /\ account.trades.net \in Int
         /\ held.funding \in Int /\ held.fee \in Int
    BY <2>2 DEF Accounts, Holdings
  <2>13. Accounted(after)
    BY <2>6, <2>7, <2>8, <2>10, <2>11, <2>12, RunnerAssumption DEF Accounted
  <2> QED
    BY <1>2, <2>1, <2>7, <2>8, <2>9, <2>10, <2>13
<1> QED
  BY <1>1, <1>2

\* Closing at a price books the trade and leaves nothing held.
LEMMA ClosedKeeps ==
  ASSUME NEW account \in Accounts, Accounted(account), account.position # None,
         NEW price \in Nat, NEW k \in Nat
  PROVE  LET after == ClosedAt(account, price, k)
         IN  /\ after \in Accounts /\ Accounted(after)
             /\ after.position = None /\ after.trades.last = k
<1> DEFINE held == account.position
           gross == Direction(held.side) * (price - held.entry) * held.quantity
           exitFee == Of(price * held.quantity, FeeRate)
           after == ClosedAt(account, price, k)
<1>1. held \in Holdings
  BY DEF Accounts
<1>2. held.entry \in Nat /\ held.quantity \in Nat /\ held.fee \in Int /\ held.funding \in Int
  BY <1>1 DEF Holdings
<1>3. gross \in Int
  <2>1. (price - held.entry) * held.quantity \in Int
    BY <1>2
  <2> QED
    BY <1>2, <2>1 DEF Direction
<1>4. exitFee \in Int
  <2>1. price * held.quantity \in Nat
    BY <1>2
  <2>2. FeeRate \in Nat
    BY RatesAssumption
  <2>3. exitFee \in Nat
    BY <2>1, <2>2, OfNat
  <2> QED
    BY <2>3
<1> HIDE DEF gross, exitFee
<1>5. after = [cash |-> account.cash + gross - exitFee, position |-> None,
               trades |-> [net |-> account.trades.net
                                     + (gross - held.fee - exitFee + held.funding),
                           last |-> k]]
  BY DEF ClosedAt, Net, gross, exitFee
<1>6. account.cash \in Int /\ account.trades.net \in Int
  BY DEF Accounts
<1>7. after \in Accounts
  BY <1>2, <1>3, <1>4, <1>5, <1>6 DEF Accounts
<1>8. account.cash = InitialEquity + account.trades.net + (held.funding - held.fee)
  BY DEF Accounted
<1>9. Accounted(after)
  BY <1>2, <1>3, <1>4, <1>5, <1>6, <1>8, RunnerAssumption DEF Accounted
<1> QED
  BY <1>5, <1>7, <1>9

\* An exit closes at a slipped level.
LEMMA ExitedKeeps ==
  ASSUME NEW account \in Accounts, Accounted(account),
         NEW candle \in Candles, NEW k \in Nat
  PROVE  LET after == Exited(account, candle, k)
         IN  /\ after \in Accounts /\ Accounted(after)
             /\ \/ after = account
                \/ account.position # None /\ after.position = None /\ after.trades.last = k
<1> DEFINE held == account.position
           level == ExitLevel(held, candle)
           price == Slipped(level, held.side, FALSE)
<1>1. CASE ~(held # None /\ (StopHit(held, candle) \/ TargetHit(held, candle)))
  BY <1>1 DEF Exited
<1>2. CASE held # None /\ (StopHit(held, candle) \/ TargetHit(held, candle))
  <2>1. Exited(account, candle, k) = ClosedAt(account, price, k)
    BY <1>2 DEF Exited
  <2>2. held \in Holdings
    BY <1>2 DEF Accounts
  <2>3. candle.open \in Nat /\ held.stop \in Nat /\ held.target \in Nat /\ held.side \in Sides
    BY <2>2, CandlesAssumption DEF Holdings, Price
  <2>4. level \in Nat
    BY <2>3 DEF ExitLevel, Least, Greatest
  <2> HIDE DEF level
  <2>5. price \in Nat
    BY <2>3, <2>4, SlippedNat
  <2> HIDE DEF price
  <2> QED
    BY <1>2, <2>1, <2>5, ClosedKeeps
<1> QED
  BY <1>1, <1>2

\* The account after a candle.
Stepped(account, signal, candle, rate, k) ==
  Exited(Funded(Entered(account, signal, candle, k), rate), candle, k)

\* What a bar makes of an account: a position that is kept keeps its entry, a
\* new one is the signal's, a trade is of this bar, and nothing comes of nothing.
Follows(after, account, signal, candle, k) ==
  /\ after \in Accounts /\ Accounted(after)
  /\ after.position # None =>
       IF account.position # None
       THEN Alike(after.position, account.position)
       ELSE /\ signal # None
            /\ Holds(signal, candle, account.cash)
            /\ Alike(after.position, Holding(signal, candle, account.cash, k))
  /\ \/ after.trades = account.trades
     \/ /\ after.trades.last = k
        /\ account.position # None \/ signal # None
  /\ account.position = None /\ signal = None => after = account

\* That is what a candle's step makes of every account.
LEMMA SteppedKeeps ==
  ASSUME NEW account \in Accounts, Accounted(account),
         NEW at \in Nat, NEW signal \in Signals(at) \union {None},
         NEW candle \in Candles, NEW rate \in FundingRates \union {None}, NEW k \in Nat
  PROVE  Follows(Stepped(account, signal, candle, rate, k), account, signal, candle, k)
<1> DEFINE entered == Entered(account, signal, candle, k)
           funded == Funded(entered, rate)
           after == Exited(funded, candle, k)
           holding == Holding(signal, candle, account.cash, k)
<1>1. /\ entered \in Accounts /\ Accounted(entered)
      /\ \/ entered = account
         \/ /\ account.position = None /\ signal # None
            /\ Holds(signal, candle, account.cash)
            /\ entered.position = holding /\ entered.trades = account.trades
  BY EnteredKeeps
<1> HIDE DEF entered, holding
<1>2. /\ funded \in Accounts /\ Accounted(funded)
      /\ funded.trades = entered.trades
      /\ entered.position = None => funded = entered
      /\ entered.position # None =>
           funded.position # None /\ Alike(funded.position, entered.position)
  BY <1>1, FundedKeeps
<1> HIDE DEF funded
<1>3. /\ after \in Accounts /\ Accounted(after)
      /\ \/ after = funded
         \/ funded.position # None /\ after.position = None /\ after.trades.last = k
  BY <1>2, ExitedKeeps
<1> HIDE DEF after
<1>4. Stepped(account, signal, candle, rate, k) = after
  BY DEF Stepped, after, funded, entered
<1>5. Follows(after, account, signal, candle, k)
  <2>1. CASE after = funded
    BY <1>1, <1>2, <1>3, <2>1 DEF Follows, Alike, holding
  <2>2. CASE funded.position # None /\ after.position = None /\ after.trades.last = k
    BY <1>1, <1>2, <1>3, <2>2 DEF Follows
  <2> QED
    BY <1>3, <2>1, <2>2
<1> QED
  BY <1>4, <1>5

\* The mark of an account is an integer, and its cash when nothing is held.
LEMMA MarkedType ==
  ASSUME NEW account \in Accounts, NEW price \in Nat
  PROVE  /\ Marked(account, price) \in Int
         /\ account.position = None => Marked(account, price) = account.cash
<1> DEFINE held == account.position
<1>1. CASE held = None
  BY <1>1 DEF Marked, Accounts
<1>2. CASE held # None
  <2>1. held \in Holdings /\ account.cash \in Int
    BY <1>2 DEF Accounts
  <2>2. (price - held.entry) * held.quantity \in Int
    BY <2>1 DEF Holdings
  <2>3. Direction(held.side) * (price - held.entry) * held.quantity \in Int
    BY <2>1, <2>2 DEF Direction, Holdings
  <2> QED
    BY <1>2, <2>1, <2>3 DEF Marked
<1> QED
  BY <1>1, <1>2

-----------------------------------------------------------------------------
(* The steps of a run                                                      *)

\* A signal is queued between two candles, on enough history; what is held or
\* was closed last was entered or closed on a candle after that history.
OnTime ==
  /\ pending # None => index \in MinHistory..(Len(candles) - 1)
  /\ position # None => /\ index <= Len(candles)
                        /\ position.time \in (MinHistory + 1)..index
  /\ trades.last # 0 => /\ trades.last \in (MinHistory + 1)..index
                        /\ trades.last <= Len(candles)

\* The curve begins at the initial equity, and ends in the cash when nothing
\* is held.
Drawn ==
  IF index = 0 THEN cash = InitialEquity
  ELSE /\ curve[1] = InitialEquity
       /\ position = None => curve[Len(curve)] = cash

\* The invariant of a run.
RunInv == TypeOK /\ Balanced /\ OnTime /\ Drawn

\* A fresh run keeps to it.
LEMMA FreshInv ==
  ASSUME candles \in Seq(Candles), Enough(candles),
         index = Fresh.index, cash = Fresh.cash, curve = Fresh.curve,
         position = Fresh.position, pending = Fresh.pending, trades = Fresh.trades
  PROVE  RunInv
BY RunnerAssumption, LengthAssumption
   DEF RunInv, TypeOK, Balanced, OnTime, Drawn, Fresh, Least, Enough

LEMMA AccountType ==
  ASSUME RunInv
  PROVE  Account \in Accounts /\ Accounted(Account)
BY DEF RunInv, TypeOK, Balanced, Account, Accounts, Accounted

\* What a candle's step does to the account and the curve.
LEMMA BarSteps ==
  ASSUME RunInv, NEW rate \in FundingRates \union {None}, Bar(rate)
  PROVE  /\ candles[index + 1] \in Candles
         /\ pending \in Signals(index) \union {None}
         /\ Account' = Stepped(Account, pending, candles[index + 1], rate, index + 1)
         /\ Account' \in Accounts /\ Accounted(Account')
         /\ position' # None =>
              IF position # None
              THEN Alike(position', position)
              ELSE /\ pending # None
                   /\ Holds(pending, candles[index + 1], cash)
                   /\ Alike(position', Holding(pending, candles[index + 1], cash, index + 1))
         /\ \/ trades' = trades
            \/ trades'.last = index + 1 /\ (position # None \/ pending # None)
         /\ position = None /\ pending = None =>
              cash' = cash /\ position' = None /\ trades' = trades
<1> DEFINE k == index + 1
           candle == candles[k]
           after == Stepped(Account, pending, candle, rate, k)
<1>1. index \in Nat /\ k \in 1..Len(candles) /\ candles \in Seq(Candles)
  BY DEF RunInv, TypeOK, Bar, Enough
<1>2. candle \in Candles
  BY <1>1
<1>3. pending \in Signals(index) \union {None}
  BY DEF RunInv, TypeOK
<1>4. cash' = after.cash /\ position' = after.position /\ trades' = after.trades
  BY DEF Bar, Becomes, Stepped
<1>5. Account.cash = cash /\ Account.position = position /\ Account.trades = trades
  BY DEF Account
<1> HIDE DEF candle
<1>6. Follows(after, Account, pending, candle, k)
  <2>1. Account \in Accounts /\ Accounted(Account) /\ index \in Nat /\ k \in Nat
    BY <1>1, AccountType
  <2> HIDE DEF k
  <2> QED
    BY <1>2, <1>3, <2>1, SteppedKeeps
<1> HIDE DEF after
<1>7. Account' = after
  BY <1>4, <1>6 DEF Account, Accounts, Follows
<1>8. position = None /\ pending = None => after = Account
  BY <1>5, <1>6 DEF Follows
<1> QED
  BY <1>2, <1>3, <1>4, <1>5, <1>6, <1>7, <1>8 DEF Follows, after, candle

\* A candle's step keeps the invariant of the run.
LEMMA BarKeeps ==
  ASSUME RunInv, NEW rate \in FundingRates \union {None}, Bar(rate)
  PROVE  RunInv'
<1> DEFINE k == index + 1
           candle == candles[k]
           mark == Marked(Account', candle.close)
<1>1. /\ index \in Nat /\ index < Len(candles) /\ index' = k /\ candles' = candles
      /\ candles \in Seq(Candles) /\ Len(candles) \in Nat /\ Len(candles) > MinHistory
      /\ curve \in Seq(Int) /\ Len(curve) = index
      /\ curve' = Append(curve, mark) /\ MinHistory \in Nat \ {0}
  BY LengthAssumption DEF RunInv, TypeOK, Bar, Enough, Least
<1>2. mark \in Int /\ (position' = None => mark = cash')
  <2>1. candle.close \in Nat
    BY BarSteps, CandlesAssumption DEF Price
  <2>2. Account'.position = position' /\ Account'.cash = cash'
    BY DEF Account
  <2> QED
    BY <2>1, <2>2, BarSteps, MarkedType
<1> HIDE DEF mark
<1>3. curve' \in Seq(Int) /\ Len(curve') = k /\ curve'[k] = mark
      /\ (index > 0 => curve'[1] = curve[1])
  BY <1>1, <1>2
<1>4. /\ cash' \in Int /\ trades' \in [net : Int, last : Nat]
      /\ position' = None \/ position' \in Holdings
      /\ Balanced'
  BY BarSteps DEF Account, Accounts, Accounted, Balanced
<1>5. /\ pending' \in Signals(k) \union {None}
      /\ pending' # None => k >= MinHistory /\ k < Len(candles)
  BY DEF Bar, Asks
<1>6. TypeOK'
  BY <1>1, <1>3, <1>4, <1>5 DEF TypeOK, Enough, Least
<1>7. OnTime'
  <2>1. pending' # None => index' \in MinHistory..(Len(candles') - 1)
    BY <1>1, <1>5
  <2>2. /\ pending # None => index >= MinHistory
        /\ position # None => position.time \in (MinHistory + 1)..index
        /\ trades.last # 0 => trades.last \in (MinHistory + 1)..index
    BY <1>1 DEF RunInv, OnTime
  <2>3. position' # None => position'.time \in (MinHistory + 1)..k
    <3>1. CASE position # None /\ position' # None
      BY <1>1, <2>2, <3>1, BarSteps DEF Alike
    <3>2. CASE position = None /\ position' # None
      <4>1. pending # None /\ Alike(position', Holding(pending, candle, cash, k))
        BY <3>2, BarSteps
      <4>2. position'.time = k
        BY <4>1 DEF Alike, Holding
      <4> QED
        BY <1>1, <2>2, <4>1, <4>2
    <3> QED
      BY <3>1, <3>2
  <2>4. trades'.last # 0 => trades'.last \in (MinHistory + 1)..k
    <3>1. CASE trades' = trades
      BY <1>1, <2>2, <3>1
    <3>2. CASE trades'.last = k /\ (position # None \/ pending # None)
      BY <1>1, <2>2, <3>2
    <3> QED
      BY <3>1, <3>2, BarSteps
  <2> QED
    BY <1>1, <2>1, <2>3, <2>4 DEF OnTime
<1>8. Drawn'
  <2>1. position' = None => curve'[Len(curve')] = cash'
    BY <1>2, <1>3
  <2>2. CASE index = 0
    <3>1. position = None /\ pending = None /\ cash = InitialEquity
      BY <1>1, <2>2 DEF RunInv, OnTime, Drawn
    <3>2. position' = None /\ cash' = InitialEquity
      BY <3>1, BarSteps
    <3> QED
      BY <1>1, <1>2, <1>3, <2>1, <2>2, <3>2 DEF Drawn
  <2>3. CASE index > 0
    BY <1>1, <1>3, <2>1, <2>3 DEF RunInv, Drawn
  <2> QED
    BY <1>1, <2>2, <2>3
<1> QED
  BY <1>4, <1>6, <1>7, <1>8 DEF RunInv

\* So does the close after the last candle.
LEMMA EndKeeps ==
  ASSUME RunInv, EndOfData
  PROVE  RunInv'
<1> DEFINE price == Slipped(Last(candles).close, position.side, FALSE)
           after == ClosedAt(Account, price, index)
<1>1. /\ index = Len(candles) /\ index \in Nat \ {0, 1} /\ index' = index + 1
      /\ candles' = candles /\ candles \in Seq(Candles) /\ Len(candles) > MinHistory
      /\ curve \in Seq(Int) /\ Len(curve) = index /\ MinHistory \in Nat \ {0}
  <2>1. index = Len(candles) /\ index' = index + 1 /\ candles' = candles
    BY DEF EndOfData
  <2>2. /\ candles \in Seq(Candles) /\ Len(candles) > MinHistory
        /\ curve \in Seq(Int) /\ Len(curve) = Least(index, Len(candles))
    BY DEF RunInv, TypeOK, Enough
  <2>3. Len(candles) \in Nat /\ MinHistory \in Nat \ {0}
    BY <2>2, LengthAssumption
  <2>4. Len(curve) = index
    BY <2>1, <2>2 DEF Least
  <2> QED
    BY <2>1, <2>2, <2>3, <2>4
<1>2. pending = None /\ pending' = None
  BY <1>1 DEF RunInv, OnTime, EndOfData
<1>3. CASE position = None
  BY <1>1, <1>2, <1>3
     DEF EndOfData, RunInv, TypeOK, Balanced, OnTime, Drawn, Enough, Least
<1>4. CASE position # None
  <2>1. candles[index] \in Candles /\ Last(candles) = candles[index]
    BY <1>1 DEF Last
  <2>2. position \in Holdings /\ position.time \in (MinHistory + 1)..index
    BY <1>4 DEF RunInv, TypeOK, OnTime
  <2>3. Last(candles).close \in Nat /\ position.side \in Sides
    BY <2>1, <2>2, CandlesAssumption DEF Holdings, Price
  <2>4. price \in Nat
    BY <2>3, SlippedNat
  <2> HIDE DEF price
  <2>5. Account.position # None
    BY <1>4 DEF Account
  <2>6. /\ after \in Accounts /\ Accounted(after)
        /\ after.position = None /\ after.trades.last = index
    BY <1>1, <2>4, <2>5, AccountType, ClosedKeeps
  <2>7. /\ cash' = after.cash /\ position' = after.position /\ trades' = after.trades
        /\ curve' = [curve EXCEPT ![Len(curve)] = cash']
    BY <1>4 DEF EndOfData, Becomes, LastPoint, price
  <2> HIDE DEF after
  <2>8. /\ cash' \in Int /\ trades' \in [net : Int, last : Nat] /\ position' = None
        /\ cash' = InitialEquity + trades'.net + 0
    BY <2>6, <2>7 DEF Accounts, Accounted
  <2>9. /\ curve' \in Seq(Int) /\ Len(curve') = index
        /\ curve'[index] = cash' /\ curve'[1] = curve[1]
    BY <1>1, <2>7, <2>8
  <2>10. curve[1] = InitialEquity
    BY <1>1 DEF RunInv, Drawn
  <2>11. TypeOK'
    BY <1>1, <1>2, <2>8, <2>9 DEF TypeOK, Enough, Least
  <2>12. Balanced'
    BY <2>8 DEF Balanced
  <2>13. OnTime'
    BY <1>1, <1>2, <2>2, <2>6, <2>7, <2>8 DEF OnTime
  <2>14. Drawn'
    BY <1>1, <2>8, <2>9, <2>10 DEF Drawn
  <2> QED
    BY <2>11, <2>12, <2>13, <2>14 DEF RunInv
<1> QED
  BY <1>3, <1>4

-----------------------------------------------------------------------------
(* The result of a run                                                     *)

\* The peak up to a point of the curve is an integer no point before exceeds.
LEMMA PeakProperties ==
  ASSUME curve \in Seq(Int), NEW k \in DOMAIN curve
  PROVE  Peak(k) \in Int /\ \A i \in 1..k : curve[i] <= Peak(k)
<1> DEFINE points == {curve[i] : i \in 1..k}
<1>1. k \in Nat /\ k >= 1 /\ \A i \in 1..k : curve[i] \in Int
  OBVIOUS
<1>2. IsFiniteSet(1..k) /\ 1..k # {}
  <2>1. 1 \in Int /\ k \in Int
    BY <1>1
  <2>2. IsFiniteSet(1..k)
    BY <2>1, FS_Interval
  <2> QED
    BY <1>1, <2>2
<1>3. PICK m \in 1..k : \A i \in 1..k : curve[i] <= curve[m]
  BY <1>1, <1>2, GreatestExists
<1>4. curve[m] \in points /\ \A y \in points : curve[m] >= y
  BY <1>1, <1>3
<1>5. Peak(k) = Max(points)
  BY DEF Peak
<1> HIDE DEF points
<1>6. Max(points) \in points /\ \A y \in points : Max(points) >= y
  BY <1>4 DEF Max
<1> QED
  BY <1>1, <1>5, <1>6 DEF points

\* A share of a positive whole is an integer.
LEMMA ShareType ==
  ASSUME NEW amount \in Int, NEW whole \in Nat \ {0}
  PROVE  Share(amount, whole) \in Int
<1>1. Precise \in Nat \ {0} /\ amount * Precise \in Int
  BY RatesAssumption DEF Precise
<1> QED
  BY <1>1 DEF Share

\* The drawdown of a result is an integer no point's own drawdown exceeds.
LEMMA MaxDrawdownProperties ==
  ASSUME curve \in Seq(Int)
  PROVE  /\ MaxDrawdown \in Int
         /\ \A k \in DOMAIN curve :
              Peak(k) > 0 => Share(Peak(k) - curve[k], Peak(k)) <= MaxDrawdown
<1> DEFINE I == {i \in DOMAIN curve : Peak(i) > 0}
           f == [k \in I |-> Share(Peak(k) - curve[k], Peak(k))]
           falls == {Share(Peak(k) - curve[k], Peak(k)) : k \in I}
           S == {0} \union falls
<1>1. DOMAIN curve = 1..Len(curve) /\ Len(curve) \in Nat
  OBVIOUS
<1>2. IsFiniteSet(I)
  <2>1. IsFiniteSet(1..Len(curve))
    BY <1>1, FS_Interval
  <2> QED
    BY <1>1, <2>1, FS_Subset
<1>3. \A k \in I : f[k] \in Int
  <2>1. TAKE k \in I
  <2>2. Peak(k) \in Nat \ {0} /\ curve[k] \in Int
    BY PeakProperties
  <2> QED
    BY <2>2, ShareType
<1>4. \A k \in I : f[k] = Share(Peak(k) - curve[k], Peak(k))
  OBVIOUS
<1>5. MaxDrawdown = Max(S)
  BY DEF MaxDrawdown
<1> HIDE DEF f
<1>6. S \subseteq Int
  BY <1>3, <1>4
<1>7. \E x \in S : \A y \in S : x >= y
  <2>1. CASE I = {}
    BY <2>1
  <2>2. CASE I # {}
    <3>1. PICK m \in I : \A k \in I : f[k] <= f[m]
      BY <1>2, <1>3, <2>2, GreatestExists
    <3>2. f[m] \in S /\ f[m] \in Int /\ \A y \in falls : y <= f[m]
      BY <1>3, <1>4, <3>1
    <3>3. CASE f[m] >= 0
      BY <3>2, <3>3
    <3>4. CASE f[m] < 0
      <4> HIDE DEF falls
      <4>1. \A y \in falls : y \in Int
        BY <1>6
      <4>2. \A y \in falls : 0 >= y
        BY <3>2, <3>4, <4>1
      <4>3. \A y \in S : 0 >= y
        BY <4>2
      <4> QED
        BY <4>3
    <3> QED
      BY <3>2, <3>3, <3>4
  <2> QED
    BY <2>1, <2>2
<1>8. Max(S) \in S /\ \A y \in S : Max(S) >= y
  BY <1>7 DEF Max
<1>9. \A k \in I : Share(Peak(k) - curve[k], Peak(k)) \in S
  OBVIOUS
<1> HIDE DEF S
<1> QED
  BY <1>5, <1>6, <1>8, <1>9

\* The score of a run that is over is an integer.
LEMMA ScoreType ==
  ASSUME RunInv
  PROVE  Score \in Int
<1>1. cash \in Int /\ curve \in Seq(Int) /\ InitialEquity \in Nat \ {0}
  BY RunnerAssumption DEF RunInv, TypeOK
<1>2. TotalReturn \in Int
  <2>1. InitialEquity - cash \in Int
    BY <1>1
  <2>2. Share(InitialEquity - cash, InitialEquity) \in Int
    BY <1>1, <2>1, ShareType
  <2> QED
    BY <2>2 DEF TotalReturn
<1> QED
  BY <1>1, <1>2, MaxDrawdownProperties DEF Score

\* A fall to c weighs at least as much against a higher peak.
LEMMA HigherPeakLosesMore ==
  ASSUME NEW low \in Nat \ {0}, NEW high \in Nat, low <= high,
         NEW c \in Nat
  PROVE  Share(low - c, low) <= Share(high - c, high)
<1> DEFINE P == Precise
           a == Share(low - c, low)
           b == Share(high - c, high)
<1>1. P \in Nat \ {0}
  BY RatesAssumption DEF Precise
<1>2. high \in Nat \ {0} /\ low - c \in Int /\ high - c \in Int
  OBVIOUS
<1>3. a \in Int /\ b \in Int
  BY <1>2, ShareType
<1> HIDE DEF P
<1>4. (low - c) * P \in Int /\ (high - c) * P \in Int
  BY <1>1, <1>2
<1>5. a * low <= (low - c) * P
  BY <1>4, DivBounds DEF Share, P
<1>6. (high - c) * P < b * high + high
  BY <1>2, <1>4, DivBounds DEF Share, P
<1> HIDE DEF a, b
<1>7. /\ (low - c) * P = low * P - c * P /\ (high - c) * P = high * P - c * P
      /\ low * P \in Nat /\ high * P \in Nat /\ c * P \in Nat
  BY <1>1
<1>8. (P - a) * low = low * P - a * low /\ a * low \in Int /\ a * high \in Int
      /\ (P - a) * high = high * P - a * high
  BY <1>1, <1>2, <1>3
<1>9. c * P <= (P - a) * low
  BY <1>5, <1>7, <1>8
<1>10. P - a \in Nat
  <2>1. CASE P - a < 0
    <3>1. (a - P) \in Nat \ {0}
      BY <1>1, <1>3, <2>1
    <3>2. (a - P) * low > 0
      BY <3>1
    <3>3. (P - a) * low = -((a - P) * low) /\ (a - P) * low \in Int
      BY <1>1, <1>3
    <3>4. FALSE
      BY <1>7, <1>9, <3>2, <3>3
    <3> QED
      BY <3>4
  <2> QED
    BY <1>1, <1>3, <2>1
<1>11. (P - a) * low <= (P - a) * high
  BY <1>2, <1>10, TimesMonotone
<1>12. a * high <= (high - c) * P
  <2>1. c * P <= (P - a) * high
    BY <1>7, <1>8, <1>9, <1>11
  <2> QED
    BY <1>7, <1>8, <2>1
<1>13. a * high < b * high + high
  <2>1. b * high \in Int
    BY <1>2, <1>3
  <2> QED
    BY <1>2, <1>4, <1>6, <1>8, <1>12, <2>1
<1>14. CASE a > b
  <2>1. b + 1 <= a /\ a - (b + 1) \in Nat
    BY <1>3, <1>14
  <2>2. (a - (b + 1)) * high >= 0 /\ (a - (b + 1)) * high = a * high - (b * high + high)
    BY <1>2, <1>3, <2>1
  <2>3. b * high \in Int
    BY <1>2, <1>3
  <2>4. FALSE
    BY <1>2, <1>8, <1>13, <2>2, <2>3
  <2> QED
    BY <2>4
<1> QED
  BY <1>3, <1>14 DEF a, b

\* In a run that is over the trades account for all the cash, and the result
\* shows the drawdown of what was lost.
LEMMA ResultHolds ==
  ASSUME RunInv
  PROVE  AllAccountedFor /\ DrawdownCoversLoss
<1> SUFFICES ASSUME IsOver
             PROVE  /\ position = None /\ pending = None /\ Last(curve) = cash
                    /\ cash = InitialEquity + trades.net
                    /\ cash > 0 => -TotalReturn <= MaxDrawdown
  BY DEF AllAccountedFor, DrawdownCoversLoss
<1> DEFINE n == Len(curve)
<1>1. /\ candles \in Seq(Candles) /\ Len(candles) > MinHistory /\ MinHistory \in Nat \ {0}
      /\ index = Len(candles) + 1 /\ curve \in Seq(Int) /\ n = Len(candles)
      /\ cash \in Int /\ trades.net \in Int
  BY LengthAssumption DEF RunInv, TypeOK, IsOver, Enough, Least
<1>2. position = None /\ pending = None
  BY <1>1 DEF RunInv, OnTime
<1>3. curve[1] = InitialEquity /\ curve[n] = cash
  BY <1>1, <1>2 DEF RunInv, Drawn
<1>4. Last(curve) = cash
  BY <1>1, <1>3 DEF Last
<1>5. cash = InitialEquity + trades.net
  BY <1>1, <1>2, RunnerAssumption DEF RunInv, Balanced
<1>6. ASSUME cash > 0
      PROVE  -TotalReturn <= MaxDrawdown
  <2>1. n \in DOMAIN curve /\ 1 \in 1..n /\ n \in 1..n
    BY <1>1
  <2>2. /\ Peak(n) \in Int /\ InitialEquity <= Peak(n) /\ InitialEquity \in Nat \ {0}
        /\ cash \in Nat
    BY <1>1, <1>3, <1>6, <2>1, PeakProperties, RunnerAssumption
  <2>3. Peak(n) \in Nat /\ Peak(n) > 0
    BY <2>2
  <2>4. Share(Peak(n) - cash, Peak(n)) <= MaxDrawdown
    BY <1>1, <1>3, <2>1, <2>3, MaxDrawdownProperties
  <2>5. Share(InitialEquity - cash, InitialEquity) <= Share(Peak(n) - cash, Peak(n))
    BY <2>2, <2>3, HigherPeakLosesMore
  <2>6. /\ Share(InitialEquity - cash, InitialEquity) \in Int
        /\ Share(Peak(n) - cash, Peak(n)) \in Int /\ MaxDrawdown \in Int
    <3>1. InitialEquity - cash \in Int /\ Peak(n) - cash \in Int /\ Peak(n) \in Nat \ {0}
      BY <2>2, <2>3
    <3> QED
      BY <1>1, <2>2, <3>1, ShareType, MaxDrawdownProperties
  <2>7. -TotalReturn = Share(InitialEquity - cash, InitialEquity)
    BY <2>6 DEF TotalReturn
  <2> QED
    BY <2>4, <2>5, <2>6, <2>7
<1> QED
  BY <1>2, <1>4, <1>5, <1>6

-----------------------------------------------------------------------------
(* The walk                                                                *)

\* There is a first among the best scores.
LEMMA BestProperties ==
  ASSUME NEW given \in Seq(Int), given # <<>>
  PROVE  /\ Best(given) \in DOMAIN given
         /\ \A q \in DOMAIN given :
              /\ given[q] <= given[Best(given)]
              /\ q < Best(given) => given[q] < given[Best(given)]
<1> DEFINE D == DOMAIN given
<1>1. D = 1..Len(given) /\ Len(given) \in Nat /\ 1 \in D /\ \A i \in D : given[i] \in Int
  OBVIOUS
<1>2. IsFiniteSet(D)
  <2>1. 1 \in Int /\ Len(given) \in Int
    BY <1>1
  <2> QED
    BY <1>1, <2>1, FS_Interval
<1>3. PICK m \in D : \A i \in D : given[i] <= given[m]
  BY <1>1, <1>2, GreatestExists
<1> DEFINE tops == {i \in D : given[i] = given[m]}
           minus == [i \in tops |-> -i]
<1>4. IsFiniteSet(tops) /\ tops # {} /\ \A i \in tops : minus[i] \in Int /\ i \in Int
  <2>1. IsFiniteSet(tops)
    BY <1>2, FS_Subset
  <2> QED
    BY <1>1, <2>1
<1>5. PICK p \in tops : \A i \in tops : minus[i] <= minus[p]
  <2> HIDE DEF tops, minus
  <2> QED
    BY <1>4, GreatestExists
<1>6. p \in Int /\ \A i \in tops : i \in Int /\ p <= i
  BY <1>4, <1>5
<1>7. \A j \in D : given[j] < given[p] \/ (given[j] = given[p] /\ p <= j)
  BY <1>1, <1>3, <1>6
<1>8. \A j \in D : given[j] < given[Best(given)]
                   \/ (given[j] = given[Best(given)] /\ Best(given) <= j)
  BY <1>7 DEF Best
<1>9. Best(given) \in D
  BY <1>7 DEF Best
<1> QED
  BY <1>1, <1>8, <1>9

\* The training candles of a fold that fits, and its test's with the warm-up.
LEMMA FoldCandles ==
  ASSUME data \in Histories, NEW at \in Nat, FoldFits(at)
  PROVE  /\ Train(at) \in Seq(Candles) /\ Enough(Train(at))
         /\ Test(at) \in Seq(Candles) /\ Len(Test(at)) = WarmUp + TestSize
         /\ TestPlaces(at) \subseteq DOMAIN data
<1>1. /\ MinHistory \in Nat /\ MinHistory > 1 /\ TrainSize \in Nat /\ TestSize \in Nat \ {0}
      /\ TrainSize >= MinHistory + 1 /\ data \in Seq(Candles) /\ Len(data) \in Nat
      /\ at + TrainSize + TestSize <= Len(data)
  BY LengthAssumption, WalkAssumption DEF FoldFits
<1> DEFINE first == at + TrainSize + 1
           last == at + TrainSize + TestSize
<1>2. first \in Nat /\ last \in Nat /\ first <= last /\ last <= Len(data)
  BY <1>1
<1>3. Train(at) \in Seq(Candles) /\ Len(Train(at)) = TrainSize
  <2>1. \A i \in (at + 1)..(at + TrainSize) : data[i] \in Candles
    BY <1>1
  <2>2. at + 1 \in Int /\ at + TrainSize \in Int
    BY <1>1
  <2>3. /\ SubSeq(data, at + 1, at + TrainSize) \in Seq(Candles)
        /\ Len(SubSeq(data, at + 1, at + TrainSize))
             = IF at + 1 <= at + TrainSize THEN (at + TrainSize) - (at + 1) + 1 ELSE 0
    BY <2>1, <2>2, SubSeqProperties
  <2> QED
    BY <1>1, <2>3 DEF Train
<1>4. TestPlaces(at) = first..last
  BY DEF TestPlaces
<1> HIDE DEF first, last
<1>5. Min(TestPlaces(at)) = first /\ Max(TestPlaces(at)) = last
  BY <1>2, <1>4, IntervalEnds
<1> DEFINE from == first - WarmUp
<1>7. from \in Nat \ {0} /\ from <= last /\ last - from + 1 = WarmUp + TestSize
  BY <1>1, <1>2 DEF first, last, WarmUp
<1> HIDE DEF from
<1>8. Test(at) = SubSeq(data, from, last)
  BY <1>5 DEF Test, from
<1>9. Test(at) \in Seq(Candles) /\ Len(Test(at)) = WarmUp + TestSize
  <2>1. \A i \in from..last : data[i] \in Candles
    BY <1>1, <1>2, <1>7
  <2>2. from \in Int /\ last \in Int
    BY <1>2, <1>7
  <2>3. /\ SubSeq(data, from, last) \in Seq(Candles)
        /\ Len(SubSeq(data, from, last)) = IF from <= last THEN last - from + 1 ELSE 0
    BY <2>1, <2>2, SubSeqProperties
  <2> QED
    BY <1>7, <1>8, <2>3
<1>10. TestPlaces(at) \subseteq DOMAIN data
  <2>1. DOMAIN data = 1..Len(data) /\ first >= 1
    BY <1>1 DEF first
  <2> QED
    BY <1>1, <1>2, <1>4, <2>1
<1> QED
  BY <1>1, <1>3, <1>9, <1>10 DEF Enough

\* What a test run has queued or holds was asked for by the best parameters.
AskedByBest ==
  /\ pending # None => pending.atr \in Grid[Best(scores)]
  /\ position # None =>
       \E atr \in Grid[Best(scores)] :
         Direction(position.side) * (position.entry - position.stop)
           = atr * StopAtrMultiple

\* The invariant of the walk.
WalkInv ==
  /\ RunInv /\ TypeOKWalk
  /\ Walking /\ Testing => AskedByBest /\ Len(candles) = WarmUp + TestSize
  /\ Walking /\ Step >= TestSize => \A place \in tested : place <= start + TrainSize

LEMMA StepType ==
  Step \in Nat
BY WalkAssumption, NoneAssumption DEF Step

LEMMA InitWalkInv ==
  ASSUME InitWalk
  PROVE  WalkInv
<1>1. candles \in Seq(Candles) /\ Enough(candles)
  <2>1. CASE data = None /\ Init
    <3>1. candles \in [1..Length -> Candles]
      BY <2>1 DEF Init
    <3> QED
      BY <3>1, LengthAssumption DEF Enough
  <2>2. CASE data \in Histories /\ candles = Train(0)
    <3>1. FoldFits(0) /\ 0 \in Nat
      BY <2>2, WalkAssumption DEF FoldFits
    <3> QED
      BY <2>2, <3>1, FoldCandles
  <2> QED
    BY <2>1, <2>2 DEF InitWalk
<1>2. RunInv
  BY <1>1, FreshInv DEF InitWalk, Init
<1>3. TypeOKWalk
  BY <1>2, WalkAssumption DEF InitWalk, TypeOKWalk, RunInv
<1>4. ~Testing
  BY WalkAssumption DEF InitWalk, Testing
<1> QED
  BY <1>2, <1>3, <1>4 DEF WalkInv, InitWalk

\* A run that begins keeps to the invariant of a run.
LEMMA BeginInv ==
  ASSUME NEW run, run \in Seq(Candles), Begin(run)
  PROVE  RunInv' /\ candles' = run /\ pending' = None /\ position' = None
<1>1. /\ candles' = run /\ Enough(run)
      /\ index' = 0 /\ cash' = InitialEquity /\ curve' = <<>> /\ position' = None
      /\ pending' = None /\ trades' = [net |-> 0, last |-> 0]
  BY DEF Begin, Fresh
<1>2. TypeOK'
  BY <1>1, RunnerAssumption DEF TypeOK, Enough, Least
<1>3. Balanced' /\ OnTime' /\ Drawn'
  BY <1>1, RunnerAssumption DEF Balanced, OnTime, Drawn
<1> QED
  BY <1>1, <1>2, <1>3 DEF RunInv

LEMMA SingleKeeps ==
  ASSUME WalkInv, Single
  PROVE  WalkInv'
<1>1. RunInv'
  BY BarKeeps, EndKeeps DEF Single, Next, WalkInv
<1>2. ~Walking' /\ UNCHANGED walkVars
  BY DEF Single, Walking, walkVars
<1>3. TypeOKWalk'
  BY <1>1, <1>2 DEF WalkInv, RunInv, TypeOKWalk, walkVars
<1> QED
  BY <1>1, <1>2, <1>3 DEF WalkInv

\* A candle's step of a test run holds only what the best parameters asked
\* for, and queues only what they ask for.
LEMMA RunAsksTheBest ==
  ASSUME WalkInv, Run, Walking, Testing
  PROVE  AskedByBest'
<1>1. UNCHANGED scores /\ AskedByBest /\ RunInv
  BY DEF Run, walkVars, WalkInv
<1>2. Best(scores)' = Best(scores)
  BY <1>1 DEF Best
<1>3. pending' # None => pending'.atr \in Grid[Best(scores)]
  BY DEF Run, Parameters
<1>4. ASSUME position' # None
      PROVE  \E atr \in Grid[Best(scores)] :
               Direction(position'.side) * (position'.entry - position'.stop)
                 = atr * StopAtrMultiple
  <2>1. CASE EndOfData
    BY <1>1, <1>4, <2>1 DEF EndOfData, AskedByBest, Becomes, ClosedAt
  <2>2. CASE Bar(None) /\ position # None
    <3>1. Alike(position', position)
      BY <1>1, <1>4, <2>2, BarSteps
    <3> QED
      BY <1>1, <2>2, <3>1 DEF Alike, AskedByBest
  <2>3. CASE Bar(None) /\ position = None
    <3> DEFINE candle == candles[index + 1]
               held == Holding(pending, candle, cash, index + 1)
               away == StopAway(pending)
               entry == EntryAt(pending, candle)
    <3>1. /\ pending # None /\ Alike(position', held) /\ candle \in Candles
          /\ pending \in Signals(index)
      BY <1>1, <1>4, <2>3, BarSteps
    <3>2. pending.side \in Sides /\ pending.atr \in Nat /\ candle.open \in Nat
      BY <3>1, AtrsAssumption, CandlesAssumption DEF Signals, Price
    <3>3. away \in Nat /\ entry \in Nat
      <4>1. away \in Nat
        BY <3>2, RunnerAssumption DEF StopAway
      <4>2. entry \in Nat
        BY <3>2, SlippedNat DEF EntryAt
      <4> QED
        BY <4>1, <4>2
    <3>4. /\ position'.side = pending.side /\ position'.entry = entry
          /\ position'.stop = entry - Direction(pending.side) * away
      BY <3>1 DEF Alike, Holding
    <3> HIDE DEF away, entry
    <3>5. Direction(position'.side) * (position'.entry - position'.stop) = away
      <4>1. CASE pending.side = "LONG"
        BY <3>3, <3>4, <4>1 DEF Direction
      <4>2. CASE pending.side # "LONG"
        BY <3>3, <3>4, <4>2 DEF Direction
      <4> QED
        BY <4>1, <4>2
    <3> QED
      BY <1>1, <3>1, <3>5 DEF away, StopAway, AskedByBest
  <2> QED
    BY <2>1, <2>2, <2>3 DEF Run
<1> QED
  BY <1>2, <1>3, <1>4 DEF AskedByBest

LEMMA RunKeeps ==
  ASSUME WalkInv, Run
  PROVE  WalkInv'
<1>1. RunInv' /\ candles' = candles
  BY BarKeeps, EndKeeps DEF Run, WalkInv, Bar, EndOfData
<1>2. UNCHANGED <<data, start, scores, tested>> /\ Walking /\ Walking'
  BY DEF Run, walkVars, Walking
<1>3. TypeOKWalk'
  BY <1>1, <1>2 DEF WalkInv, RunInv, TypeOKWalk
<1>4. Testing' => AskedByBest' /\ Len(candles') = WarmUp + TestSize
  BY <1>1, <1>2, RunAsksTheBest DEF Testing, WalkInv
<1> QED
  BY <1>1, <1>2, <1>3, <1>4 DEF WalkInv

LEMMA TrainDoneKeeps ==
  ASSUME WalkInv, TrainDone
  PROVE  WalkInv'
<1> DEFINE last == ~(Len(scores) + 1 < Len(Grid))
           run == IF last THEN Test(start) ELSE Train(start)
<1>1. /\ data \in Histories /\ start \in Nat /\ FoldFits(start) /\ Walking
      /\ scores \in Seq(Int) /\ Len(scores) <= Len(Grid) /\ Len(scores) # Len(Grid)
      /\ Len(Grid) \in Nat
  BY WalkAssumption DEF TrainDone, Walking, Testing, WalkInv, TypeOKWalk
<1>2. UNCHANGED <<data, start, tested>> /\ Walking'
  BY DEF TrainDone, Walking
<1>3. scores' \in Seq(Int) /\ Len(scores') = Len(scores) + 1 /\ Len(scores') <= Len(Grid)
  <2>1. Score \in Int
    BY ScoreType DEF WalkInv
  <2>2. scores' = Append(scores, Score)
    BY DEF TrainDone
  <2> HIDE DEF Score
  <2> QED
    BY <1>1, <2>1, <2>2
<1>4. Begin(run) /\ run \in Seq(Candles)
  BY <1>1, FoldCandles DEF TrainDone
<1>5. RunInv' /\ candles' = run /\ pending' = None /\ position' = None
  BY <1>4, BeginInv
<1>6. TypeOKWalk'
  BY <1>2, <1>3, <1>5 DEF WalkInv, RunInv, TypeOKWalk, Walking
<1>7. Testing' => Len(candles') = WarmUp + TestSize
  BY <1>1, <1>3, <1>5, FoldCandles DEF Testing
<1>8. AskedByBest'
  BY <1>5 DEF AskedByBest
<1>9. Step >= TestSize => \A place \in tested' : place <= start' + TrainSize
  BY <1>1, <1>2 DEF WalkInv
<1> QED
  BY <1>5, <1>6, <1>7, <1>8, <1>9 DEF WalkInv

LEMMA TestDoneKeeps ==
  ASSUME WalkInv, TestDone
  PROVE  WalkInv'
<1>1. /\ data \in Histories /\ start \in Nat /\ FoldFits(start) /\ Walking
      /\ tested \subseteq DOMAIN data
  BY DEF TestDone, Walking, WalkInv, TypeOKWalk
<1>2. UNCHANGED data /\ Walking' /\ scores' = <<>> /\ start' = start + Step
      /\ tested' = tested \union TestPlaces(start)
  BY DEF TestDone, Walking
<1>3. start' \in Nat /\ Step \in Nat
  BY <1>1, <1>2, StepType
<1>4. RunInv'
  <2>1. CASE FoldFits(start')
    <3>1. Begin(Train(start')) /\ Train(start') \in Seq(Candles)
      BY <1>1, <1>3, <2>1, FoldCandles DEF TestDone
    <3> QED
      BY <3>1, BeginInv
  <2>2. CASE ~FoldFits(start')
    <3>1. UNCHANGED vars
      BY <2>2 DEF TestDone
    <3> QED
      BY <3>1 DEF vars, WalkInv, RunInv, TypeOK, Balanced, OnTime, Drawn, Enough
  <2> QED
    BY <2>1, <2>2
<1>5. TypeOKWalk'
  <2>1. tested' \subseteq DOMAIN data
    BY <1>1, <1>2, FoldCandles
  <2>2. scores' \in Seq(Int) /\ Len(scores') <= Len(Grid)
    BY <1>2, WalkAssumption
  <2> QED
    BY <1>1, <1>2, <1>3, <1>4, <2>1, <2>2 DEF TypeOKWalk, RunInv
<1>6. ~Testing'
  BY <1>2, WalkAssumption DEF Testing
<1>7. ASSUME Step >= TestSize, NEW place \in tested'
      PROVE  place <= start' + TrainSize
  <2>1. TrainSize \in Nat /\ TestSize \in Nat
    BY WalkAssumption
  <2>2. CASE place \in tested
    <3>1. place \in Int
      BY <1>1, <2>2, WalkAssumption
    <3>2. place <= start + TrainSize
      BY <1>1, <1>7, <2>2 DEF WalkInv
    <3> QED
      BY <1>1, <1>2, <1>3, <2>1, <3>1, <3>2
  <2>3. CASE place \in TestPlaces(start)
    BY <1>1, <1>2, <1>3, <1>7, <2>1, <2>3 DEF TestPlaces
  <2> QED
    BY <1>2, <2>2, <2>3
<1> QED
  BY <1>2, <1>4, <1>5, <1>6, <1>7 DEF WalkInv

LEMMA WalkInvHolds ==
  SpecWalk => []WalkInv
<1>1. InitWalk => WalkInv
  BY InitWalkInv
<1>2. WalkInv /\ [NextWalk]_allVars => WalkInv'
  <2> SUFFICES ASSUME WalkInv, [NextWalk]_allVars
               PROVE  WalkInv'
    OBVIOUS
  <2>1. CASE Single
    BY <2>1, SingleKeeps
  <2>2. CASE Run
    BY <2>2, RunKeeps
  <2>3. CASE TrainDone
    BY <2>3, TrainDoneKeeps
  <2>4. CASE TestDone
    BY <2>4, TestDoneKeeps
  <2>5. CASE UNCHANGED allVars
    BY <2>5 DEF allVars, vars, walkVars, WalkInv, RunInv, TypeOK, Balanced, OnTime, Drawn,
                TypeOKWalk, AskedByBest, Walking, Testing, Enough
  <2> QED
    BY <2>1, <2>2, <2>3, <2>4, <2>5 DEF NextWalk
<1> QED
  BY <1>1, <1>2, PTL DEF SpecWalk

-----------------------------------------------------------------------------
(* Theorems                                                                *)

\* The walk is type correct: every run it starts has candles enough, its curve
\* has a point per candle and the places tested are places of the data.
THEOREM WalkTypeCorrect ==
  SpecWalk => []TypeOKWalk
<1>1. WalkInv => TypeOKWalk
  BY DEF WalkInv
<1> QED
  BY <1>1, WalkInvHolds, PTL

\* At every candle of every run the cash is the initial equity, the trades'
\* net profit and what the open position has been paid and charged.
THEOREM BacktestBalances ==
  SpecWalk => []Balanced
<1>1. WalkInv => Balanced
  BY DEF WalkInv, RunInv
<1> QED
  BY <1>1, WalkInvHolds, PTL

\* A run that is over holds nothing, and its return, its curve and its trades
\* tell of the same equity.
THEOREM ResultAddsUp ==
  SpecWalk => []AllAccountedFor
<1>1. WalkInv => AllAccountedFor
  BY ResultHolds DEF WalkInv
<1> QED
  BY <1>1, WalkInvHolds, PTL

\* The drawdown of a result is no smaller than what the run lost.
THEOREM LossIsDrawn ==
  SpecWalk => []DrawdownCoversLoss
<1>1. WalkInv => DrawdownCoversLoss
  BY ResultHolds DEF WalkInv
<1> QED
  BY <1>1, WalkInvHolds, PTL

\* What a test run trades was asked for on a candle of the test, by the first
\* of the parameters that did best in training.
THEOREM TestIsOfTheBest ==
  SpecWalk => []TestsTheBest
<1>1. WalkInv => TestsTheBest
  <2> SUFFICES ASSUME WalkInv, Walking, Testing
               PROVE  /\ position # None =>
                           /\ Place(position.time) - 1 \in TestPlaces(start)
                           /\ \E p \in DOMAIN scores :
                                /\ \E atr \in Grid[p] :
                                     Direction(position.side) * (position.entry - position.stop)
                                       = atr * StopAtrMultiple
                                /\ \A q \in DOMAIN scores :
                                     /\ scores[q] <= scores[p]
                                     /\ (q < p => scores[q] < scores[p])
                      /\ trades.last # 0 => Place(trades.last) - 1 \in TestPlaces(start)
    BY DEF TestsTheBest
  <2>1. /\ start \in Nat /\ TrainSize \in Nat /\ TestSize \in Nat /\ MinHistory \in Nat
        /\ index \in Nat /\ Len(candles) = MinHistory - 1 + TestSize
    BY WalkAssumption, LengthAssumption
       DEF WalkInv, RunInv, TypeOK, TypeOKWalk, WarmUp, Enough
  <2>2. ASSUME NEW k \in (MinHistory + 1)..index, k <= Len(candles)
        PROVE  Place(k) - 1 \in TestPlaces(start)
    BY <2>1, <2>2 DEF Place, TestPlaces, WarmUp
  <2>3. scores \in Seq(Int) /\ scores # <<>>
    BY WalkAssumption DEF WalkInv, TypeOKWalk, Testing
  <2>4. /\ position # None => /\ position.time \in (MinHistory + 1)..index
                              /\ index <= Len(candles)
        /\ trades.last # 0 => /\ trades.last \in (MinHistory + 1)..index
                              /\ trades.last <= Len(candles)
    BY DEF WalkInv, RunInv, OnTime
  <2>5. position # None => Place(position.time) - 1 \in TestPlaces(start)
    BY <2>1, <2>2, <2>4
  <2>6. trades.last # 0 => Place(trades.last) - 1 \in TestPlaces(start)
    BY <2>2, <2>4
  <2>7. AskedByBest
    BY DEF WalkInv
  <2> QED
    BY <2>3, <2>5, <2>6, <2>7, BestProperties DEF AskedByBest
<1> QED
  BY <1>1, WalkInvHolds, PTL

\* With a step of at least the test's size no candle is tested twice and none
\* is tested on parameters it was trained on.
THEOREM TestsMoveForward ==
  SpecWalk => TestsMoveOn
<1>1. WalkInv /\ [NextWalk]_allVars => [(Step >= TestSize) => MovesOn]_tested
  <2> SUFFICES ASSUME WalkInv, [NextWalk]_allVars, Step >= TestSize, tested' # tested
               PROVE  MovesOn
    OBVIOUS
  <2>1. TestDone
    BY DEF NextWalk, Single, Run, TrainDone, allVars, walkVars
  <2>2. /\ start \in Nat /\ TrainSize \in Nat /\ TestSize \in Nat \ {0}
        /\ tested' = tested \union TestPlaces(start)
        /\ \A old \in tested : old \in Int /\ old <= start + TrainSize
    BY <2>1, WalkAssumption DEF TestDone, WalkInv, TypeOKWalk, Walking
  <2>3. TestPlaces(start) \intersect tested = {}
    BY <2>2 DEF TestPlaces
  <2>4. tested' \ tested = TestPlaces(start)
    BY <2>2, <2>3
  <2>5. Cardinality(TestPlaces(start)) = TestSize
    <3> DEFINE first == start + TrainSize + 1
               last == start + TrainSize + TestSize
    <3>1. first \in Int /\ last \in Int /\ ~(first > last) /\ last - first + 1 = TestSize
      BY <2>2
    <3>2. TestPlaces(start) = first..last
      BY DEF TestPlaces
    <3> HIDE DEF first, last
    <3>3. Cardinality(first..last) = IF first > last THEN 0 ELSE last - first + 1
      BY <3>1, FS_Interval
    <3> QED
      BY <3>1, <3>2, <3>3
  <2>6. \A place \in TestPlaces(start) : place > start + TrainSize
    BY <2>2 DEF TestPlaces
  <2>7. \A old \in tested, place \in TestPlaces(start) : old < place
    BY <2>2 DEF TestPlaces
  <2> QED
    BY <2>4, <2>5, <2>6, <2>7 DEF MovesOn
<1> QED
  BY <1>1, WalkInvHolds, PTL DEF SpecWalk, TestsMoveOn

\* Every position of a backtest costs at most the configured fraction of the
\* cash it is opened with, slippage included.
THEOREM SizeWithinFraction ==
  SpecWalk => WithinFraction
<1> DEFINE Bounded == position = None /\ position' # None
             => position'.entry * position'.quantity * Unit <= cash * PositionFraction
<1>1. WalkInv /\ [NextWalk]_allVars => [Bounded]_vars
  <2> SUFFICES ASSUME WalkInv, [NextWalk]_allVars, position = None, position' # None
               PROVE  position'.entry * position'.quantity * Unit <= cash * PositionFraction
    OBVIOUS
  <2>1. PICK rate \in FundingRates \union {None} : Bar(rate)
    BY DEF NextWalk, Single, Next, Run, TrainDone, TestDone, Begin, Fresh, EndOfData,
           allVars, vars
  <2>2. RunInv
    BY DEF WalkInv
  <2> DEFINE candle == candles[index + 1]
  <2>3. /\ pending # None /\ pending \in Signals(index) /\ candle \in Candles
        /\ Holds(pending, candle, cash)
        /\ Alike(position', Holding(pending, candle, cash, index + 1))
    BY <2>1, <2>2, BarSteps
  <2>4. index \in Nat /\ cash \in Int
    BY <2>2 DEF RunInv, TypeOK, Enough
  <2>5. EntryAt(pending, candle) * Size(pending, candle, cash) * Unit
          <= cash * PositionFraction
    BY <2>3, <2>4, HoldingType
  <2>6. /\ position'.entry = EntryAt(pending, candle)
        /\ position'.quantity = Size(pending, candle, cash)
    BY <2>3 DEF Alike, Holding
  <2> QED
    BY <2>5, <2>6
<1> QED
  BY <1>1, WalkInvHolds, PTL DEF SpecWalk, WithinFraction
=============================================================================

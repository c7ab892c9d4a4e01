------------------------- MODULE TradingRulesProofs -------------------------
(***************************************************************************)
(* Lemmas about the trading rules: the types and the bounds of prices,     *)
(* fees and quantities, for every value of the rates.                      *)
(***************************************************************************)
EXTENDS TradingRules, TLAPS

\* An amount scaled by a rate is an integer, and a natural number if both are.
LEMMA OfInt ==
  ASSUME NEW amount \in Int, NEW rate \in Int
  PROVE  Of(amount, rate) \in Int
<1>1. amount * rate \in Int
  OBVIOUS
<1> QED
  BY <1>1, RatesAssumption DEF Of

LEMMA OfNat ==
  ASSUME NEW amount \in Nat, NEW rate \in Nat
  PROVE  Of(amount, rate) \in Nat
<1>1. amount * rate \in Nat
  OBVIOUS
<1> QED
  BY <1>1, RatesAssumption DEF Of

\* A slipped price is a natural number.
LEMMA SlippedNat ==
  ASSUME NEW price \in Nat, NEW side \in Sides, NEW entering \in BOOLEAN
  PROVE  Slipped(price, side, entering) \in Nat
<1>1. Unit + Slippage \in Nat /\ Unit - Slippage \in Nat
  BY RatesAssumption
<1>2. Of(price, Unit + Slippage) \in Nat
  BY <1>1, OfNat
<1>3. Of(price, Unit - Slippage) \in Nat
  BY <1>1, OfNat
<1> QED
  BY <1>2, <1>3 DEF Slipped

\* An approved quantity is a natural number.
LEMMA QuantityNat ==
  ASSUME NEW proposal \in [side : Sides, entry : Price, leverage : Nat, stop : Int],
         NEW account \in [equity : Int, dailyPnl : Int, openPositions : Nat],
         Approved(proposal, account)
  PROVE  Quantity(proposal, account) \in Nat \ {0}
<1> DEFINE distance == StopDistance(proposal)
           byRisk == Of(account.equity, RiskPerTrade)
           byNotional == Of(account.equity, PositionFraction)
<1>1. account.equity \in Nat
  BY DEF Approved, Admissible
<1>2. proposal.entry \in Nat \ {0} /\ proposal.stop \in Int
  BY DEF Price
<1>3. distance \in Nat \ {0}
  BY <1>2 DEF Approved, StopProtects, StopDistance, Greatest
<1>4. byRisk \in Nat
  BY <1>1, OfNat, SettingsAssumption DEF ValidSettings
<1>5. byNotional \in Nat
  BY <1>1, OfNat, SettingsAssumption DEF ValidSettings
<1>6. byRisk \div distance \in Nat
  BY <1>3, <1>4
<1>7. byNotional \div proposal.entry \in Nat
  BY <1>2, <1>5
<1>8. Quantity(proposal, account) = Least(byRisk \div distance, byNotional \div proposal.entry)
  BY DEF Quantity
<1>9. Quantity(proposal, account) \in Nat
  BY <1>6, <1>7, <1>8 DEF Least
<1> QED
  BY <1>9 DEF Approved

\* Rounding down loses less than one unit of the quotient.
LEMMA DivBounds ==
  ASSUME NEW a \in Int, NEW d \in Nat \ {0}
  PROVE  /\ (a \div d) * d <= a
         /\ a < (a \div d) * d + d
OBVIOUS

\* A scaled amount never exceeds the exact product.
LEMMA OfBounds ==
  ASSUME NEW amount \in Nat, NEW rate \in Nat
  PROVE  Of(amount, rate) * Unit <= amount * rate
BY DivBounds, RatesAssumption DEF Of

\* Products of natural numbers are monotone.
LEMMA TimesMonotone ==
  ASSUME NEW a \in Nat, NEW b \in Nat, NEW c \in Nat, a <= b
  PROVE  a * c <= b * c /\ c * a <= c * b
OBVIOUS

LEMMA TimesStrict ==
  ASSUME NEW a \in Nat, NEW b \in Nat, NEW c \in Nat \ {0}, a < b
  PROVE  a * c < b * c /\ c * a < c * b
OBVIOUS

\* An approved quantity's notional is at most the fraction of the equity.
LEMMA QuantityWithinFraction ==
  ASSUME NEW proposal \in [side : Sides, entry : Price, leverage : Nat, stop : Int],
         NEW account \in [equity : Int, dailyPnl : Int, openPositions : Nat],
         Approved(proposal, account)
  PROVE  Quantity(proposal, account) * proposal.entry * Unit
           <= account.equity * PositionFraction
<1> DEFINE q == Quantity(proposal, account)
           e == proposal.entry
           allowed == Of(account.equity, PositionFraction)
           d == StopDistance(proposal)
           byRisk == Of(account.equity, RiskPerTrade)
<1>1. account.equity \in Nat /\ PositionFraction \in Nat /\ RiskPerTrade \in Nat
  BY SettingsAssumption DEF Approved, Admissible, ValidSettings
<1>2. e \in Nat \ {0} /\ q \in Nat /\ Unit \in Nat
  BY QuantityNat, RatesAssumption DEF Price
<1>3. allowed \in Nat /\ byRisk \in Nat
  BY <1>1, OfNat
<1>4. allowed * Unit <= account.equity * PositionFraction
  BY <1>1, OfBounds
<1>5. d \in Nat \ {0}
  BY DEF Approved, StopProtects, StopDistance, Greatest, Price
<1>6. q = Least(byRisk \div d, allowed \div e)
  BY DEF Quantity
<1> HIDE DEF q, e, allowed, d, byRisk
<1>7. byRisk \div d \in Nat /\ allowed \div e \in Nat
  BY <1>2, <1>3, <1>5
<1>8. q <= allowed \div e
  BY <1>6, <1>7 DEF Least
<1>9. (allowed \div e) * e <= allowed
  BY <1>2, <1>3, DivBounds
<1>10. q * e <= (allowed \div e) * e
  BY <1>2, <1>7, <1>8, TimesMonotone
<1>11. q * e <= allowed /\ q * e \in Nat
  BY <1>2, <1>3, <1>7, <1>9, <1>10
<1>12. q * e * Unit <= allowed * Unit
  BY <1>2, <1>3, <1>11, TimesMonotone
<1>13. q * e * Unit \in Nat /\ allowed * Unit \in Nat
       /\ account.equity * PositionFraction \in Nat
  BY <1>1, <1>2, <1>3, <1>11
<1>14. q * e * Unit <= account.equity * PositionFraction
  BY <1>4, <1>12, <1>13
<1> QED
  BY <1>14 DEF q, e

\* A fill costs less than twice the price it slipped from.
LEMMA SlippedBelowTwice ==
  ASSUME NEW price \in Price, NEW side \in Sides, NEW entering \in BOOLEAN
  PROVE  Slipped(price, side, entering) < 2 * price
<1> DEFINE up == Unit + Slippage
           down == Unit - Slippage
<1>1. up \in Nat /\ down \in Nat /\ up < 2 * Unit /\ down < 2 * Unit /\ Unit \in Nat \ {0}
  BY RatesAssumption
<1>2. ASSUME NEW rate \in Nat, rate < 2 * Unit
      PROVE  Of(price, rate) < 2 * price
  <2>1. price \in Nat \ {0} /\ Of(price, rate) \in Nat
    BY OfNat DEF Price
  <2>2. Of(price, rate) * Unit <= price * rate
    BY <2>1, OfBounds
  <2>3. price * rate < price * (2 * Unit)
    BY <1>1, <1>2, <2>1, TimesStrict
  <2>4. price * (2 * Unit) = (2 * price) * Unit
    BY <1>1, <2>1
  <2>5. CASE Of(price, rate) >= 2 * price
    <3>1. (2 * price) * Unit <= Of(price, rate) * Unit
      BY <1>1, <2>1, <2>5, TimesMonotone
    <3> QED
      BY <1>1, <1>2, <2>1, <2>2, <2>3, <2>4, <3>1
  <2> QED
    BY <2>1, <2>5
<1> QED
  BY <1>1, <1>2 DEF Slipped

=============================================================================

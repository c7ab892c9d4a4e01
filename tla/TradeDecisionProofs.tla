------------------------- MODULE TradeDecisionProofs -------------------------
(***************************************************************************)
(* What the decision keeps to, for any candles, periods and ratios, and    *)
(* whatever the reviewer answers.                                          *)
(***************************************************************************)
EXTENDS TradeDecision, FiniteSetTheorems, SequenceTheorems, TLAPS

-----------------------------------------------------------------------------
(* The caller's candles                                                    *)

CandleRecords ==
  [start : Nat, open : Nat, high : Nat, low : Nat, close : Nat \ {0}, volume : Nat]

\* The candles are typed and in the order of their starts, all before the
\* clock, and no more than the window.
HistoryInv ==
  /\ clock \in 0..MaxCandles
  /\ history \in Seq(CandleRecords) /\ Len(history) <= Window
  /\ \A i \in DOMAIN history : history[i].start < clock
  /\ \A i, j \in DOMAIN history : i < j => history[i].start < history[j].start

\* The last candles of a sequence.
LEMMA LastOfProperties ==
  ASSUME NEW S, NEW candles \in Seq(S), NEW n \in Nat
  PROVE  LET last == LastOf(candles, n)
             before == Len(candles) - Len(last)
         IN  /\ last \in Seq(S) /\ Len(last) <= n
             /\ before \in Nat
             /\ \A i \in 1..Len(last) : last[i] = candles[before + i]
<1>1. CASE Len(candles) <= n
  BY <1>1 DEF LastOf
<1>2. CASE ~(Len(candles) <= n)
  <2> DEFINE from == Len(candles) - n + 1
             last == SubSeq(candles, from, Len(candles))
  <2>1. from \in Nat \ {0} /\ from <= Len(candles) + 1 /\ LastOf(candles, n) = last
        /\ Len(candles) \in Nat
    BY <1>2 DEF LastOf
  <2>2. \A i \in from..Len(candles) : candles[i] \in S
    BY <2>1
  <2>3. /\ last \in Seq(S)
        /\ Len(last) = IF from <= Len(candles) THEN Len(candles) - from + 1 ELSE 0
        /\ \A i \in 1..(Len(candles) - from + 1) : last[i] = candles[from + i - 1]
    <3>1. from \in Int /\ Len(candles) \in Int
      BY <2>1
    <3> HIDE DEF from
    <3> QED
      BY <2>2, <3>1, SubSeqProperties
  <2>4. Len(last) = n
    BY <1>2, <2>1, <2>3
  <2>5. Len(candles) - n \in Nat
        /\ \A i \in 1..n : last[i] = candles[Len(candles) - n + i]
    BY <1>2, <2>1, <2>3
  <2> HIDE DEF last
  <2> QED
    BY <2>1, <2>3, <2>4, <2>5
<1> QED
  BY <1>1, <1>2

LEMMA CloseCandleKeeps ==
  ASSUME HistoryInv, CloseCandle
  PROVE  HistoryInv'
<1> DEFINE Given(shape) == Append(history, Candle(shape, clock))
<1>1. PICK shape \in Shapes : history' = LastOf(Given(shape), Window)
  BY DEF CloseCandle
<1> DEFINE more == Given(shape)
           before == Len(more) - Len(history')
<1>2. Candle(shape, clock) \in CandleRecords /\ Candle(shape, clock).start = clock
  BY DecisionAssumption DEF HistoryInv, CandleRecords, Candle
<1>3. clock \in Nat /\ clock' = clock + 1 /\ clock' \in 0..MaxCandles
  <2>1. clock < MaxCandles /\ clock' = clock + 1
    BY DEF CloseCandle, NextCandle
  <2>2. clock \in 0..MaxCandles /\ MaxCandles \in Nat
    BY DecisionAssumption DEF HistoryInv
  <2> QED
    BY <2>1, <2>2
<1>4. /\ more \in Seq(CandleRecords) /\ Len(more) = Len(history) + 1
      /\ \A i \in 1..Len(history) : more[i] = history[i]
      /\ more[Len(more)] = Candle(shape, clock)
      /\ history \in Seq(CandleRecords) /\ Len(history) \in Nat
  BY <1>2 DEF HistoryInv
<1>5. \A i \in 1..Len(more) : more[i].start \in Nat /\ more[i].start < clock + 1
  <2> HIDE DEF more
  <2> TAKE i \in 1..Len(more)
  <2>1. CASE i = Len(more)
    BY <1>2, <1>3, <1>4, <2>1
  <2>2. CASE i \in 1..Len(history)
    <3>1. history[i] \in CandleRecords /\ history[i].start < clock
      BY <1>4, <2>2 DEF HistoryInv
    <3>2. more[i] = history[i]
      BY <1>4, <2>2
    <3>3. history[i].start \in Nat
      BY <3>1 DEF CandleRecords
    <3> QED
      BY <1>3, <3>1, <3>2, <3>3
  <2> QED
    BY <1>4, <2>1, <2>2
<1>6. \A i, j \in 1..Len(more) : i < j => more[i].start < more[j].start
  BY <1>2, <1>3, <1>4 DEF HistoryInv
<1> HIDE DEF more
<1>7. /\ history' \in Seq(CandleRecords) /\ Len(history') <= Window
      /\ before \in Nat /\ \A i \in 1..Len(history') : history'[i] = more[before + i]
  <2>1. Window \in Nat /\ more \in Seq(CandleRecords) /\ history' = LastOf(more, Window)
    BY <1>1, <1>4, DecisionAssumption DEF more
  <2> QED
    BY <2>1, LastOfProperties
<1>8. \A i \in DOMAIN history' : before + i \in 1..Len(more)
  BY <1>4, <1>7
<1>9. \A i \in DOMAIN history' : history'[i].start < clock'
  BY <1>3, <1>5, <1>7, <1>8
<1>10. \A i, j \in DOMAIN history' : i < j => history'[i].start < history'[j].start
  BY <1>6, <1>7, <1>8
<1> QED
  BY <1>3, <1>7, <1>9, <1>10 DEF HistoryInv

LEMMA NextHistory ==
  ASSUME HistoryInv, [Next]_vars
  PROVE  HistoryInv'
<1>1. CASE LoseCandle
  <2>1. clock' = clock + 1 /\ clock' <= MaxCandles /\ UNCHANGED history
        /\ clock \in Nat /\ MaxCandles \in Nat
    BY <1>1, DecisionAssumption DEF LoseCandle, NextCandle, HistoryInv
  <2>2. \A i \in DOMAIN history : history[i].start < clock + 1
    <3> TAKE i \in DOMAIN history
    <3>1. history[i] \in CandleRecords /\ history[i].start < clock
      BY DEF HistoryInv
    <3> QED
      BY <2>1, <3>1 DEF CandleRecords
  <2> QED
    BY <2>1, <2>2 DEF HistoryInv
<1>2. CASE UNCHANGED <<clock, history>>
  BY <1>2 DEF HistoryInv
<1> QED
  BY <1>1, <1>2, CloseCandleKeeps DEF Next, EvaluateTimeframes, Review, vars

-----------------------------------------------------------------------------
(* The signal and the answer                                               *)

\* The signal is the one of the history as it is, and an answer is to it.
SignalInv ==
  /\ signal # None =>
       /\ MayEvaluate
       /\ signal = [side |-> Confirmed(Evaluate(history)), indicators |-> Snapshot(history)]
  /\ answer # None => signal # None /\ answer \in Answers

DecisionInv == HistoryInv /\ SignalInv

LEMMA InitDecisionInv ==
  ASSUME Init
  PROVE  DecisionInv
<1>1. clock \in 0..MaxCandles /\ history = <<>> /\ signal = None /\ answer = None
  BY DecisionAssumption DEF Init
<1>2. Len(history) = 0 /\ DOMAIN history = {} /\ history \in Seq(CandleRecords)
  BY <1>1
<1> QED
  BY <1>1, <1>2, DecisionAssumption DEF DecisionInv, HistoryInv, SignalInv

LEMMA NextSignal ==
  ASSUME DecisionInv, [Next]_vars
  PROVE  SignalInv'
<1>1. CASE NextCandle
  BY <1>1 DEF NextCandle, SignalInv
<1>2. CASE EvaluateTimeframes
  <2>1. /\ signal = None /\ UNCHANGED <<history, answer>> /\ MayEvaluate
        /\ signal' = [side |-> Confirmed(Evaluate(history)), indicators |-> Snapshot(history)]
    BY <1>2 DEF EvaluateTimeframes
  <2>2. answer' = None
    BY <2>1 DEF DecisionInv, SignalInv
  <2>3. MayEvaluate' /\ signal' = [side |-> Confirmed(Evaluate(history)), indicators |-> Snapshot(history)]'
    BY <2>1 DEF MayEvaluate, Confirmed, Higher
  <2> QED
    BY <2>2, <2>3 DEF SignalInv
<1>3. CASE Review
  <2>1. signal # None /\ answer' \in Answers /\ UNCHANGED <<history, signal>>
    BY <1>3 DEF Review
  <2>2. Answers' = Answers
    BY <2>1 DEF Answers, Entry
  <2>3. MayEvaluate' = MayEvaluate /\ \A side : Confirmed(side)' = Confirmed(side)
    BY <2>1 DEF MayEvaluate, Confirmed, Higher
  <2> QED
    BY <2>1, <2>2, <2>3 DEF DecisionInv, SignalInv
<1>4. CASE UNCHANGED vars
  <2>1. UNCHANGED <<history, signal, answer>>
    BY <1>4 DEF vars
  <2> QED
    BY <2>1 DEF DecisionInv, SignalInv, MayEvaluate, Confirmed, Higher, Answers, Entry
<1> QED
  BY <1>1, <1>2, <1>3, <1>4 DEF Next, CloseCandle, LoseCandle

LEMMA DecisionInvHolds == Spec => []DecisionInv
<1>1. Init => DecisionInv
  BY InitDecisionInv
<1>2. DecisionInv /\ [Next]_vars => DecisionInv'
  BY NextHistory, NextSignal DEF DecisionInv
<1> QED
  BY <1>1, <1>2, PTL DEF Spec

\* The history a signal is of is not empty, and the entry is its last close.
LEMMA EntryOfSignal ==
  ASSUME DecisionInv, signal # None
  PROVE  Entry = history[Len(history)].close /\ Entry \in Nat \ {0}
<1>1. MayEvaluate /\ signal.indicators = Snapshot(history)
  BY DEF DecisionInv, SignalInv
<1>2. history \in Seq(CandleRecords) /\ Len(history) \in Nat \ {0}
  BY <1>1, StrategyAssumption DEF DecisionInv, HistoryInv, MayEvaluate, EnoughHistory
<1>3. history[Len(history)] \in CandleRecords
  BY <1>2
<1>4. Snapshot(history).close = [i \in 1..Len(history) |-> history[i].close][Len(history)]
  BY DEF Snapshot
<1> QED
  BY <1>1, <1>2, <1>3, <1>4 DEF Entry, CandleRecords

-----------------------------------------------------------------------------
(* What is approved                                                        *)

\* The side of a signal is one the indicators of both timeframes have.
LEMMA SignalSides ==
  ASSUME DecisionInv, signal # None, signal.side # "NO_TRADE"
  PROVE  /\ signal.side \in {"LONG", "SHORT"}
         /\ ~Volatile(signal.indicators)
         /\ IF signal.side = "LONG" THEN Bullish(signal.indicators)
                                    ELSE Bearish(signal.indicators)
         /\ Trending(Snapshot(Higher))
         /\ IF signal.side = "LONG" THEN Bullish(Snapshot(Higher))
                                    ELSE Bearish(Snapshot(Higher))
<1> DEFINE s == signal.indicators
           side == Evaluate(history)
           high == PreviousHigh(history)
           low == PreviousLow(history)
<1>1. signal = [side |-> Confirmed(side), indicators |-> Snapshot(history)]
  BY DEF DecisionInv, SignalInv
<1>2. s = Snapshot(history) /\ signal.side = Confirmed(side)
  BY <1>1
<1>3. signal.side = side /\ side # "NO_TRADE" /\ Confirms(side, Snapshot(Higher))
  BY <1>2 DEF Confirmed
<1>4. side = SideOf(s, high, low)
  BY <1>2 DEF Evaluate
<1> HIDE DEF side, s, high, low
<1>5. \/ side = "LONG" /\ ~Volatile(s) /\ Bullish(s)
      \/ side = "SHORT" /\ ~Volatile(s) /\ Bearish(s)
  <2>1. CASE Volatile(s)
    BY <1>3, <1>4, <2>1 DEF SideOf
  <2> DEFINE long == ~Volatile(s) /\ (LongBreakout(s, high) \/ LongPullback(s))
             short == ~Volatile(s) /\ (ShortBreakout(s, low) \/ ShortPullback(s))
  <2>2. /\ long => ~Volatile(s) /\ Bullish(s)
        /\ short => ~Volatile(s) /\ Bearish(s)
    BY DEF LongBreakout, LongPullback, ShortBreakout, ShortPullback
  <2>3. ~Volatile(s)
    BY <1>3, <1>4, <2>1
  <2>4. side = CASE Volatile(s) -> "NO_TRADE" [] long -> "LONG" [] short -> "SHORT"
                 [] OTHER -> "NO_TRADE"
    BY <1>4 DEF SideOf
  <2> HIDE DEF long, short
  <2>5. CASE long /\ short
    <3>1. side = "LONG" \/ side = "SHORT"
      BY <2>3, <2>4, <2>5
    <3> QED
      BY <2>2, <2>5, <3>1
  <2>6. CASE long /\ ~short
    BY <2>2, <2>3, <2>4, <2>6
  <2>7. CASE ~long /\ short
    BY <2>2, <2>3, <2>4, <2>7
  <2>8. CASE ~long /\ ~short
    BY <1>3, <2>3, <2>4, <2>8
  <2> QED
    BY <2>5, <2>6, <2>7, <2>8
<1>6. CASE side = "LONG"
  BY <1>3, <1>5, <1>6 DEF Confirms, s
<1>7. CASE side = "SHORT"
  BY <1>3, <1>5, <1>7 DEF Confirms, s
<1> QED
  BY <1>5, <1>6, <1>7

\* An answer the gate agrees with is one that parses, and is what it reviews.
LEMMA AgreedAnswer ==
  ASSUME DecisionInv, answer # None, Consensus(signal, Reviewed(answer))
  PROVE  /\ answer # Failure /\ answer.side = signal.side /\ signal.side # "NO_TRADE"
         /\ answer.confidence \in MinConfidence..100
         /\ answer.invalidation # NaN =>
              IF signal.side = "LONG" THEN answer.invalidation \in 1..(Entry - 1)
                                      ELSE answer.invalidation > Entry
<1>1. Reviewed(answer) = answer /\ Parses(answer)
  BY DEF Reviewed, Consensus
<1>2. answer # Failure
  BY <1>1 DEF Parses
<1>3. /\ answer.side = signal.side /\ signal.side # "NO_TRADE"
      /\ answer.confidence >= MinConfidence
      /\ Invalidates(signal.side, Entry, answer.invalidation)
  BY <1>1 DEF Consensus, Entry
<1>4. Entry \in Nat \ {0}
  BY EntryOfSignal DEF DecisionInv, SignalInv
<1>5. /\ answer.confidence \in Int
      /\ answer.invalidation \in {None, NaN, 0} \union (Entry - 1)..(Entry + 1)
  BY <1>2, DecisionAssumption DEF DecisionInv, SignalInv, Answers
<1>6. answer.confidence \in MinConfidence..100
  BY <1>1, <1>3, <1>5, DecisionAssumption DEF Parses
<1>7. ASSUME answer.invalidation # NaN
      PROVE  IF signal.side = "LONG" THEN answer.invalidation \in 1..(Entry - 1)
                                     ELSE answer.invalidation > Entry
  <2>1. answer.invalidation # None /\ answer.invalidation \in Int
    BY <1>3, <1>4, <1>5, <1>7 DEF Invalidates
  <2>2. answer.invalidation > 0
    BY <1>1, <1>7, <2>1 DEF Parses
  <2>3. IF signal.side = "LONG" THEN answer.invalidation < Entry
                                ELSE answer.invalidation > Entry
    BY <1>3, <1>7 DEF Invalidates
  <2> QED
    BY <1>4, <2>1, <2>2, <2>3
<1> QED
  BY <1>2, <1>3, <1>6, <1>7

\* Whatever the candles and whatever is answered, what the gate approves is
\* corroborated: by the indicators of both timeframes and by a review that
\* keeps to the schema.
THEOREM ApprovedIsCorroborated == Spec => []Corroborated
<1>1. ASSUME DecisionInv, Decision # "NO_TRADE"
      PROVE  Corroborated
  <2>1. answer # None /\ Consensus(signal, Reviewed(answer)) /\ Decision = signal.side
    BY <1>1 DEF Decision
  <2>2. signal # None
    BY <1>1, <2>1 DEF DecisionInv, SignalInv
  <2>3. /\ answer # Failure /\ answer.side = signal.side /\ signal.side # "NO_TRADE"
        /\ answer.confidence \in MinConfidence..100
        /\ answer.invalidation # NaN =>
             IF signal.side = "LONG" THEN answer.invalidation \in 1..(Entry - 1)
                                     ELSE answer.invalidation > Entry
    BY <1>1, <2>1, AgreedAnswer
  <2>4. /\ ~Volatile(signal.indicators) /\ Trending(Snapshot(Higher))
        /\ \A s \in {signal.indicators, Snapshot(Higher)} :
             IF signal.side = "LONG" THEN Bullish(s) ELSE Bearish(s)
    BY <1>1, <2>2, <2>3, SignalSides
  <2>5. \A s : /\ Bullish(s) => s.slow < s.fast
               /\ Bearish(s) => s.fast < s.slow
    BY DEF Bullish, Bearish
  <2> QED
    BY <2>1, <2>3, <2>4, <2>5 DEF Corroborated
<1>2. DecisionInv => Corroborated
  BY <1>1 DEF Corroborated
<1> QED
  BY <1>2, DecisionInvHolds, PTL

-----------------------------------------------------------------------------
(* Indices, and the greatest and the least of their values                 *)

LEMMA LeastIndex ==
  ASSUME NEW S \in SUBSET Nat, S # {}
  PROVE  Min(S) \in S /\ \A x \in S : Min(S) <= x
<1> DEFINE less == {pair \in Nat \X Nat : pair[1] < pair[2]}
<1>1. IsWellFoundedOn(less, Nat)
  BY NatLessThanWellFounded DEF OpToRel
<1>2. PICK m \in S : \A y \in S : <<y, m>> \notin less
  BY <1>1, WFMin
<1>3. ASSUME NEW y \in S
      PROVE  m <= y
  <2>1. m \in Nat /\ y \in Nat
    OBVIOUS
  <2>2. CASE y < m
    <3>1. <<y, m>> \in less
      BY <2>1, <2>2
    <3> QED
      BY <1>2, <3>1
  <2> QED
    BY <2>1, <2>2
<1> QED
  BY <1>3 DEF Min

\* The values on 1..n have a least and a greatest, one with the fewest indices
\* of greater values.
LEMMA EndsOfValues ==
  ASSUME NEW n \in Nat \ {0}, NEW f, \A i \in 1..n : f[i] \in Nat
  PROVE  /\ Min({f[i] : i \in 1..n}) \in Nat /\ Max({f[i] : i \in 1..n}) \in Nat
         /\ \A i \in 1..n : Min({f[j] : j \in 1..n}) <= f[i]
         /\ \A i \in 1..n : f[i] <= Max({f[j] : j \in 1..n})
<1> DEFINE S == {f[i] : i \in 1..n}
           Above(i) == {j \in 1..n : f[j] > f[i]}
           T == {Above(i) : i \in 1..n}
<1>1. S \in SUBSET Nat /\ S # {} /\ \A i \in 1..n : f[i] \in S
  <2>1. 1 \in 1..n
    OBVIOUS
  <2> QED
    BY <2>1
<1>2. Min(S) \in S /\ \A x \in S : Min(S) <= x
  <2> HIDE DEF S
  <2> QED
    BY <1>1, LeastIndex
<1>3. IsFiniteSet(1..n)
  BY FS_Interval
<1>4. IsWellFoundedOn(StrictSubsetOrdering(1..n), SUBSET (1..n))
  BY <1>3, FS_FiniteSubsetsOfFinite, FS_StrictSubsetOrderingWellFounded
<1>5. T \subseteq SUBSET (1..n) /\ T # {}
  <2>1. 1 \in 1..n /\ Above(1) \in T
    OBVIOUS
  <2>2. \A i \in 1..n : Above(i) \subseteq 1..n
    OBVIOUS
  <2> HIDE DEF Above
  <2> QED
    BY <2>1, <2>2
<1>6. PICK x \in T : \A y \in T : <<y, x>> \notin StrictSubsetOrdering(1..n)
  BY <1>4, <1>5, WFMin
<1>7. PICK m \in 1..n : x = Above(m)
  OBVIOUS
<1>8. ASSUME NEW i \in 1..n, ~(f[i] <= f[m])
      PROVE  FALSE
  <2>1. Above(i) \in T /\ Above(i) \subseteq Above(m)
    BY <1>8
  <2>2. i \in Above(m) /\ i \notin Above(i)
    BY <1>8
  <2>3. <<Above(i), x>> \in StrictSubsetOrdering(1..n)
    BY <1>7, <2>1, <2>2 DEF StrictSubsetOrdering
  <2> QED
    BY <1>6, <2>1, <2>3
<1>9. f[m] \in S /\ \A y \in S : f[m] >= y
  BY <1>1, <1>8
<1>10. Max(S) \in S /\ \A y \in S : Max(S) >= y
  <2> HIDE DEF S
  <2> QED
    BY <1>9 DEF Max
<1> QED
  BY <1>1, <1>2, <1>10

LEMMA EndsOfInterval ==
  ASSUME NEW a \in Int, NEW b \in Int, a <= b
  PROVE  Min(a..b) = a /\ Max(a..b) = b
<1> DEFINE S == a..b
<1>1. a \in S /\ b \in S /\ \A x \in S : x \in Int /\ a <= x /\ b >= x
  OBVIOUS
<1> HIDE DEF S
<1>2. /\ Min(S) \in S /\ \A x \in S : Min(S) <= x
      /\ Max(S) \in S /\ \A x \in S : Max(S) >= x
  BY <1>1 DEF Min, Max
<1>3. Min(S) \in Int /\ Max(S) \in Int
  BY <1>1, <1>2
<1>4. Min(S) = a /\ Max(S) = b
  BY <1>1, <1>2, <1>3
<1> QED
  BY <1>4 DEF S

-----------------------------------------------------------------------------
(* Starts of consecutive candles                                           *)

\* From one candle to a later one the starts grow by one each at least.
LEMMA StartsClimb ==
  ASSUME NEW f, NEW n \in Nat, \A i \in 1..n : f[i] \in Int,
         \A i, j \in 1..n : i < j => f[i] < f[j]
  PROVE  \A i, j \in 1..n : i <= j => f[j] - f[i] >= j - i
<1> SUFFICES ASSUME NEW i \in 1..n, NEW k \in 1..n, i <= k, ~(f[k] - f[i] >= k - i)
             PROVE  FALSE
  OBVIOUS
<1> DEFINE S == {j \in i..n : ~(f[j] - f[i] >= j - i)}
           m == Min(S)
<1>1. S \in SUBSET Nat /\ S # {}
  <2>1. k \in S
    OBVIOUS
  <2> QED
    BY <2>1
<1>2. m \in S /\ \A j \in S : m <= j
  <2> HIDE DEF S
  <2> QED
    BY <1>1, LeastIndex
<1>3. m \in i..n /\ ~(f[m] - f[i] >= m - i)
  BY <1>2
<1> HIDE DEF m
<1>4. m # i
  BY <1>3
<1>5. m - 1 \in i..n /\ f[m - 1] < f[m] /\ m - 1 \notin S
  <2>1. m - 1 \in i..n /\ m - 1 \in 1..n /\ m \in 1..n /\ m - 1 < m
    BY <1>3, <1>4
  <2>2. m - 1 \notin S
    <3> HIDE DEF S
    <3> QED
      BY <1>2, <1>3, <2>1
  <2> QED
    BY <2>1, <2>2
<1>6. f[m - 1] \in Int /\ f[m] \in Int /\ f[i] \in Int
  BY <1>3, <1>5
<1> QED
  BY <1>3, <1>5, <1>6

\* Without a gap they grow by exactly one each.
LEMMA StartsOfGroup ==
  ASSUME NEW group \in Seq(CandleRecords), ~HasGap(group)
  PROVE  \A i \in DOMAIN group : group[i].start = group[1].start + i - 1
<1> SUFFICES ASSUME NEW k \in DOMAIN group, group[k].start # group[1].start + k - 1
             PROVE  FALSE
  OBVIOUS
<1> DEFINE S == {i \in DOMAIN group : group[i].start # group[1].start + i - 1}
           m == Min(S)
<1>1. S \in SUBSET Nat /\ S # {}
  <2>1. k \in S /\ DOMAIN group \subseteq Nat
    OBVIOUS
  <2> QED
    BY <2>1
<1>2. m \in S /\ \A j \in S : m <= j
  <2> HIDE DEF S
  <2> QED
    BY <1>1, LeastIndex
<1>3. m \in 1..Len(group) /\ group[m].start # group[1].start + m - 1
  BY <1>2
<1> HIDE DEF m
<1>4. m # 1
  <2>1. group[1] \in CandleRecords
    BY <1>3
  <2>2. group[1].start \in Nat
    BY <2>1 DEF CandleRecords
  <2> QED
    BY <1>3, <2>2
<1>5. m \in 2..Len(group) /\ m - 1 \in 1..Len(group) /\ m - 1 < m
  BY <1>3, <1>4
<1>6. group[m].start - group[m - 1].start = 1
  BY <1>5 DEF HasGap
<1>7. group[m - 1].start = group[1].start + (m - 1) - 1
  <2>1. m - 1 \notin S
    <3> HIDE DEF S
    <3> QED
      BY <1>2, <1>5
  <2> QED
    BY <1>5, <2>1
<1>8. group[1] \in CandleRecords /\ group[m] \in CandleRecords /\ group[m - 1] \in CandleRecords
  BY <1>5
<1>9. group[1].start \in Nat /\ group[m].start \in Nat /\ group[m - 1].start \in Nat
  BY <1>8 DEF CandleRecords
<1>10. ASSUME NEW a \in Nat, NEW b \in Nat, NEW c \in Nat, c - b = 1, b = a + (m - 1) - 1
       PROVE  c = a + m - 1
  BY <1>5, <1>10
<1> QED
  BY <1>3, <1>6, <1>7, <1>9, <1>10

-----------------------------------------------------------------------------
(* The groups                                                              *)

\* A group that is counted ends with the candles.
LEMMA GroupsFit ==
  ASSUME NEW len \in Nat, NEW n \in 1..(len \div Multiple)
  PROVE  (n - 1) * Multiple \in Nat /\ (n - 1) * Multiple + Multiple <= len
<1> DEFINE q == len \div Multiple
           r == len % Multiple
<1>1. q \in Nat /\ r \in Nat /\ Multiple \in Nat /\ len = Multiple * q + r
  BY MultipleAssumption
<1>2. n \in Nat /\ n >= 1 /\ n <= q
  BY <1>1
<1> HIDE DEF q, r
<1>3. (n - 1) * Multiple \in Nat
  BY <1>1, <1>2
<1>4. (n - 1) * Multiple + Multiple = Multiple * n
  BY <1>1, <1>2
<1>5. Multiple * n <= Multiple * q
  <2>1. Multiple * (q - n) >= 0
    BY <1>1, <1>2
  <2>2. Multiple * (q - n) = Multiple * q - Multiple * n
    BY <1>1, <1>2
  <2>3. Multiple * q \in Int /\ Multiple * n \in Int
    BY <1>1, <1>2
  <2> QED
    BY <2>1, <2>2, <2>3
<1> QED
  BY <1>1, <1>3, <1>4, <1>5

\* The n-th group is Multiple consecutive candles of the history, counted from
\* one that is aligned.
LEMMA GroupOfCandles ==
  ASSUME NEW candles \in Seq(CandleRecords),
         NEW n \in 1..Groups(FromFirstAligned(candles))
  PROVE  LET group == Group(FromFirstAligned(candles), n)
         IN  /\ group \in Seq(CandleRecords) /\ Len(group) = Multiple
             /\ \E first \in 1..Len(candles), before \in Nat :
                  /\ Aligned(candles[first].start)
                  /\ before + 1 = first + (n - 1) * Multiple
                  /\ before + Multiple <= Len(candles)
                  /\ \A i \in 1..Multiple : group[i] = candles[before + i]
<1> DEFINE starts == {i \in DOMAIN candles : Aligned(candles[i].start)}
           aligned == FromFirstAligned(candles)
           group == Group(aligned, n)
           first == Min(starts)
           skipped == (n - 1) * Multiple
<1>1. starts # {}
  <2>1. CASE starts = {}
    <3>1. aligned = <<>>
      BY <2>1 DEF FromFirstAligned
    <3>2. Groups(aligned) = 0 \div Multiple
      BY <3>1 DEF Groups
    <3>3. 0 \div Multiple = 0
      BY MultipleAssumption
    <3> QED
      BY <3>2, <3>3
  <2> QED
    BY <2>1
<1>2. first \in 1..Len(candles) /\ Aligned(candles[first].start)
  <2>1. starts \in SUBSET Nat
    OBVIOUS
  <2>2. first \in starts
    <3> HIDE DEF starts
    <3> QED
      BY <1>1, <2>1, LeastIndex
  <2> QED
    BY <2>2
<1> HIDE DEF first
<1>3. aligned = SubSeq(candles, first, Len(candles))
  BY <1>1 DEF FromFirstAligned, first
<1>4. /\ aligned \in Seq(CandleRecords)
      /\ Len(aligned) = Len(candles) - first + 1
      /\ \A i \in 1..Len(aligned) : aligned[i] = candles[first + i - 1]
  <2>1. first \in Int /\ Len(candles) \in Int /\ first <= Len(candles)
        /\ \A i \in first..Len(candles) : candles[i] \in CandleRecords
    BY <1>2
  <2> QED
    BY <1>3, <2>1, SubSeqProperties
<1> HIDE DEF aligned
<1>5. Multiple \in Nat /\ Multiple > 1
  BY MultipleAssumption
<1>6. skipped \in Nat /\ skipped + Multiple <= Len(aligned) /\ Len(aligned) \in Nat
  <2>1. Len(aligned) \in Nat
    BY <1>4
  <2>2. n \in 1..(Len(aligned) \div Multiple)
    BY DEF aligned, Groups
  <2> QED
    BY <2>1, <2>2, GroupsFit
<1>7. group = SubSeq(aligned, skipped + 1, skipped + Multiple)
  <2> HIDE DEF skipped
  <2>1. skipped + 1 + Multiple - 1 = skipped + Multiple
    BY <1>5, <1>6
  <2>2. group = SubSeq(aligned, skipped + 1,
                       IF skipped + 1 + Multiple - 1 < Len(aligned)
                       THEN skipped + 1 + Multiple - 1 ELSE Len(aligned))
    BY DEF Group, skipped
  <2>3. skipped + Multiple < Len(aligned) \/ skipped + Multiple = Len(aligned)
    BY <1>5, <1>6
  <2> QED
    BY <2>1, <2>2, <2>3
<1> HIDE DEF skipped, group
<1>8. /\ group \in Seq(CandleRecords) /\ Len(group) = Multiple
      /\ \A i \in 1..Multiple : group[i] = aligned[skipped + i]
  <2> DEFINE from == skipped + 1
             to == skipped + Multiple
  <2>1. from \in Int /\ to \in Int /\ from <= to /\ to - from + 1 = Multiple
        /\ \A i \in from..to : aligned[i] \in CandleRecords
    BY <1>4, <1>5, <1>6
  <2>2. \A i \in 1..Multiple : from + i - 1 = skipped + i
    BY <1>5, <1>6
  <2> HIDE DEF from, to
  <2>3. /\ SubSeq(aligned, from, to) \in Seq(CandleRecords)
        /\ Len(SubSeq(aligned, from, to)) = to - from + 1
        /\ \A i \in 1..(to - from + 1) : SubSeq(aligned, from, to)[i] = aligned[from + i - 1]
    BY <2>1, SubSeqProperties
  <2>4. group = SubSeq(aligned, from, to)
    BY <1>7 DEF from, to
  <2> QED
    BY <2>1, <2>2, <2>3, <2>4
<1> DEFINE before == first + skipped - 1
<1>9. /\ before \in Nat /\ before + 1 = first + skipped
      /\ before + Multiple <= Len(candles)
  BY <1>2, <1>4, <1>5, <1>6
<1>10. \A i \in 1..Multiple : group[i] = candles[before + i]
  <2> TAKE i \in 1..Multiple
  <2>1. skipped + i \in 1..Len(aligned) /\ first + (skipped + i) - 1 = before + i
    BY <1>2, <1>5, <1>6
  <2>2. aligned[skipped + i] = candles[first + (skipped + i) - 1]
    BY <1>4, <2>1
  <2> QED
    BY <1>8, <2>1, <2>2
<1> HIDE DEF before
<1> QED
  BY <1>2, <1>8, <1>9, <1>10 DEF group, aligned, skipped

LEMMA MergedGroup ==
  ASSUME NEW group \in Seq(CandleRecords), Len(group) = Multiple
  PROVE  /\ Merged(group).start = group[1].start
         /\ Merged(group).open = group[1].open
         /\ Merged(group).close = group[Multiple].close
         /\ \A i \in 1..Multiple : /\ Merged(group).low <= group[i].low
                                   /\ group[i].high <= Merged(group).high
<1> DEFINE lows == [i \in 1..Multiple |-> group[i].low]
           highs == [i \in 1..Multiple |-> group[i].high]
           volumes == [i \in DOMAIN group |-> group[i].volume]
           total == FoldFunction(LAMBDA x, y : x + y, 0, volumes)
<1>1. Multiple \in Nat \ {0} /\ DOMAIN group = 1..Multiple
  BY MultipleAssumption
<1>2. Merged(group) =
        [start |-> group[1].start, open |-> group[1].open, close |-> group[Len(group)].close,
         high |-> Max({group[i].high : i \in DOMAIN group}),
         low |-> Min({group[i].low : i \in DOMAIN group}), volume |-> total]
  BY Zenon DEF Merged
<1> HIDE DEF total
<1>3. /\ Merged(group).start = group[1].start
      /\ Merged(group).open = group[1].open
      /\ Merged(group).close = group[Multiple].close
      /\ Merged(group).high = Max({group[i].high : i \in DOMAIN group})
      /\ Merged(group).low = Min({group[i].low : i \in DOMAIN group})
  BY <1>2
<1>4. /\ {group[i].high : i \in DOMAIN group} = {highs[i] : i \in 1..Multiple}
      /\ {group[i].low : i \in DOMAIN group} = {lows[i] : i \in 1..Multiple}
  BY <1>1
<1>5. \A i \in 1..Multiple : /\ lows[i] = group[i].low /\ highs[i] = group[i].high
                             /\ lows[i] \in Nat /\ highs[i] \in Nat
  <2> TAKE i \in 1..Multiple
  <2>1. group[i] \in CandleRecords
    BY <1>1
  <2> QED
    BY <2>1 DEF CandleRecords
<1> HIDE DEF lows, highs
<1>6. \A i \in 1..Multiple : Min({lows[j] : j \in 1..Multiple}) <= lows[i]
  BY <1>1, <1>5, EndsOfValues
<1>7. \A i \in 1..Multiple : highs[i] <= Max({highs[j] : j \in 1..Multiple})
  <2>1. \A i \in 1..Multiple : highs[i] \in Nat
    BY <1>5
  <2> QED
    BY <1>1, <2>1, EndsOfValues
<1>8. \A i \in 1..Multiple : /\ Merged(group).low <= group[i].low
                             /\ group[i].high <= Merged(group).high
  <2> TAKE i \in 1..Multiple
  <2>1. Merged(group).low <= lows[i] /\ highs[i] <= Merged(group).high
    BY <1>3, <1>4, <1>6, <1>7
  <2>2. lows[i] = group[i].low /\ highs[i] = group[i].high
    BY <1>5
  <2> QED
    BY <2>1, <2>2
<1> QED
  BY <1>3, <1>8

\* What a higher candle is made of: consecutive candles of the history, which
\* are all that start in the time it covers.
LEMMA HigherCandle ==
  ASSUME NEW candles \in Seq(CandleRecords),
         \A i, j \in DOMAIN candles : i < j => candles[i].start < candles[j].start,
         NEW n \in 1..Groups(FromFirstAligned(candles)),
         ~HasGap(Group(FromFirstAligned(candles), n))
  PROVE  LET group == Group(FromFirstAligned(candles), n)
         IN  /\ group \in Seq(CandleRecords) /\ Len(group) = Multiple
             /\ \E first \in 1..Len(candles), before \in Nat :
                  /\ Aligned(candles[first].start)
                  /\ before + 1 = first + (n - 1) * Multiple
                  /\ before + Multiple <= Len(candles)
                  /\ \A i \in 1..Multiple :
                       /\ group[i] = candles[before + i]
                       /\ group[i].start = group[1].start + i - 1
                  /\ {i \in DOMAIN candles :
                        candles[i].start \in group[1].start..(group[1].start + Multiple - 1)}
                       = (before + 1)..(before + Multiple)
<1> DEFINE group == Group(FromFirstAligned(candles), n)
           s == group[1].start
           within == {i \in DOMAIN candles : candles[i].start \in s..(s + Multiple - 1)}
<1>1. /\ group \in Seq(CandleRecords) /\ Len(group) = Multiple
      /\ \E first \in 1..Len(candles), before \in Nat :
           /\ Aligned(candles[first].start)
           /\ before + 1 = first + (n - 1) * Multiple
           /\ before + Multiple <= Len(candles)
           /\ \A i \in 1..Multiple : group[i] = candles[before + i]
  BY GroupOfCandles
<1> HIDE DEF group
<1>2. PICK first \in 1..Len(candles), before \in Nat :
        /\ Aligned(candles[first].start)
        /\ before + 1 = first + (n - 1) * Multiple
        /\ before + Multiple <= Len(candles)
        /\ \A i \in 1..Multiple : group[i] = candles[before + i]
  BY <1>1
<1>3. Multiple \in Nat /\ Multiple > 1 /\ Len(candles) \in Nat
  BY MultipleAssumption
<1>4. \A i \in 1..Multiple : group[i].start = s + i - 1
  <2>1. DOMAIN group = 1..Multiple
    BY <1>1
  <2> QED
    BY <1>1, <2>1, StartsOfGroup DEF group
<1>5. \A i \in DOMAIN candles : candles[i].start \in Nat
  <2>1. \A i \in DOMAIN candles : candles[i] \in CandleRecords
    OBVIOUS
  <2> QED
    BY <2>1 DEF CandleRecords
<1>6. s \in Nat /\ candles[before + 1].start = s
      /\ candles[before + Multiple].start = s + Multiple - 1
  <2>1. 1 \in 1..Multiple /\ Multiple \in 1..Multiple
        /\ before + 1 \in DOMAIN candles
    BY <1>2, <1>3
  <2>2. group[1] = candles[before + 1] /\ group[Multiple] = candles[before + Multiple]
    BY <1>2, <2>1
  <2> QED
    BY <1>4, <1>5, <2>1, <2>2
<1> HIDE DEF s
<1>7. \A i \in 1..Multiple : candles[before + i].start = s + i - 1
  BY <1>2, <1>4
<1>8. within = (before + 1)..(before + Multiple)
  <2>1. ASSUME NEW i \in (before + 1)..(before + Multiple)
        PROVE  i \in within
    <3>1. i \in DOMAIN candles /\ i - before \in 1..Multiple /\ before + (i - before) = i
      BY <1>2, <1>3
    <3>2. candles[i].start = s + (i - before) - 1
      BY <1>7, <3>1
    <3>3. \A k \in 1..Multiple : s + k - 1 \in s..(s + Multiple - 1)
      BY <1>3, <1>6
    <3> QED
      BY <3>1, <3>2, <3>3
  <2>2. ASSUME NEW i \in within
        PROVE  i \in (before + 1)..(before + Multiple)
    <3>1. i \in 1..Len(candles) /\ before + 1 \in 1..Len(candles)
          /\ before + Multiple \in 1..Len(candles)
      BY <1>2, <1>3
    <3>2. candles[i].start \in Nat /\ s <= candles[i].start
          /\ candles[i].start <= s + Multiple - 1
      BY <1>3, <1>5, <1>6, <3>1
    <3>3. ~(i < before + 1)
      BY <1>6, <3>1, <3>2
    <3>4. ~(before + Multiple < i)
      BY <1>3, <1>6, <3>1, <3>2
    <3> QED
      BY <1>3, <3>1, <3>3, <3>4
  <2> HIDE DEF within
  <2> QED
    BY <2>1, <2>2
<1> QED
  BY <1>1, <1>2, <1>4, <1>8 DEF group, s

\* Of three numbers that are at least their places apart, while the outer two
\* are not further, the middle one is in its place.
LEMMA NoRoomBetween ==
  ASSUME NEW first \in Int, NEW middle \in Int, NEW last \in Int,
         NEW i \in Int, NEW n \in Int,
         middle - first >= i - 1, last - middle >= n - i, last - first + 1 - n = 0
  PROVE  middle = first + i - 1
OBVIOUS

\* Without a gap in the history the candles' starts tell their places.
LEMMA StartsWithoutGap ==
  ASSUME NEW candles \in Seq(CandleRecords), candles # <<>>, Gaps(candles) = 0,
         \A i, j \in DOMAIN candles : i < j => candles[i].start < candles[j].start
  PROVE  \A i \in DOMAIN candles : candles[i].start = candles[1].start + i - 1
<1> DEFINE f == [i \in 1..Len(candles) |-> candles[i].start]
           last == Len(candles)
<1>1. last \in Nat \ {0} /\ DOMAIN candles = 1..last
  BY EmptySeq
<1>2. \A i \in 1..last : f[i] = candles[i].start /\ f[i] \in Nat
  <2>1. \A i \in 1..last : candles[i] \in CandleRecords
    OBVIOUS
  <2> QED
    BY <2>1 DEF CandleRecords
<1>3. f[last] - f[1] + 1 - last = 0
  BY <1>1, <1>2 DEF Gaps
<1>4. \A i, j \in 1..last : i < j => f[i] < f[j]
  BY <1>1, <1>2
<1> HIDE DEF f, last
<1>5. \A i, j \in 1..last : i <= j => f[j] - f[i] >= j - i
  <2>1. last \in Nat /\ \A i \in 1..last : f[i] \in Int
    BY <1>1, <1>2
  <2> QED
    BY <1>4, <2>1, StartsClimb
<1>6. \A i \in 1..last : f[i] = f[1] + i - 1
  <2> TAKE i \in 1..last
  <2>1. 1 \in 1..last /\ last \in 1..last
    BY <1>1
  <2>2. f[i] - f[1] >= i - 1 /\ f[last] - f[i] >= last - i
    BY <1>1, <1>5, <2>1
  <2>3. f[i] \in Nat /\ f[1] \in Nat /\ f[last] \in Nat
    BY <1>2, <2>1
  <2>4. last \in Int /\ i \in Int
    BY <1>1
  <2> DEFINE first == f[1]
             middle == f[i]
             end == f[last]
  <2>5. /\ first \in Int /\ middle \in Int /\ end \in Int
        /\ middle - first >= i - 1 /\ end - middle >= last - i
        /\ end - first + 1 - last = 0
    BY <1>3, <2>2, <2>3
  <2> HIDE DEF first, middle, end
  <2>6. middle = first + i - 1
    BY <2>4, <2>5, NoRoomBetween
  <2> QED
    BY <2>6 DEF first, middle
<1>7. 1 \in 1..last
  BY <1>1
<1> QED
  BY <1>1, <1>2, <1>6, <1>7

\* Multiples of the group's length from an aligned start are aligned.
LEMMA AlignedSteps ==
  ASSUME NEW start \in Nat, Aligned(start), NEW k \in Nat
  PROVE  Aligned(start + k * Multiple)
<1> DEFINE q == start \div Multiple
<1>1. Multiple \in Nat \ {0} /\ q \in Nat
  BY MultipleAssumption
<1>2. start = Multiple * q
  BY <1>1, MultipleAssumption DEF Aligned
<1> HIDE DEF q
<1>3. start + k * Multiple = Multiple * (q + k)
  BY <1>1, <1>2
<1>4. q + k \in Nat
  BY <1>1
<1>5. \A m \in Nat : (Multiple * m) % Multiple = 0
  BY <1>1
<1> QED
  BY <1>3, <1>4, <1>5 DEF Aligned

-----------------------------------------------------------------------------
(* The higher timeframe                                                    *)

\* A higher candle is made of all the candles of the time it covers, whatever
\* the group's length and the window, and starts aligned without a gap.
THEOREM HigherIsWhole == Spec => []WholeCandles
<1>1. ASSUME DecisionInv, Resamples(history), NEW n \in DOMAIN Higher
      PROVE  LET within == Covered(Higher[n])
             IN  /\ Cardinality(within) = Multiple
                 /\ Higher[n].open = history[Min(within)].open
                 /\ Higher[n].close = history[Max(within)].close
                 /\ \A i \in within : Higher[n].low <= history[i].low
                                      /\ history[i].high <= Higher[n].high
                 /\ Gaps(history) = 0 => Aligned(Higher[n].start)
  <2> DEFINE aligned == FromFirstAligned(history)
             group == Group(aligned, n)
             within == Covered(Higher[n])
  <2>1. n \in 1..Groups(aligned) /\ Higher[n] = Merged(group) /\ ~HasGap(group)
    BY <1>1 DEF Higher, Resampled, Resamples
  <2>2. /\ history \in Seq(CandleRecords)
        /\ \A i, j \in DOMAIN history : i < j => history[i].start < history[j].start
    BY <1>1 DEF DecisionInv, HistoryInv
  <2>3. /\ group \in Seq(CandleRecords) /\ Len(group) = Multiple
        /\ \E first \in 1..Len(history), before \in Nat :
             /\ Aligned(history[first].start)
             /\ before + 1 = first + (n - 1) * Multiple
             /\ before + Multiple <= Len(history)
             /\ \A i \in 1..Multiple :
                  /\ group[i] = history[before + i]
                  /\ group[i].start = group[1].start + i - 1
             /\ {i \in DOMAIN history :
                   history[i].start \in group[1].start..(group[1].start + Multiple - 1)}
                  = (before + 1)..(before + Multiple)
    BY <2>1, <2>2, HigherCandle
  <2>4. PICK first \in 1..Len(history), before \in Nat :
          /\ Aligned(history[first].start)
          /\ before + 1 = first + (n - 1) * Multiple
          /\ before + Multiple <= Len(history)
          /\ \A i \in 1..Multiple : group[i] = history[before + i]
          /\ {i \in DOMAIN history :
                history[i].start \in group[1].start..(group[1].start + Multiple - 1)}
               = (before + 1)..(before + Multiple)
    BY <2>3
  <2>5. /\ Higher[n].start = group[1].start /\ Higher[n].open = group[1].open
        /\ Higher[n].close = group[Multiple].close
        /\ \A i \in 1..Multiple : /\ Higher[n].low <= group[i].low
                                  /\ group[i].high <= Higher[n].high
    BY <2>1, <2>3, MergedGroup
  <2>6. Multiple \in Nat /\ Multiple > 1 /\ Len(history) \in Nat
    BY <2>2, MultipleAssumption
  <2> HIDE DEF group, aligned
  <2>7. within = (before + 1)..(before + Multiple)
    BY <2>4, <2>5 DEF Covered
  <2> HIDE DEF within
  <2>8. Cardinality(within) = Multiple
    <3> DEFINE from == before + 1
               to == before + Multiple
    <3>1. from \in Int /\ to \in Int /\ to - from + 1 = Multiple /\ ~(from > to)
      BY <2>6
    <3> HIDE DEF from, to
    <3>2. Cardinality(from..to) = Multiple
      BY <3>1, FS_Interval
    <3> QED
      BY <2>7, <3>2 DEF from, to
  <2>9. Min(within) = before + 1 /\ Max(within) = before + Multiple
    BY <2>6, <2>7, EndsOfInterval
  <2>10. \A i \in within : Higher[n].low <= history[i].low /\ history[i].high <= Higher[n].high
    <3> TAKE i \in within
    <3>1. i - before \in 1..Multiple /\ before + (i - before) = i
      BY <2>6, <2>7
    <3>2. group[i - before] = history[i]
      BY <2>4, <3>1
    <3> QED
      BY <2>5, <3>1, <3>2
  <2>11. group[1] = history[before + 1] /\ group[Multiple] = history[before + Multiple]
    BY <2>4, <2>6
  <2>12. ASSUME Gaps(history) = 0
         PROVE  Aligned(Higher[n].start)
    <3>1. history # <<>>
      BY <2>4
    <3>2. \A i \in DOMAIN history : history[i].start = history[1].start + i - 1
      BY <2>2, <2>12, <3>1, StartsWithoutGap
    <3>3. first \in DOMAIN history /\ before + 1 \in DOMAIN history /\ 1 \in DOMAIN history
      BY <2>2, <2>4, <2>6
    <3>4. history[first] \in CandleRecords /\ history[1] \in CandleRecords
      BY <2>2, <3>3
    <3>5. history[first].start \in Nat /\ history[1].start \in Nat
      BY <3>4 DEF CandleRecords
    <3>6. n - 1 \in Nat
      BY <2>1
    <3> DEFINE skipped == (n - 1) * Multiple
    <3>7. skipped \in Nat /\ before + 1 = first + skipped
      BY <2>4, <2>6, <3>6
    <3>8. Aligned(history[first].start + skipped)
      BY <2>4, <3>5, <3>6, AlignedSteps
    <3> HIDE DEF skipped
    <3>9. history[before + 1].start = history[first].start + skipped
      <4>1. /\ history[before + 1].start = history[1].start + (before + 1) - 1
            /\ history[first].start = history[1].start + first - 1
        BY <3>2, <3>3
      <4>2. \A a \in Nat : a + (before + 1) - 1 = (a + first - 1) + skipped
        BY <3>7
      <4> QED
        BY <3>5, <4>1, <4>2
    <3> QED
      BY <2>5, <2>11, <3>8, <3>9
  <2> QED
    BY <2>5, <2>8, <2>9, <2>10, <2>11, <2>12 DEF within
<1>2. DecisionInv => WholeCandles
  BY <1>1 DEF WholeCandles
<1> QED
  BY <1>2, DecisionInvHolds, PTL

\* Where the history has no gap, no group has one.
LEMMA GroupWithoutGap ==
  ASSUME NEW candles \in Seq(CandleRecords), Gaps(candles) = 0,
         \A i, j \in DOMAIN candles : i < j => candles[i].start < candles[j].start,
         NEW n \in 1..Groups(FromFirstAligned(candles))
  PROVE  ~HasGap(Group(FromFirstAligned(candles), n))
<1> DEFINE group == Group(FromFirstAligned(candles), n)
<1>1. /\ group \in Seq(CandleRecords) /\ Len(group) = Multiple
      /\ \E before \in Nat : /\ before + Multiple <= Len(candles)
                             /\ \A i \in 1..Multiple : group[i] = candles[before + i]
  BY GroupOfCandles
<1> HIDE DEF group
<1>2. PICK before \in Nat : /\ before + Multiple <= Len(candles)
                            /\ \A i \in 1..Multiple : group[i] = candles[before + i]
  BY <1>1
<1>3. Multiple \in Nat /\ Multiple > 1 /\ Len(candles) \in Nat
  BY MultipleAssumption
<1>4. candles # <<>>
  BY <1>2, <1>3
<1>5. \A i \in DOMAIN candles : candles[i].start = candles[1].start + i - 1
  BY <1>4, StartsWithoutGap
<1>6. candles[1].start \in Nat
  <2>1. candles[1] \in CandleRecords
    BY <1>2, <1>3
  <2> QED
    BY <2>1 DEF CandleRecords
<1>7. ASSUME NEW i \in 2..Len(group)
      PROVE  group[i].start - group[i - 1].start = 1
  <2>1. i \in 1..Multiple /\ i - 1 \in 1..Multiple
        /\ before + i \in DOMAIN candles /\ before + (i - 1) \in DOMAIN candles
    <3>1. i \in 2..Multiple
      BY <1>1
    <3>2. DOMAIN candles = 1..Len(candles) /\ before + Multiple <= Len(candles)
      BY <1>2
    <3> QED
      BY <1>3, <3>1, <3>2
  <2>2. group[i] = candles[before + i] /\ group[i - 1] = candles[before + (i - 1)]
    BY <1>2, <2>1
  <2>3. /\ candles[before + i].start = candles[1].start + (before + i) - 1
        /\ candles[before + (i - 1)].start = candles[1].start + (before + (i - 1)) - 1
    BY <1>5, <2>1
  <2>4. \A a \in Nat : (a + (before + i) - 1) - (a + (before + (i - 1)) - 1) = 1
    BY <2>1
  <2> QED
    BY <1>6, <2>2, <2>3, <2>4
<1> QED
  BY <1>7 DEF HasGap, group

\* Two histories without gaps that agree on the candles they share make the
\* same group of those with the same starts.
LEMMA SameGroup ==
  ASSUME NEW old \in Seq(CandleRecords), Gaps(old) = 0,
         \A i, j \in DOMAIN old : i < j => old[i].start < old[j].start,
         NEW new \in Seq(CandleRecords), Gaps(new) = 0,
         \A i, j \in DOMAIN new : i < j => new[i].start < new[j].start,
         \A i \in DOMAIN old, j \in DOMAIN new :
           old[i].start = new[j].start => old[i] = new[j],
         NEW m \in 1..Groups(FromFirstAligned(old)),
         NEW n \in 1..Groups(FromFirstAligned(new)),
         Group(FromFirstAligned(old), m)[1].start = Group(FromFirstAligned(new), n)[1].start
  PROVE  Group(FromFirstAligned(old), m) = Group(FromFirstAligned(new), n)
<1> DEFINE g == Group(FromFirstAligned(old), m)
           h == Group(FromFirstAligned(new), n)
<1>1. ~HasGap(g) /\ ~HasGap(h)
  BY GroupWithoutGap
<1>2. /\ g \in Seq(CandleRecords) /\ Len(g) = Multiple
      /\ \E before \in Nat : /\ before + Multiple <= Len(old)
                             /\ \A i \in 1..Multiple :
                                  g[i] = old[before + i] /\ g[i].start = g[1].start + i - 1
  BY <1>1, HigherCandle
<1>3. /\ h \in Seq(CandleRecords) /\ Len(h) = Multiple
      /\ \E before \in Nat : /\ before + Multiple <= Len(new)
                             /\ \A i \in 1..Multiple :
                                  h[i] = new[before + i] /\ h[i].start = h[1].start + i - 1
  BY <1>1, HigherCandle
<1>4. g[1].start = h[1].start
  OBVIOUS
<1> HIDE DEF g, h
<1>5. PICK b \in Nat : /\ b + Multiple <= Len(old)
                       /\ \A i \in 1..Multiple :
                            g[i] = old[b + i] /\ g[i].start = g[1].start + i - 1
  BY <1>2
<1>6. PICK c \in Nat : /\ c + Multiple <= Len(new)
                       /\ \A i \in 1..Multiple :
                            h[i] = new[c + i] /\ h[i].start = h[1].start + i - 1
  BY <1>3
<1>7. \A i \in 1..Multiple : g[i] = h[i]
  <2> TAKE i \in 1..Multiple
  <2>1. g[i].start = h[i].start
    BY <1>4, <1>5, <1>6
  <2>2. b + i \in DOMAIN old /\ c + i \in DOMAIN new
    BY <1>5, <1>6, MultipleAssumption
  <2> QED
    BY <1>5, <1>6, <2>1, <2>2
<1>8. g = h
  BY <1>2, <1>3, <1>7
<1> QED
  BY <1>8 DEF g, h

\* A candle that closes leaves those before it, in the history the caller
\* keeps, as they were.
LEMMA HistoriesAgree ==
  ASSUME HistoryInv, CloseCandle
  PROVE  \A i \in DOMAIN history, j \in DOMAIN history' :
           history[i].start = history'[j].start => history[i] = history'[j]
<1>1. PICK shape \in Shapes :
        history' = LastOf(Append(history, Candle(shape, clock)), Window)
  BY DEF CloseCandle
<1> DEFINE candle == Candle(shape, clock)
           more == Append(history, candle)
           before == Len(more) - Len(history')
<1>2. candle \in CandleRecords /\ candle.start = clock
  BY DecisionAssumption DEF HistoryInv, CandleRecords, Candle
<1>3. /\ history \in Seq(CandleRecords) /\ Len(history) \in Nat /\ clock \in Nat
      /\ \A i \in DOMAIN history : history[i].start < clock
      /\ \A i, j \in DOMAIN history : i < j => history[i].start < history[j].start
  BY DecisionAssumption DEF HistoryInv
<1> HIDE DEF candle
<1>4. /\ more \in Seq(CandleRecords) /\ Len(more) = Len(history) + 1
      /\ more[Len(history) + 1] = candle
      /\ \A i \in 1..Len(history) : more[i] = history[i]
  BY <1>2, <1>3
<1> HIDE DEF more
<1>5. /\ history' \in Seq(CandleRecords) /\ before \in Nat
      /\ \A j \in 1..Len(history') : history'[j] = more[before + j]
  <2>1. Window \in Nat /\ history' = LastOf(more, Window)
    BY <1>1, DecisionAssumption DEF more, candle
  <2> QED
    BY <1>4, <2>1, LastOfProperties
<1>6. ASSUME NEW i \in DOMAIN history, NEW j \in DOMAIN history',
             history[i].start = history'[j].start
      PROVE  history[i] = history'[j]
  <2>1. before + j \in 1..Len(more) /\ history'[j] = more[before + j]
    BY <1>4, <1>5
  <2>2. history[i] \in CandleRecords /\ history[i].start < clock
    BY <1>3
  <2>3. history[i].start \in Nat
    BY <2>2 DEF CandleRecords
  <2>4. CASE before + j = Len(history) + 1
    BY <1>2, <1>3, <1>4, <1>6, <2>1, <2>2, <2>3, <2>4
  <2>5. CASE before + j \in 1..Len(history)
    <3> DEFINE k == before + j
    <3>1. k \in DOMAIN history /\ history'[j] = history[k]
      BY <1>4, <2>1, <2>5
    <3> HIDE DEF k
    <3>2. ~(i < k) /\ ~(k < i)
      BY <1>3, <1>6, <2>3, <3>1
    <3>3. i = k
      BY <1>3, <3>1, <3>2
    <3> QED
      BY <3>1, <3>3
  <2> QED
    BY <1>3, <1>4, <2>1, <2>4, <2>5
<1> QED
  BY <1>6

\* No later candle changes a higher candle that is there, as long as the
\* history has no gap.
THEOREM HigherIsFinal == Spec => NoRepainting
<1>1. ASSUME DecisionInv, [Next]_vars, history' # history,
             Gaps(history) = 0, Gaps(history') = 0,
             NEW candle \in Range(Higher), NEW later \in Range(Resampled(history')),
             candle.start = later.start
      PROVE  candle = later
  <2>1. CloseCandle
    BY <1>1 DEF Next, LoseCandle, EvaluateTimeframes, Review, vars
  <2>2. HistoryInv /\ HistoryInv'
    BY <1>1, NextHistory DEF DecisionInv
  <2>3. /\ history \in Seq(CandleRecords)
        /\ \A i, j \in DOMAIN history : i < j => history[i].start < history[j].start
        /\ history' \in Seq(CandleRecords)
        /\ \A i, j \in DOMAIN history' : i < j => history'[i].start < history'[j].start
    BY <2>2 DEF HistoryInv
  <2> DEFINE old == FromFirstAligned(history)
             new == FromFirstAligned(history')
  <2>4. PICK m \in 1..Groups(old) : candle = Merged(Group(old, m))
    BY <1>1 DEF Range, Higher, Resampled
  <2>5. PICK n \in 1..Groups(new) : later = Merged(Group(new, n))
    BY <1>1 DEF Range, Resampled
  <2>6. /\ Group(old, m) \in Seq(CandleRecords) /\ Len(Group(old, m)) = Multiple
        /\ Group(new, n) \in Seq(CandleRecords) /\ Len(Group(new, n)) = Multiple
    BY <2>3, GroupOfCandles
  <2>7. Group(old, m)[1].start = Group(new, n)[1].start
    BY <1>1, <2>4, <2>5, <2>6, MergedGroup
  <2>8. \A i \in DOMAIN history, j \in DOMAIN history' :
          history[i].start = history'[j].start => history[i] = history'[j]
    BY <2>1, <2>2, HistoriesAgree
  <2>9. Group(old, m) = Group(new, n)
    BY <1>1, <2>3, <2>7, <2>8, SameGroup
  <2> QED
    BY <2>4, <2>5, <2>9
<1>2. DecisionInv /\ [Next]_vars =>
        [Gaps(history) = 0 /\ Gaps(history') = 0 =>
           \A candle \in Range(Higher), later \in Range(Resampled(history')) :
             candle.start = later.start => candle = later]_history
  BY <1>1
<1> QED
  BY <1>2, DecisionInvHolds, PTL DEF Spec, NoRepainting

-----------------------------------------------------------------------------
(* Recursion                                                               *)

\* Where d is not one of the base its value is made of that of pred[d], which
\* has a lower rank.
Ranked(D, N, rank, base, pred, S, c, step) ==
  /\ N \in Nat /\ rank \in [D -> 0..N]
  /\ base \in SUBSET D /\ pred \in [D -> D]
  /\ \A d \in D \ base : rank[pred[d]] < rank[d]
  /\ c \in S /\ step \in [D -> [S -> S]]

Solves(g, D, base, pred, S, c, step) ==
  /\ g = [d \in D |-> g[d]]
  /\ \A d \in D : /\ d \in base => g[d] = c
                  /\ d \notin base /\ g[pred[d]] \in S => g[d] = step[d][g[pred[d]]]

\* There is a function so defined, and all there are have values in S.
LEMMA RankedRecursion ==
  ASSUME NEW D, NEW N, NEW rank, NEW base, NEW pred, NEW S, NEW c, NEW step,
         Ranked(D, N, rank, base, pred, S, c, step)
  PROVE  /\ \E g : Solves(g, D, base, pred, S, c, step)
         /\ \A g : Solves(g, D, base, pred, S, c, step) => g \in [D -> S]
<1> USE DEF Ranked
<1> DEFINE Body(d, g) == IF d \in base THEN c ELSE step[d][g[pred[d]]]
           Right(g, k) == \A d \in D : rank[d] <= k => g[d] = Body(d, g)
           Wrong == {k \in 0..N : ~ \E g \in [D -> S] : Right(g, k)}
<1>1. \A d \in D : \A g \in [D -> S] : Body(d, g) \in S
  <2> TAKE d \in D
  <2> TAKE g \in [D -> S]
  <2>1. pred[d] \in D /\ g[pred[d]] \in S
    OBVIOUS
  <2>2. step[d] \in [S -> S]
    OBVIOUS
  <2> QED
    BY <2>1, <2>2
<1>2. ASSUME Wrong # {}
      PROVE  FALSE
  <2> DEFINE k == Min(Wrong)
  <2>1. k \in Wrong /\ \A j \in Wrong : k <= j
    <3>1. Wrong \in SUBSET Nat
      OBVIOUS
    <3> HIDE DEF Wrong
    <3> QED
      BY <1>2, <3>1, LeastIndex
  <2>2. k \in 0..N /\ ~ \E g \in [D -> S] : Right(g, k)
    BY <2>1
  <2> HIDE DEF k
  <2>3. PICK h \in [D -> S] : \A d \in D : rank[d] < k => h[d] = Body(d, h)
    <3>1. CASE k = 0
      <4>1. [d \in D |-> c] \in [D -> S]
        OBVIOUS
      <4>2. \A d \in D : ~(rank[d] < 0)
        OBVIOUS
      <4> QED
        BY <3>1, <4>1, <4>2
    <3>2. CASE k > 0
      <4>1. k - 1 \in 0..N /\ k - 1 \notin Wrong
        <5>1. k - 1 \in 0..N /\ k - 1 < k
          BY <2>2, <3>2
        <5> HIDE DEF Wrong
        <5> QED
          BY <2>1, <2>2, <5>1
      <4>2. PICK h \in [D -> S] : Right(h, k - 1)
        BY <4>1
      <4>3. \A d \in D : rank[d] < k => rank[d] <= k - 1
        BY <2>2
      <4> QED
        BY <4>2, <4>3
    <3> QED
      BY <2>2, <3>1, <3>2
  <2> DEFINE g == [d \in D |-> Body(d, h)]
  <2>4. g \in [D -> S]
    BY <1>1
  <2>5. ASSUME NEW d \in D, rank[d] <= k
        PROVE  g[d] = Body(d, g)
    <3>1. CASE d \in base
      BY <3>1
    <3>2. CASE d \notin base
      <4>1. pred[d] \in D /\ rank[pred[d]] < k
        <5>1. pred[d] \in D /\ rank[pred[d]] < rank[d]
          BY <3>2
        <5>2. rank[pred[d]] \in 0..N /\ rank[d] \in 0..N
          BY <5>1
        <5> QED
          BY <2>2, <2>5, <5>1, <5>2
      <4>2. g[pred[d]] = h[pred[d]]
        BY <2>3, <4>1
      <4> QED
        BY <3>2, <4>2
    <3> QED
      BY <3>1, <3>2
  <2> QED
    BY <2>2, <2>4, <2>5
<1>3. \E g \in [D -> S] : \A d \in D : g[d] = Body(d, g)
  <2>1. PICK g \in [D -> S] : Right(g, N)
    <3>1. N \in 0..N /\ N \notin Wrong
      <4> HIDE DEF Wrong
      <4> QED
        BY <1>2
    <3> QED
      BY <3>1
  <2>2. \A d \in D : g[d] = Body(d, g)
    <3>1. \A d \in D : rank[d] <= N
      OBVIOUS
    <3> QED
      BY <2>1, <3>1
  <2> QED
    BY <2>2
<1>4. ASSUME NEW g, Solves(g, D, base, pred, S, c, step)
      PROVE  g \in [D -> S]
  <2>3. /\ g = [d \in D |-> g[d]]
        /\ \A d \in D : /\ d \in base => g[d] = c
                        /\ d \notin base /\ g[pred[d]] \in S => g[d] = step[d][g[pred[d]]]
    BY <1>4, Zenon DEF Solves
  <2> DEFINE Bad == {k \in 0..N : \E d \in D : rank[d] = k /\ g[d] \notin S}
  <2>1. Bad = {}
    <3> SUFFICES ASSUME Bad # {}
                 PROVE  FALSE
      OBVIOUS
    <3> DEFINE k == Min(Bad)
    <3>1. k \in Bad /\ \A j \in Bad : k <= j
      <4>1. Bad \in SUBSET Nat
        OBVIOUS
      <4> HIDE DEF Bad
      <4> QED
        BY <4>1, LeastIndex
    <3> HIDE DEF k
    <3>2. PICK d \in D : rank[d] = k /\ g[d] \notin S
      BY <3>1
    <3>3. d \notin base
      <4>1. d \in base => g[d] = c
        BY <2>3, <3>2
      <4>2. c \in S
        OBVIOUS
      <4> QED
        BY <3>2, <4>1, <4>2
    <3>4. pred[d] \in D /\ rank[pred[d]] < k /\ rank[pred[d]] \in 0..N /\ k \in 0..N
      BY <3>2, <3>3
    <3>5. rank[pred[d]] \notin Bad
      <4> HIDE DEF Bad
      <4> QED
        BY <3>1, <3>4
    <3>6. g[pred[d]] \in S
      BY <3>4, <3>5
    <3>7. step[d] \in [S -> S]
      BY <3>2
    <3>8. step[d][g[pred[d]]] \in S
      BY <3>6, <3>7
    <3> QED
      BY <2>3, <3>2, <3>3, <3>6, <3>8
  <2>2. \A d \in D : g[d] \in S
    <3>1. \A d \in D : rank[d] \in 0..N
      OBVIOUS
    <3> QED
      BY <2>1, <3>1
  <2> QED
    BY <2>3, <2>2
<1>5. \A g \in [D -> S] : g = [d \in D |-> g[d]]
  OBVIOUS
<1> QED
  BY <1>3, <1>4, <1>5 DEF Solves

\* Sums of integers are integers, and of natural numbers natural.
LEMMA SumType ==
  ASSUME NEW S \in {Int, Nat}, NEW n \in Nat, NEW values \in [1..n -> S]
  PROVE  Sum(values) \in S
<1> DEFINE D == SUBSET (1..n)
           pick(s) == CHOOSE x \in s : TRUE
           rank == [s \in D |-> Cardinality(s)]
           base == {{}}
           pred == [s \in D |-> s \ {pick(s)}]
           step == [s \in D |-> [x \in S |-> IF s = {} THEN 0 ELSE values[pick(s)] + x]]
           Iter(g) == g = [s \in D |-> IF s = {} THEN 0
                                       ELSE values[pick(s)] + g[s \ {pick(s)}]]
<1>1. Sum(values) = (CHOOSE g : Iter(g))[1..n]
  <2>1. DOMAIN values = 1..n
    OBVIOUS
  <2>2. Sum(values) =
          (CHOOSE g : g = [s \in SUBSET DOMAIN values |->
             IF s = {} THEN 0
             ELSE values[CHOOSE x \in s : TRUE] + g[s \ {CHOOSE x \in s : TRUE}]])[DOMAIN values]
    BY Zenon DEF Sum, FoldFunction, FoldFunctionOnSet, MapThenFoldSet
  <2> QED
    BY <2>1, <2>2, Zenon
<1>2. /\ 0 \in S /\ \A x, y \in S : x + y \in S
  OBVIOUS
<1>3. \A s \in D : IsFiniteSet(s) /\ Cardinality(s) \in 0..n
  <2>1. IsFiniteSet(1..n) /\ Cardinality(1..n) = n
    BY FS_Interval
  <2> TAKE s \in D
  <2>2. IsFiniteSet(s) /\ Cardinality(s) <= n
    BY <2>1, FS_Subset
  <2>3. Cardinality(s) \in Nat
    BY <2>2, FS_CardinalityType
  <2> QED
    BY <2>2, <2>3
<1>4. \A s \in D : s # {} => pick(s) \in s
  OBVIOUS
<1>5. \A s \in D : s # {} => values[pick(s)] \in S
  <2> TAKE s \in D
  <2> HAVE s # {}
  <2>1. pick(s) \in 1..n
    BY <1>4
  <2> HIDE DEF pick
  <2> QED
    BY <2>1
<1> HIDE DEF pick
<1>6. rank \in [D -> 0..n]
  BY <1>3
<1>7. base \in SUBSET D /\ pred \in [D -> D]
  OBVIOUS
<1>8. \A s \in D \ base : rank[pred[s]] < rank[s]
  <2> TAKE s \in D \ base
  <2>1. s # {} /\ pick(s) \in s /\ IsFiniteSet(s) /\ s \ {pick(s)} \in D
    BY <1>3, <1>4
  <2>2. Cardinality(s \ {pick(s)}) = Cardinality(s) - 1
    BY <2>1, FS_RemoveElement
  <2>3. Cardinality(s) \in Nat
    BY <2>1, FS_CardinalityType
  <2> QED
    BY <2>1, <2>2, <2>3
<1>9. step \in [D -> [S -> S]]
  BY <1>2, <1>5
<1> DEFINE zero == 0
<1>10. zero \in S /\ n \in Nat
  BY <1>2
<1> HIDE DEF D, rank, base, pred, step, zero
<1>11. Ranked(D, n, rank, base, pred, S, zero, step)
  BY <1>6, <1>7, <1>8, <1>9, <1>10 DEF Ranked
<1>12. /\ \E g : Solves(g, D, base, pred, S, zero, step)
       /\ \A g : Solves(g, D, base, pred, S, zero, step) => g \in [D -> S]
  BY <1>11, RankedRecursion
<1>13. /\ zero = 0
       /\ \A s \in D : (s \in base <=> s = {}) /\ pred[s] = s \ {pick(s)}
       /\ \A s \in D, x \in S : s # {} => step[s][x] = values[pick(s)] + x
  BY DEF D, base, pred, step, zero
<1>14. \E g : Iter(g)
  <2>1. PICK g : Solves(g, D, base, pred, S, zero, step)
    BY <1>12
  <2>2. g \in [D -> S]
    BY <1>12, <2>1
  <2>3. \A s \in D : g[pred[s]] \in S
    BY <1>7, <2>2
  <2>4. \A s \in D : g[s] = IF s = {} THEN 0 ELSE values[pick(s)] + g[s \ {pick(s)}]
    <3> TAKE s \in D
    <3>1. CASE s = {}
      <4>1. s \in base
        BY <1>13, <3>1
      <4>2. g[s] = zero
        BY <2>1, <4>1 DEF Solves
      <4> QED
        BY <1>13, <3>1, <4>2
    <3>2. CASE s # {}
      <4>1. s \notin base /\ g[pred[s]] \in S /\ pred[s] = s \ {pick(s)}
        BY <1>13, <2>3, <3>2
      <4>2. g[s] = step[s][g[pred[s]]]
        BY <2>1, <4>1 DEF Solves
      <4> QED
        BY <1>13, <3>2, <4>1, <4>2
    <3> QED
      BY <3>1, <3>2
  <2>5. g = [s \in D |-> g[s]]
    BY <2>2
  <2> QED
    BY <2>4, <2>5
<1>15. ASSUME NEW g, Iter(g)
       PROVE  g \in [D -> S]
  <2>1. /\ g = [s \in D |-> g[s]]
        /\ \A s \in D : g[s] = IF s = {} THEN 0 ELSE values[pick(s)] + g[s \ {pick(s)}]
    BY <1>15
  <2>2. Solves(g, D, base, pred, S, zero, step)
    <3>1. ASSUME NEW s \in D, s \in base
          PROVE  g[s] = zero
      BY <1>13, <2>1, <3>1
    <3>2. ASSUME NEW s \in D, s \notin base, g[pred[s]] \in S
          PROVE  g[s] = step[s][g[pred[s]]]
      <4>1. s # {} /\ pred[s] = s \ {pick(s)}
        BY <1>13, <3>2
      <4>2. g[s] = values[pick(s)] + g[pred[s]]
        BY <2>1, <4>1
      <4> QED
        BY <1>13, <3>2, <4>1, <4>2
    <3> QED
      BY <2>1, <3>1, <3>2 DEF Solves
  <2> QED
    BY <1>12, <2>2
<1> HIDE DEF Iter
<1>16. (CHOOSE g : Iter(g)) \in [D -> S]
  BY <1>14, <1>15
<1>17. 1..n \in D
  BY DEF D
<1> QED
  BY <1>1, <1>16, <1>17

LEMMA MeanType ==
  ASSUME NEW S \in {Int, Nat}, NEW values \in Seq(S), NEW period \in Nat \ {0},
         period <= Len(values)
  PROVE  Mean(values, period) \in S
<1> DEFINE first == SubSeq(values, 1, period)
<1>1. first \in [1..period -> S]
  <2>1. \A i \in 1..period : values[i] \in S
    OBVIOUS
  <2>2. first \in Seq(S) /\ Len(first) = period
    <3>1. 1 \in Int /\ period \in Int /\ 1 <= period
      OBVIOUS
    <3> QED
      BY <2>1, <3>1, SubSeqProperties
  <2> HIDE DEF first
  <2> QED
    BY <2>2
<1> HIDE DEF first
<1>2. Sum(first) \in S
  BY <1>1, SumType
<1>3. Mean(values, period) = Sum(first) \div period
  BY DEF Mean, first
<1>4. \A x \in S : x \div period \in S
  <2>1. CASE S = Int
    BY <2>1
  <2>2. CASE S = Nat
    BY <2>2
  <2> QED
    BY <2>1, <2>2
<1> QED
  BY <1>2, <1>3, <1>4

\* From the first of an interval on, each value is made of the one before.
Before(m, N) == [d \in m..N |-> IF d = m THEN m ELSE d - 1]

LEMMA ChainRanked ==
  ASSUME NEW m \in Nat, NEW N \in Nat, m <= N, NEW S, NEW c \in S,
         NEW step \in [m..N -> [S -> S]]
  PROVE  /\ \E g : Solves(g, m..N, {m}, Before(m, N), S, c, step)
         /\ \A g : Solves(g, m..N, {m}, Before(m, N), S, c, step) => g \in [m..N -> S]
<1> DEFINE rank == [d \in m..N |-> d - m]
<1>1. rank \in [m..N -> 0..N]
  OBVIOUS
<1>2. Before(m, N) \in [m..N -> m..N] /\ {m} \in SUBSET (m..N)
  BY DEF Before
<1>3. \A d \in m..N \ {m} : rank[Before(m, N)[d]] < rank[d]
  BY DEF Before
<1> HIDE DEF rank
<1>4. Ranked(m..N, N, rank, {m}, Before(m, N), S, c, step)
  BY <1>1, <1>2, <1>3 DEF Ranked
<1> QED
  BY <1>4, RankedRecursion

LEMMA EmaType ==
  ASSUME NEW values \in Seq(Int), NEW period \in Nat \ {0}, period <= Len(values)
  PROVE  Ema(values, period) \in [period..Len(values) -> Int]
<1> DEFINE D == period..Len(values)
           c == Mean(values, period)
           moved(n, x) == x + ((values[n] - x) * 2) \div (period + 1)
           step == [n \in D |-> [x \in Int |-> moved(n, x)]]
           before == Before(period, Len(values))
           Iter(g) == g = [n \in D |-> IF n = period THEN c ELSE moved(n, g[n - 1])]
<1>1. Ema(values, period) = CHOOSE g : Iter(g)
  BY Zenon DEF Ema
<1>2. Len(values) \in Nat /\ period \in Nat /\ c \in Int
  BY MeanType
<1>3. step \in [D -> [Int -> Int]]
  <2>1. \A n \in D, x \in Int : moved(n, x) \in Int
    <3> TAKE n \in D, x \in Int
    <3>1. values[n] \in Int
      BY <1>2
    <3> QED
      BY <1>2, <3>1
  <2> HIDE DEF moved
  <2> QED
    BY <2>1
<1>4. /\ \A n \in D, x \in Int : step[n][x] = moved(n, x)
      /\ \A n \in D : n # period => before[n] = n - 1 /\ n - 1 \in D
      /\ period \in D
  BY <1>2 DEF Before
<1> HIDE DEF step, before, c
<1>5. /\ \E g : Solves(g, D, {period}, before, Int, c, step)
      /\ \A g : Solves(g, D, {period}, before, Int, c, step) => g \in [D -> Int]
  BY <1>2, <1>3, ChainRanked DEF before
<1> HIDE DEF moved, D
<1>6. \E g : Iter(g)
  <2>1. PICK g : Solves(g, D, {period}, before, Int, c, step)
    BY <1>5
  <2>2. g \in [D -> Int]
    BY <1>5, <2>1
  <2>3. ASSUME NEW n \in D
        PROVE  g[n] = IF n = period THEN c ELSE moved(n, g[n - 1])
    <3>1. CASE n = period
      BY <2>1, <3>1 DEF Solves
    <3>2. CASE n # period
      <4>1. before[n] = n - 1 /\ g[n - 1] \in Int
        BY <1>4, <2>2, <3>2
      <4>2. g[n] = step[n][g[n - 1]]
        BY <2>1, <3>2, <4>1 DEF Solves
      <4> QED
        BY <1>4, <3>2, <4>1, <4>2
    <3> QED
      BY <3>1, <3>2
  <2> QED
    BY <2>2, <2>3
<1>7. ASSUME NEW g, Iter(g)
      PROVE  g \in [D -> Int]
  <2>1. /\ g = [n \in D |-> g[n]]
        /\ \A n \in D : g[n] = IF n = period THEN c ELSE moved(n, g[n - 1])
    BY <1>7
  <2>2. ASSUME NEW n \in D, n \notin {period}, g[before[n]] \in Int
        PROVE  g[n] = step[n][g[before[n]]]
    <3>1. n # period /\ before[n] = n - 1
      BY <1>4, <2>2
    <3>2. g[n] = moved(n, g[before[n]])
      BY <2>1, <3>1
    <3> QED
      BY <1>4, <2>2, <3>2
  <2>3. \A n \in D : n \in {period} => g[n] = c
    BY <2>1
  <2>4. Solves(g, D, {period}, before, Int, c, step)
    BY <2>1, <2>2, <2>3 DEF Solves
  <2> QED
    BY <1>5, <2>4
<1> HIDE DEF Iter
<1>8. (CHOOSE g : Iter(g)) \in [D -> Int]
  BY <1>6, <1>7
<1> QED
  BY <1>1, <1>8 DEF D

LEMMA SmoothedType ==
  ASSUME NEW values \in Seq(Nat), NEW period \in Nat \ {0}, period <= Len(values)
  PROVE  Smoothed(values, period) \in Nat
<1> DEFINE D == period..Len(values)
           c == Mean(values, period)
           moved(n, x) == ((period - 1) * x + values[n]) \div period
           step == [n \in D |-> [x \in Nat |-> moved(n, x)]]
           before == Before(period, Len(values))
           Iter(g) == g = [n \in D |-> IF n = period THEN c ELSE moved(n, g[n - 1])]
<1>1. Smoothed(values, period) = (CHOOSE g : Iter(g))[Len(values)]
  BY Zenon DEF Smoothed
<1>2. Len(values) \in Nat /\ period \in Nat /\ c \in Nat
  BY MeanType
<1>3. step \in [D -> [Nat -> Nat]]
  <2>1. \A n \in D, x \in Nat : moved(n, x) \in Nat
    <3> TAKE n \in D, x \in Nat
    <3>1. values[n] \in Nat
      BY <1>2
    <3>2. (period - 1) * x \in Nat
      BY <1>2
    <3> DEFINE total == (period - 1) * x + values[n]
    <3>3. total \in Nat
      BY <3>1, <3>2
    <3> HIDE DEF total
    <3>4. total \div period \in Nat
      BY <3>3
    <3> QED
      BY <3>4 DEF total
  <2> HIDE DEF moved
  <2> QED
    BY <2>1
<1>4. /\ \A n \in D, x \in Nat : step[n][x] = moved(n, x)
      /\ \A n \in D : n # period => before[n] = n - 1 /\ n - 1 \in D
      /\ period \in D
  BY <1>2 DEF Before
<1> HIDE DEF step, before, c
<1>5. /\ \E g : Solves(g, D, {period}, before, Nat, c, step)
      /\ \A g : Solves(g, D, {period}, before, Nat, c, step) => g \in [D -> Nat]
  BY <1>2, <1>3, ChainRanked DEF before
<1> HIDE DEF moved, D
<1>6. \E g : Iter(g)
  <2>1. PICK g : Solves(g, D, {period}, before, Nat, c, step)
    BY <1>5
  <2>2. g \in [D -> Nat]
    BY <1>5, <2>1
  <2>3. ASSUME NEW n \in D
        PROVE  g[n] = IF n = period THEN c ELSE moved(n, g[n - 1])
    <3>1. CASE n = period
      BY <2>1, <3>1 DEF Solves
    <3>2. CASE n # period
      <4>1. before[n] = n - 1 /\ g[n - 1] \in Nat
        BY <1>4, <2>2, <3>2
      <4>2. g[n] = step[n][g[n - 1]]
        BY <2>1, <3>2, <4>1 DEF Solves
      <4> QED
        BY <1>4, <3>2, <4>1, <4>2
    <3> QED
      BY <3>1, <3>2
  <2> QED
    BY <2>2, <2>3
<1>7. ASSUME NEW g, Iter(g)
      PROVE  g \in [D -> Nat]
  <2>1. /\ g = [n \in D |-> g[n]]
        /\ \A n \in D : g[n] = IF n = period THEN c ELSE moved(n, g[n - 1])
    BY <1>7
  <2>2. ASSUME NEW n \in D, n \notin {period}, g[before[n]] \in Nat
        PROVE  g[n] = step[n][g[before[n]]]
    <3>1. n # period /\ before[n] = n - 1
      BY <1>4, <2>2
    <3>2. g[n] = moved(n, g[before[n]])
      BY <2>1, <3>1
    <3> QED
      BY <1>4, <2>2, <3>2
  <2>3. \A n \in D : n \in {period} => g[n] = c
    BY <2>1
  <2>4. Solves(g, D, {period}, before, Nat, c, step)
    BY <2>1, <2>2, <2>3 DEF Solves
  <2> QED
    BY <1>5, <2>4
<1> HIDE DEF Iter
<1>8. (CHOOSE g : Iter(g)) \in [D -> Nat]
  BY <1>6, <1>7
<1>9. Len(values) \in D
  BY <1>2 DEF D
<1> QED
  BY <1>1, <1>8, <1>9

-----------------------------------------------------------------------------
(* The indicators                                                          *)

LEMMA PeriodsType ==
  /\ Periods.emaFast \in Nat \ {0} /\ Periods.emaSlow \in Nat \ {0}
  /\ Periods.rsi \in Nat \ {0} /\ Periods.macdFast \in Nat \ {0}
  /\ Periods.macdSlow \in Nat \ {0} /\ Periods.macdSignal \in Nat \ {0}
  /\ Periods.bollinger \in Nat \ {0} /\ Periods.atr \in Nat \ {0}
  /\ Periods.volume \in Nat \ {0} /\ Periods.macdFast <= Periods.macdSlow
BY PeriodsAssumption DEF PeriodNames

\* The minimum covers every indicator.
LEMMA MinimumCandlesCover ==
  /\ MinimumCandles \in Nat
  /\ MinimumCandles >= Periods.emaFast /\ MinimumCandles >= Periods.emaSlow
  /\ MinimumCandles >= Periods.rsi + 1
  /\ MinimumCandles >= Periods.macdSlow + Periods.macdSignal - 1
  /\ MinimumCandles >= Periods.atr + 1 /\ MinimumCandles >= Periods.volume
<1> DEFINE a == Periods.emaFast
           b == Periods.emaSlow
           c == Periods.rsi + 1
           d == Periods.macdSlow + Periods.macdSignal - 1
           e == Periods.bollinger
           f == Periods.atr + 1
           g == Periods.volume
           needed == {a, b, c, d, e, f, g}
           Larger(x, y) == IF x <= y THEN y ELSE x
           n == Larger(a, Larger(b, Larger(c, Larger(d, Larger(e, Larger(f, g))))))
<1>1. a \in Nat /\ b \in Nat /\ c \in Nat /\ d \in Nat /\ e \in Nat /\ f \in Nat /\ g \in Nat
  BY PeriodsType
<1>2. MinimumCandles = CHOOSE m \in needed : \A k \in needed : k <= m
  BY DEF MinimumCandles
<1> HIDE DEF a, b, c, d, e, f, g
<1>3. n \in needed /\ \A k \in needed : k <= n
  <2>1. \A x, y \in Nat : /\ Larger(x, y) \in {x, y} /\ Larger(x, y) \in Nat
                          /\ x <= Larger(x, y) /\ y <= Larger(x, y)
    OBVIOUS
  <2> DEFINE n1 == Larger(f, g)
             n2 == Larger(e, n1)
             n3 == Larger(d, n2)
             n4 == Larger(c, n3)
             n5 == Larger(b, n4)
  <2> HIDE DEF Larger
  <2>2. n1 \in Nat /\ n1 \in {f, g} /\ f <= n1 /\ g <= n1
    BY <1>1, <2>1
  <2> HIDE DEF n1
  <2>3. n2 \in Nat /\ n2 \in {e, n1} /\ e <= n2 /\ n1 <= n2
    BY <1>1, <2>1, <2>2
  <2> HIDE DEF n2
  <2>4. n3 \in Nat /\ n3 \in {d, n2} /\ d <= n3 /\ n2 <= n3
    BY <1>1, <2>1, <2>3
  <2> HIDE DEF n3
  <2>5. n4 \in Nat /\ n4 \in {c, n3} /\ c <= n4 /\ n3 <= n4
    BY <1>1, <2>1, <2>4
  <2> HIDE DEF n4
  <2>6. n5 \in Nat /\ n5 \in {b, n4} /\ b <= n5 /\ n4 <= n5
    BY <1>1, <2>1, <2>5
  <2> HIDE DEF n5
  <2>7. n \in Nat /\ n \in {a, n5} /\ a <= n /\ n5 <= n
    BY <1>1, <2>1, <2>6 DEF n5, n4, n3, n2, n1
  <2> HIDE DEF n
  <2>8. n \in needed
    BY <2>2, <2>3, <2>4, <2>5, <2>6, <2>7
  <2>9. a <= n /\ b <= n /\ c <= n /\ d <= n /\ e <= n /\ f <= n /\ g <= n
    BY <1>1, <2>2, <2>3, <2>4, <2>5, <2>6, <2>7
  <2> QED
    BY <2>8, <2>9
<1> HIDE DEF n
<1>4. MinimumCandles \in needed /\ \A k \in needed : k <= MinimumCandles
  <2> HIDE DEF needed
  <2> QED
    BY <1>2, <1>3
<1>5. MinimumCandles \in Nat
  BY <1>1, <1>4
<1> QED
  BY <1>1, <1>4, <1>5 DEF a, b, c, d, e, f, g

LEMMA ChangesType ==
  ASSUME NEW values \in Seq(Nat), Len(values) > 0
  PROVE  Changes(values) \in [1..(Len(values) - 1) -> Int]
<1>1. \A n \in 1..(Len(values) - 1) : values[n] \in Nat /\ values[n + 1] \in Nat
  OBVIOUS
<1> QED
  BY <1>1 DEF Changes

\* The RSI is a percentage.
LEMMA RsiType ==
  ASSUME NEW values \in Seq(Nat), Len(values) >= Periods.rsi + 1
  PROVE  Rsi(values) \in 0..100
<1> DEFINE changes == Changes(values)
           gains == [n \in DOMAIN changes |-> Gain(changes[n])]
           losses == [n \in DOMAIN changes |-> Gain(-changes[n])]
           gain == Smoothed(gains, Periods.rsi)
           loss == Smoothed(losses, Periods.rsi)
           count == Len(values) - 1
<1>1. count \in Nat /\ Periods.rsi \in Nat \ {0} /\ Periods.rsi <= count
  BY PeriodsType
<1>2. changes \in [1..count -> Int]
  BY <1>1, ChangesType
<1> HIDE DEF changes, count
<1>3. \A x \in Int : Gain(x) \in Nat
  BY DEF Gain
<1>4. gains \in [1..count -> Nat] /\ losses \in [1..count -> Nat]
  <2>1. \A n \in 1..count : changes[n] \in Int /\ -changes[n] \in Int
    BY <1>2
  <2> QED
    BY <1>2, <1>3, <2>1
<1> HIDE DEF gains, losses
<1>5. /\ gains \in Seq(Nat) /\ Len(gains) = count
      /\ losses \in Seq(Nat) /\ Len(losses) = count
  BY <1>1, <1>4
<1>6. gain \in Nat /\ loss \in Nat
  BY <1>1, <1>5, SmoothedType
<1>7. Rsi(values) = IF loss = 0 THEN (IF gain > 0 THEN 100 ELSE 50) ELSE Share(gain, loss)
  BY DEF Rsi, changes, gains, losses
<1> HIDE DEF gain, loss
<1>8. ASSUME loss # 0
      PROVE  Share(gain, loss) \in 0..100
  <2> DEFINE total == gain + loss
             whole == 100 * gain
  <2>1. total \in Nat \ {0} /\ whole \in Nat /\ whole <= 100 * total
    BY <1>6, <1>8
  <2>2. Share(gain, loss) = whole \div total
    BY DEF Share
  <2> HIDE DEF total, whole
  <2>3. whole \div total \in Int /\ (whole \div total) * total <= whole
        /\ whole < (whole \div total) * total + total
    BY <2>1
  <2> DEFINE q == whole \div total
  <2>4. q >= 0
    BY <2>1
  <2>5. ~(q >= 101)
    <3>1. ASSUME q >= 101
          PROVE  q * total >= 101 * total
      BY <2>1, <2>3, <3>1
    <3> HIDE DEF q
    <3> QED
      BY <2>1, <2>3, <3>1 DEF q
  <2>6. q \in Int
    BY <2>3
  <2> HIDE DEF q
  <2>7. q \in 0..100
    BY <2>4, <2>5, <2>6
  <2> QED
    BY <2>2, <2>7 DEF q
<1> QED
  BY <1>6, <1>7, <1>8

LEMMA AbsType ==
  ASSUME NEW x \in Int
  PROVE  Abs(x) \in Nat
BY DEF Abs

\* A true range is not negative, so the ATR is not.
LEMMA AtrType ==
  ASSUME NEW candles \in Seq(CandleRecords), Len(candles) >= Periods.atr + 1
  PROVE  Atr(candles) \in Nat
<1> DEFINE ranges(n) ==
             {candles[n + 1].high - candles[n + 1].low,
              Abs(candles[n + 1].high - candles[n].close),
              Abs(candles[n + 1].low - candles[n].close)}
           widest(n) == CHOOSE r \in ranges(n) : \A other \in ranges(n) : other <= r
           count == Len(candles) - 1
           widths == [n \in 1..count |-> widest(n)]
<1>1. count \in Nat /\ Periods.atr \in Nat \ {0} /\ Periods.atr <= count
  BY PeriodsType
<1>2. ASSUME NEW n \in 1..count
      PROVE  widest(n) \in Nat
  <2> DEFINE a == candles[n + 1].high - candles[n + 1].low
             b == Abs(candles[n + 1].high - candles[n].close)
             c == Abs(candles[n + 1].low - candles[n].close)
             R == {a, b, c}
             w == CHOOSE r \in R : \A other \in R : other <= r
  <2>1. a \in Int /\ b \in Nat /\ c \in Nat
    <3>1. candles[n] \in CandleRecords /\ candles[n + 1] \in CandleRecords
      BY <1>1
    <3>2. /\ candles[n + 1].high \in Int /\ candles[n + 1].low \in Int
          /\ candles[n].close \in Int
      <4>1. \A candle \in CandleRecords :
              candle.high \in Int /\ candle.low \in Int /\ candle.close \in Int
        BY DEF CandleRecords
      <4> QED
        BY <3>1, <4>1
    <3>3. a \in Int /\ candles[n + 1].high - candles[n].close \in Int
          /\ candles[n + 1].low - candles[n].close \in Int
      BY <3>2
    <3> QED
      BY <3>3, AbsType
  <2>2. widest(n) = w
    OBVIOUS
  <2> HIDE DEF a, b, c
  <2>3. \E r \in R : \A other \in R : other <= r
    <3>1. CASE a <= b /\ b <= c
      BY <2>1, <3>1
    <3>2. CASE a <= b /\ c <= b
      BY <2>1, <3>2
    <3>3. CASE b <= a /\ c <= a
      BY <2>1, <3>3
    <3>4. CASE b <= a /\ a <= c
      BY <2>1, <3>4
    <3> QED
      BY <2>1, <3>1, <3>2, <3>3, <3>4
  <2>4. w \in R /\ \A other \in R : other <= w
    <3> HIDE DEF R
    <3> QED
      BY <2>3
  <2>5. w \in {a, b, c} /\ b <= w
    BY <2>4
  <2> HIDE DEF w
  <2>6. w \in Nat
    BY <2>1, <2>5
  <2> HIDE DEF widest
  <2> QED
    BY <2>2, <2>6
<1>3. Atr(candles) = Smoothed(widths, Periods.atr)
  BY DEF Atr
<1> HIDE DEF widest
<1>4. widths \in [1..count -> Nat]
  BY <1>2
<1> HIDE DEF widths, count
<1>5. widths \in Seq(Nat) /\ Len(widths) = count
  BY <1>1, <1>4
<1> QED
  BY <1>1, <1>3, <1>5, SmoothedType

\* The MACD line is as long as its signal needs.
LEMMA MacdType ==
  ASSUME NEW values \in Seq(Int),
         Len(values) >= Periods.macdSlow + Periods.macdSignal - 1
  PROVE  LET macd == Macd(values)
         IN  /\ macd \in Seq(Int)
             /\ Len(macd) \in Nat \ {0} /\ Periods.macdSignal <= Len(macd)
<1> DEFINE fast == Ema(values, Periods.macdFast)
           slow == Ema(values, Periods.macdSlow)
           before == Periods.macdSlow - 1
           count == Len(values) - before
           macd == [n \in 1..count |-> fast[n + before] - slow[n + before]]
<1>1. /\ before \in Nat /\ count \in Nat \ {0} /\ Periods.macdSignal <= count
      /\ Periods.macdFast \in Nat \ {0} /\ Periods.macdFast <= Len(values)
      /\ Periods.macdSlow \in Nat \ {0} /\ Periods.macdSlow <= Len(values)
      /\ Periods.macdFast <= before + 1 /\ Periods.macdSlow = before + 1
      /\ count + before = Len(values)
  <2>1. /\ Periods.macdFast \in Nat \ {0} /\ Periods.macdSlow \in Nat \ {0}
        /\ Periods.macdSignal \in Nat \ {0} /\ Periods.macdFast <= Periods.macdSlow
    BY PeriodsType
  <2>2. Len(values) \in Nat /\ Len(values) >= Periods.macdSlow + Periods.macdSignal - 1
    OBVIOUS
  <2>3. before \in Nat /\ Periods.macdSlow = before + 1 /\ Periods.macdFast <= before + 1
    BY <2>1
  <2>4. /\ count \in Int /\ Periods.macdSignal <= count
        /\ count + before = Len(values) /\ Periods.macdSlow <= Len(values)
    BY <2>1, <2>2
  <2>5. Periods.macdFast <= Len(values)
    BY <2>1, <2>2, <2>4
  <2>6. count \in Nat \ {0}
    <3> HIDE DEF count
    <3> QED
      BY <2>1, <2>4
  <2> QED
    BY <2>1, <2>3, <2>4, <2>5, <2>6
<1>2. /\ fast \in [Periods.macdFast..Len(values) -> Int]
      /\ slow \in [Periods.macdSlow..Len(values) -> Int]
  BY <1>1, EmaType
<1>3. Macd(values) = macd
  BY DEF Macd
<1> HIDE DEF fast, slow, before, count
<1>4. macd \in [1..count -> Int]
  <2>1. ASSUME NEW n \in 1..count
        PROVE  fast[n + before] \in Int /\ slow[n + before] \in Int
    <3>1. n + before \in Periods.macdFast..Len(values)
          /\ n + before \in Periods.macdSlow..Len(values)
      BY <1>1
    <3> QED
      BY <1>2, <3>1
  <2> QED
    BY <2>1
<1> HIDE DEF macd
<1>5. macd \in Seq(Int) /\ Len(macd) = count
  BY <1>1, <1>4
<1> QED
  BY <1>1, <1>3, <1>5

LEMMA VolumeRatioType ==
  ASSUME NEW volumes \in Seq(Nat), Len(volumes) >= Periods.volume
  PROVE  VolumeRatio(volumes) \in Nat
<1> DEFINE n == Len(volumes)
           from == n - Periods.volume + 1
           recent == SubSeq(volumes, from, n)
           total == Sum(recent)
           scaled == volumes[n] * Periods.volume * Unit
<1>1. Periods.volume \in Nat \ {0} /\ n \in Nat \ {0} /\ from \in 1..n
  <2>1. Periods.volume \in Nat \ {0}
    BY PeriodsType
  <2>2. n \in Nat /\ n >= Periods.volume
    OBVIOUS
  <2> QED
    BY <2>1, <2>2
<1>2. recent \in [1..(n - from + 1) -> Nat] /\ n - from + 1 \in Nat
  <2>1. from \in Int /\ n \in Int /\ from <= n /\ n - from + 1 \in Nat
        /\ \A i \in from..n : volumes[i] \in Nat
    BY <1>1
  <2> HIDE DEF from
  <2>2. recent \in Seq(Nat) /\ Len(recent) = n - from + 1
    BY <2>1, SubSeqProperties
  <2> HIDE DEF recent
  <2> QED
    BY <2>1, <2>2
<1> HIDE DEF recent
<1>3. total \in Nat
  BY <1>2, SumType
<1>4. scaled \in Nat
  <2>1. volumes[n] \in Nat /\ Unit \in Nat
    BY <1>1, PeriodsAssumption
  <2>2. volumes[n] * Periods.volume \in Nat
    BY <1>1, <2>1
  <2> QED
    BY <2>1, <2>2
<1>5. VolumeRatio(volumes) = IF total = 0 THEN 0 ELSE scaled \div total
  BY DEF VolumeRatio, recent
<1> HIDE DEF total, scaled
<1> QED
  BY <1>3, <1>4, <1>5

\* Of enough candles every indicator can be computed, and is in its range.
LEMMA SnapshotType ==
  ASSUME NEW candles \in Seq(CandleRecords), Len(candles) >= MinimumCandles
  PROVE  Snapshot(candles) \in Snapshots
<1> DEFINE n == Len(candles)
           closes == [i \in 1..n |-> candles[i].close]
           volumes == [i \in 1..n |-> candles[i].volume]
           macd == Macd(closes)
           emaFast == Ema(closes, Periods.emaFast)
           emaSlow == Ema(closes, Periods.emaSlow)
           emaMacd == Ema(macd, Periods.macdSignal)
<1>1. /\ n \in Nat /\ n >= Periods.emaFast /\ n >= Periods.emaSlow
      /\ n >= Periods.rsi + 1 /\ n >= Periods.macdSlow + Periods.macdSignal - 1
      /\ n >= Periods.atr + 1 /\ n >= Periods.volume
  <2>1. n \in Nat /\ n >= MinimumCandles
    OBVIOUS
  <2>2. /\ MinimumCandles \in Nat /\ Periods.emaFast \in Nat /\ Periods.emaSlow \in Nat
        /\ Periods.rsi + 1 \in Nat /\ Periods.macdSlow + Periods.macdSignal - 1 \in Int
        /\ Periods.atr + 1 \in Nat /\ Periods.volume \in Nat
    <3>1. MinimumCandles \in Nat
      BY MinimumCandlesCover
    <3>2. \A a \in Nat \ {0} : a \in Nat /\ a + 1 \in Nat
      OBVIOUS
    <3>3. \A a, b \in Nat \ {0} : a + b - 1 \in Int
      OBVIOUS
    <3> QED
      BY <3>1, <3>2, <3>3, PeriodsType
  <2>3. \A needed \in Int : MinimumCandles >= needed => n >= needed
    BY <2>1, <2>2
  <2> HIDE DEF n
  <2> QED
    BY <2>1, <2>2, <2>3, MinimumCandlesCover
<1>2. /\ Periods.emaFast \in Nat \ {0} /\ Periods.emaSlow \in Nat \ {0}
      /\ Periods.macdSignal \in Nat \ {0}
  BY PeriodsType
<1>3. n \in Nat \ {0}
  BY <1>1, <1>2
<1>4. \A i \in 1..n : candles[i].close \in Nat \ {0} /\ candles[i].volume \in Nat
  <2>1. \A i \in 1..n : candles[i] \in CandleRecords
    OBVIOUS
  <2> QED
    BY <2>1 DEF CandleRecords
<1>5. /\ closes \in [1..n -> Nat \ {0}] /\ volumes \in [1..n -> Nat]
  BY <1>4
<1>6. Snapshot(candles) =
        [close |-> closes[n], fast |-> emaFast[n], slow |-> emaSlow[n],
         rsi |-> Rsi(closes), macd |-> macd[Len(macd)],
         macdSignal |-> emaMacd[Len(macd)], atr |-> Atr(candles),
         volumeRatio |-> VolumeRatio(volumes)]
  BY DEF Snapshot
<1>7. Atr(candles) \in Nat
  BY <1>1, AtrType
<1> HIDE DEF closes, volumes
<1> HIDE DEF n
<1>8. /\ closes \in Seq(Int) /\ closes \in Seq(Nat) /\ Len(closes) = n
      /\ volumes \in Seq(Nat) /\ Len(volumes) = n
  BY <1>3, <1>5
<1>9. /\ emaFast \in [Periods.emaFast..n -> Int]
      /\ emaSlow \in [Periods.emaSlow..n -> Int]
  BY <1>1, <1>2, <1>8, EmaType
<1>10. n \in Periods.emaFast..n /\ n \in Periods.emaSlow..n
  BY <1>1, <1>2
<1>11. emaFast[n] \in Int /\ emaSlow[n] \in Int
  <2> HIDE DEF emaFast, emaSlow
  <2> QED
    BY <1>9, <1>10
<1>12. macd \in Seq(Int) /\ Len(macd) \in Nat \ {0} /\ Periods.macdSignal <= Len(macd)
  BY <1>1, <1>8, MacdType
<1> HIDE DEF macd
<1>13. emaMacd \in [Periods.macdSignal..Len(macd) -> Int]
  BY <1>2, <1>12, EmaType
<1> HIDE DEF emaMacd, emaFast, emaSlow
<1>14. macd[Len(macd)] \in Int /\ emaMacd[Len(macd)] \in Int
  <2>1. Len(macd) \in Periods.macdSignal..Len(macd) /\ Len(macd) \in 1..Len(macd)
    BY <1>2, <1>12
  <2> QED
    BY <1>12, <1>13, <2>1
<1>15. Rsi(closes) \in 0..100
  BY <1>1, <1>8, RsiType
<1>16. VolumeRatio(volumes) \in Nat
  BY <1>1, <1>8, VolumeRatioType
<1>17. closes[n] \in Nat \ {0}
  BY <1>3, <1>5
<1> QED
  BY <1>6, <1>7, <1>11, <1>14, <1>15, <1>16, <1>17 DEF Snapshots

\* The signal's indicators are in their ranges.
LEMMA SignalType ==
  ASSUME DecisionInv, signal # None
  PROVE  signal \in [side : Sides, indicators : Snapshots]
<1>1. MayEvaluate
      /\ signal = [side |-> Confirmed(Evaluate(history)), indicators |-> Snapshot(history)]
  BY DEF DecisionInv, SignalInv
<1>2. history \in Seq(CandleRecords) /\ Len(history) >= MinimumCandles
  <2>1. history \in Seq(CandleRecords) /\ Len(history) >= MinimumHistory
    BY <1>1 DEF DecisionInv, HistoryInv, MayEvaluate, EnoughHistory
  <2>2. MinimumHistory >= MinimumCandles /\ MinimumHistory \in Nat /\ MinimumCandles \in Nat
    BY StrategyAssumption, MinimumCandlesCover
  <2> QED
    BY <2>1, <2>2
<1>3. Snapshot(history) \in Snapshots
  BY <1>2, SnapshotType
<1>4. Evaluate(history) \in Sides
  <2>1. \A s, high, low : SideOf(s, high, low) \in Sides
    <3> TAKE s, high, low
    <3> DEFINE long == ~Volatile(s) /\ (LongBreakout(s, high) \/ LongPullback(s))
               short == ~Volatile(s) /\ (ShortBreakout(s, low) \/ ShortPullback(s))
    <3>1. SideOf(s, high, low) =
            CASE Volatile(s) -> "NO_TRADE" [] long -> "LONG" [] short -> "SHORT"
              [] OTHER -> "NO_TRADE"
      BY DEF SideOf
    <3> HIDE DEF long, short
    <3> QED
      BY <3>1 DEF Sides
  <2> QED
    BY <2>1 DEF Evaluate
<1>5. Confirmed(Evaluate(history)) \in Sides
  BY <1>4 DEF Confirmed, Sides
<1> QED
  BY <1>1, <1>3, <1>5

\* The state keeps to its types: with candles enough, every indicator of the
\* signal exists and is in its range, for any candles and periods.
THEOREM DecisionTypeCorrect == Spec => []TypeOK
<1>1. DecisionInv => TypeOK
  BY SignalType DEF DecisionInv, HistoryInv, SignalInv, CandleRecords, TypeOK
<1> QED
  BY <1>1, DecisionInvHolds, PTL

-----------------------------------------------------------------------------
(* The market turned upside down                                           *)

LEMMA DistanceTurned ==
  ASSUME NEW a \in Int, NEW b \in Int, NEW k \in Int
  PROVE  /\ Abs((2 * k - a) - (2 * k - b)) = Abs(a - b)
         /\ Abs(k - (2 * k - a)) = Abs(k - a)
BY DEF Abs

LEMMA MirroredSnapshot ==
  ASSUME NEW s \in Snapshots
  PROVE  LET m == Mirrored(s)
         IN  /\ m.close = s.close /\ m.atr = s.atr /\ m.volumeRatio = s.volumeRatio
             /\ m.fast = 2 * s.close - s.fast /\ m.slow = 2 * s.close - s.slow
             /\ m.rsi = 100 - s.rsi /\ m.macd = -s.macd /\ m.macdSignal = -s.macdSignal
BY DEF Mirrored, Turned, Snapshots

\* Upside down, whatever holds of one side holds of the other.
LEMMA ConditionsTurned ==
  ASSUME NEW s \in Snapshots, NEW high \in Int, NEW low \in Int
  PROVE  LET m == Mirrored(s)
         IN  /\ Volatile(m) = Volatile(s)
             /\ LongBreakout(m, Turned(low, s)) <=> ShortBreakout(s, low)
             /\ ShortBreakout(m, Turned(high, s)) <=> LongBreakout(s, high)
             /\ LongPullback(m) <=> ShortPullback(s)
             /\ ShortPullback(m) <=> LongPullback(s)
<1> DEFINE m == Mirrored(s)
<1>1. /\ m.close = s.close /\ m.atr = s.atr /\ m.volumeRatio = s.volumeRatio
      /\ m.fast = 2 * s.close - s.fast /\ m.slow = 2 * s.close - s.slow
      /\ m.rsi = 100 - s.rsi /\ m.macd = -s.macd /\ m.macdSignal = -s.macdSignal
  BY MirroredSnapshot
<1>2. /\ s.close \in Int /\ s.fast \in Int /\ s.slow \in Int /\ s.rsi \in Int
      /\ s.macd \in Int /\ s.macdSignal \in Int
  BY DEF Snapshots
<1> HIDE DEF m
<1>3. Volatile(m) = Volatile(s)
  BY <1>1 DEF Volatile
<1>4. (Bullish(m) <=> Bearish(s)) /\ (Bearish(m) <=> Bullish(s))
  BY <1>1, <1>2 DEF Bullish, Bearish
<1>5. Trending(m) <=> Trending(s)
  <2>1. Abs(m.fast - m.slow) = Abs(s.fast - s.slow)
    BY <1>1, <1>2, DistanceTurned
  <2> QED
    BY <1>1, <1>3, <2>1 DEF Trending
<1>6. NearFastEma(m) <=> NearFastEma(s)
  <2>1. Abs(m.close - m.fast) = Abs(s.close - s.fast)
    BY <1>1, <1>2, DistanceTurned
  <2> QED
    BY <1>1, <2>1 DEF NearFastEma
<1>7. VolumeConfirmed(m) <=> VolumeConfirmed(s)
  BY <1>1 DEF VolumeConfirmed
<1>8. /\ m.close > Turned(low, s) <=> s.close < low
      /\ m.close < Turned(high, s) <=> s.close > high
  BY <1>1, <1>2 DEF Turned
<1>9. /\ m.rsi \in 40..65 <=> s.rsi \in 35..60
      /\ m.rsi \in 35..60 <=> s.rsi \in 40..65
      /\ m.macd >= m.macdSignal <=> s.macd <= s.macdSignal
      /\ m.macd <= m.macdSignal <=> s.macd >= s.macdSignal
  BY <1>1, <1>2
<1>10. /\ LongBreakout(m, Turned(low, s)) <=> ShortBreakout(s, low)
       /\ ShortBreakout(m, Turned(high, s)) <=> LongBreakout(s, high)
  BY <1>4, <1>7, <1>8 DEF LongBreakout, ShortBreakout
<1>11. /\ LongPullback(m) <=> ShortPullback(s)
       /\ ShortPullback(m) <=> LongPullback(s)
  BY <1>4, <1>5, <1>6, <1>9 DEF LongPullback, ShortPullback
<1> QED
  BY <1>3, <1>10, <1>11 DEF m

LEMMA SideTurned ==
  ASSUME NEW s \in Snapshots, NEW high \in Int, NEW low \in Int
  PROVE  SideOf(Mirrored(s), Turned(low, s), Turned(high, s)) = Opposite(SideOf(s, high, low))
<1> DEFINE m == Mirrored(s)
           Long(snapshot, price) ==
             ~Volatile(snapshot) /\ (LongBreakout(snapshot, price) \/ LongPullback(snapshot))
           Short(snapshot, price) ==
             ~Volatile(snapshot) /\ (ShortBreakout(snapshot, price) \/ ShortPullback(snapshot))
           long == Long(s, high)
           short == Short(s, low)
           volatile == Volatile(s)
<1>1. /\ Volatile(m) = volatile
      /\ Long(m, Turned(low, s)) <=> short
      /\ Short(m, Turned(high, s)) <=> long
  BY ConditionsTurned
<1>2. ~(long /\ short) /\ ~(long /\ volatile) /\ ~(short /\ volatile)
  <2>1. ~(Bullish(s) /\ Bearish(s))
    <3>1. s.fast \in Int /\ s.slow \in Int
      BY DEF Snapshots
    <3> QED
      BY <3>1 DEF Bullish, Bearish
  <2>2. (long => Bullish(s)) /\ (short => Bearish(s))
    BY DEF LongBreakout, LongPullback, ShortBreakout, ShortPullback
  <2> QED
    BY <2>1, <2>2
<1>3. SideOf(s, high, low) =
        CASE volatile -> "NO_TRADE" [] long -> "LONG" [] short -> "SHORT" [] OTHER -> "NO_TRADE"
  BY DEF SideOf
<1>4. SideOf(m, Turned(low, s), Turned(high, s)) =
        CASE Volatile(m) -> "NO_TRADE" [] Long(m, Turned(low, s)) -> "LONG"
          [] Short(m, Turned(high, s)) -> "SHORT" [] OTHER -> "NO_TRADE"
  BY DEF SideOf
<1> HIDE DEF m, Long, Short, long, short, volatile
<1>5. SideOf(m, Turned(low, s), Turned(high, s)) =
        CASE volatile -> "NO_TRADE" [] short -> "LONG" [] long -> "SHORT" [] OTHER -> "NO_TRADE"
  BY <1>1, <1>4
<1>6. CASE long
  BY <1>2, <1>3, <1>5, <1>6 DEF Opposite, m
<1>7. CASE short
  BY <1>2, <1>3, <1>5, <1>7 DEF Opposite, m
<1>8. CASE ~long /\ ~short
  BY <1>3, <1>5, <1>8 DEF Opposite, m
<1> QED
  BY <1>6, <1>7, <1>8

\* The extremes of the candles before the last one are prices.
LEMMA ExtremesType ==
  ASSUME NEW candles \in Seq(CandleRecords), Len(candles) > BreakoutLookback
  PROVE  PreviousHigh(candles) \in Nat /\ PreviousLow(candles) \in Nat
<1> DEFINE first == Len(candles) - BreakoutLookback
           highs == [i \in 1..BreakoutLookback |-> candles[first + i - 1].high]
           lows == [i \in 1..BreakoutLookback |-> candles[first + i - 1].low]
<1>1. BreakoutLookback \in Nat \ {0} /\ first \in Nat \ {0} /\ Len(candles) \in Nat
      /\ first + BreakoutLookback = Len(candles)
  BY StrategyAssumption
<1> HIDE DEF first
<1>2. \A i \in 1..BreakoutLookback : candles[first + i - 1] \in CandleRecords
  BY <1>1
<1>3. \A i \in 1..BreakoutLookback : highs[i] \in Nat /\ lows[i] \in Nat
  BY <1>2 DEF CandleRecords
<1>4. Previous(candles) = {candles[first + i - 1] : i \in 1..BreakoutLookback}
  <2>1. \A i \in first..(Len(candles) - 1) :
          i - first + 1 \in 1..BreakoutLookback /\ first + (i - first + 1) - 1 = i
    BY <1>1
  <2>2. \A i \in 1..BreakoutLookback : first + i - 1 \in first..(Len(candles) - 1)
    BY <1>1
  <2>3. Previous(candles) = {candles[i] : i \in first..(Len(candles) - 1)}
    BY DEF Previous, first
  <2> QED
    BY <2>1, <2>2, <2>3
<1>5. /\ {candle.high : candle \in Previous(candles)} = {highs[i] : i \in 1..BreakoutLookback}
      /\ {candle.low : candle \in Previous(candles)} = {lows[i] : i \in 1..BreakoutLookback}
  BY <1>4
<1> HIDE DEF highs, lows
<1>6. Max({highs[i] : i \in 1..BreakoutLookback}) \in Nat
  <2>1. \A i \in 1..BreakoutLookback : highs[i] \in Nat
    BY <1>3
  <2> QED
    BY <1>1, <2>1, EndsOfValues
<1>7. Min({lows[i] : i \in 1..BreakoutLookback}) \in Nat
  <2>1. \A i \in 1..BreakoutLookback : lows[i] \in Nat
    BY <1>3
  <2> QED
    BY <1>1, <2>1, EndsOfValues
<1> QED
  BY <1>5, <1>6, <1>7 DEF PreviousHigh, PreviousLow

\* The strategy answers the opposite on the market turned upside down,
\* whatever its candles, periods and ratios.
THEOREM LongsAndShortsAlike == Spec => []SidesAlike
<1>1. ASSUME DecisionInv, signal # None
      PROVE  SidesAlike
  <2>1. signal.indicators \in Snapshots
    <3>1. signal \in [side : Sides, indicators : Snapshots]
      BY <1>1, SignalType
    <3> QED
      BY <3>1
  <2>2. history \in Seq(CandleRecords) /\ Len(history) > BreakoutLookback
    BY <1>1 DEF DecisionInv, HistoryInv, SignalInv, MayEvaluate, EnoughHistory
  <2>3. PreviousHigh(history) \in Int /\ PreviousLow(history) \in Int
    BY <2>2, ExtremesType
  <2> QED
    BY <2>1, <2>3, SideTurned DEF SidesAlike
<1>2. DecisionInv => SidesAlike
  BY <1>1 DEF SidesAlike
<1> QED
  BY <1>2, DecisionInvHolds, PTL
=============================================================================

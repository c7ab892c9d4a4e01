---------------------------- MODULE TradeDecision ----------------------------
(***************************************************************************)
(* From candles to an approved signal: the closed candles of the primary   *)
(* timeframe and those resampled from them are given to evaluate_          *)
(* timeframes, its signal is reviewed by a model behind an API that may    *)
(* fail or answer anything, and the consensus gate decides.  The order is  *)
(* that of docs/architecture.md; a new candle starts a new decision.       *)
(***************************************************************************)
EXTENDS BaselineStrategy, Resampling

CONSTANTS
  Shapes,         \* the candles that may close, without their start
  Window,         \* candles the caller keeps
  Confidences,    \* the confidences a review may claim, in percent
  Failure,        \* the call raises, or what it returns has not the schema
  MinConfidence,  \* minimum_confidence
  None,
  NaN,            \* the float, which json.loads takes
  MaxCandles,     \* bound on the time
  MaxGaps         \* bound on the candles that are lost

ASSUME DecisionAssumption ==
  /\ Shapes \subseteq [open : Nat \ {0}, high : Nat \ {0}, low : Nat \ {0},
                       close : Nat \ {0}, volume : Nat]
  /\ Window \in Nat /\ Window >= MinimumHistory /\ Window > BreakoutLookback
  /\ Confidences \subseteq Int /\ MinConfidence \in 1..100
  /\ None \notin Int /\ NaN \notin Int /\ NaN # None
  /\ MaxCandles \in Nat /\ MaxGaps \in Nat

VARIABLES
  clock,     \* candles closed so far, those that were lost included
  history,   \* the candles the caller has, the newest last
  signal,    \* evaluate_timeframes' answer: [side, indicators], or None
  answer     \* what the API answered, or None before it does

vars == <<clock, history, signal, answer>>

Sides == {"LONG", "SHORT", "NO_TRADE"}

Entry == signal.indicators.close

Answers ==
  {Failure}
    \union [side : Sides, confidence : Confidences,
            invalidation : {None, NaN, 0} \union (Entry - 1)..(Entry + 1)]

Candle(shape, start) ==
  [start |-> start, open |-> shape.open, high |-> shape.high, low |-> shape.low,
   close |-> shape.close, volume |-> shape.volume]

LastOf(candles, n) ==
  IF Len(candles) <= n THEN candles
  ELSE SubSeq(candles, Len(candles) - n + 1, Len(candles))

Higher == Resampled(history)

Init ==
  /\ clock = 0 /\ history = <<>>
  /\ signal = None /\ answer = None

-----------------------------------------------------------------------------
(* The caller's candles                                                    *)

NextCandle ==
  /\ clock < MaxCandles
  /\ clock' = clock + 1
  /\ signal' = None /\ answer' = None

CloseCandle ==
  /\ NextCandle
  /\ \E shape \in Shapes :
        history' = LastOf(Append(history, Candle(shape, clock)), Window)

\* The candles before the last in the history that are missing.
Gaps(candles) ==
  IF candles = <<>> THEN 0
  ELSE candles[Len(candles)].start - candles[1].start + 1 - Len(candles)

LoseCandle ==
  /\ NextCandle
  /\ Gaps(history) + 1 <= MaxGaps
  /\ UNCHANGED history

-----------------------------------------------------------------------------
(* evaluate_timeframes on the history and what is resampled from it        *)

\* A signal of the primary timeframe is looked at on the other, which raises
\* when it has too few candles; resampling raises before that.
MayEvaluate ==
  /\ EnoughHistory(history)
  /\ Resamples(history)
  /\ Evaluate(history) # "NO_TRADE" => Len(Higher) >= MinimumCandles

Confirmed(side) ==
  IF side # "NO_TRADE" /\ Confirms(side, Snapshot(Higher)) THEN side ELSE "NO_TRADE"

EvaluateTimeframes ==
  /\ signal = None
  /\ MayEvaluate
  /\ signal' = [side |-> Confirmed(Evaluate(history)), indicators |-> Snapshot(history)]
  /\ UNCHANGED <<clock, history, answer>>

-----------------------------------------------------------------------------
(* The review and the gate                                                 *)

\* MultimodalReviewer.review: the call raises, or answers.
Review ==
  /\ signal # None /\ answer = None
  /\ answer' \in Answers
  /\ UNCHANGED <<clock, history, signal>>

\* Mutant: the ranges are not checked.
ParsesAny(given) == given # Failure

\* _parse raises on anything else; a comparison with NaN is false.
Parses(given) ==
  /\ given # Failure
  /\ 0 <= given.confidence /\ given.confidence <= 100
  /\ given.invalidation \notin {None, NaN} => given.invalidation > 0

\* Every failure is a NO_TRADE review.
Reviewed(given) ==
  IF Parses(given) THEN given
  ELSE [side |-> "NO_TRADE", confidence |-> 0, invalidation |-> None]

\* Mutant: the side of the invalidation price is not looked at.
InvalidatesAnywhere(side, entry, price) == price # None

\* The gate refuses a price on the wrong side, which NaN is not.
Invalidates(side, entry, price) ==
  /\ price # None
  /\ price # NaN => IF side = "LONG" THEN price < entry ELSE price > entry

\* consensus_gate
Consensus(given, review) ==
  /\ given.side # "NO_TRADE"
  /\ review.side = given.side
  /\ review.confidence >= MinConfidence
  /\ Invalidates(given.side, given.indicators.close, review.invalidation)

Decision ==
  IF answer # None /\ Consensus(signal, Reviewed(answer)) THEN signal.side ELSE "NO_TRADE"

Next == CloseCandle \/ LoseCandle \/ EvaluateTimeframes \/ Review

Spec == Init /\ [][Next]_vars

-----------------------------------------------------------------------------
(* Safety                                                                  *)

TypeOK ==
  /\ clock \in 0..MaxCandles
  /\ history \in Seq([start : Nat, open : Nat, high : Nat, low : Nat,
                      close : Nat \ {0}, volume : Nat])
  /\ Len(history) <= Window
  /\ signal = None \/ signal \in [side : Sides, indicators : Snapshots]
  /\ answer # None => signal # None

\* What the gate approves is corroborated: both timeframes point its way, the
\* higher one trends and neither is volatile, and a review that keeps to the
\* response schema agrees with a confidence and an invalidation price that, if
\* it is a number at all, is on the losing side of the entry.  A failed call, a
\* malformed answer, a resampling or an evaluation that raises all end without
\* an approval.
Corroborated ==
  Decision # "NO_TRADE" =>
    /\ ~Volatile(signal.indicators)
    /\ Trending(Snapshot(Higher))
    /\ \A s \in {signal.indicators, Snapshot(Higher)} :
         IF Decision = "LONG" THEN s.slow < s.fast ELSE s.fast < s.slow
    /\ answer # Failure /\ answer.side = Decision
    /\ answer.confidence \in MinConfidence..100
    /\ answer.invalidation # NaN =>
         IF Decision = "LONG" THEN answer.invalidation \in 1..(Entry - 1)
                              ELSE answer.invalidation > Entry

\* The strategy treats longs and shorts alike: on the market turned upside
\* down it answers the opposite.
SidesAlike ==
  signal # None /\ answer = None =>
    LET s == signal.indicators
        high == PreviousHigh(history)
        low == PreviousLow(history)
    IN  SideOf(Mirrored(s), Turned(low, s), Turned(high, s)) = Opposite(SideOf(s, high, low))

\* A higher candle is the whole of its candles, as one would see by looking
\* at the time it covers; without a gap it also starts where such a candle does.
Covered(candle) ==
  {i \in DOMAIN history : history[i].start \in candle.start..(candle.start + Multiple - 1)}

WholeCandles ==
  signal = None /\ Resamples(history) =>
    \A n \in DOMAIN Higher :
      LET within == Covered(Higher[n])
      IN  /\ Cardinality(within) = Multiple
          /\ Higher[n].open = history[Min(within)].open
          /\ Higher[n].close = history[Max(within)].close
          /\ \A i \in within : Higher[n].low <= history[i].low /\ history[i].high <= Higher[n].high
          /\ Gaps(history) = 0 => Aligned(Higher[n].start)

\* As long as the history has no gap a higher candle is what it is as soon as
\* it is there: later candles, and the window that moves on, add candles or
\* drop them and change none.
NoRepainting ==
  [][Gaps(history) = 0 /\ Gaps(history') = 0 =>
       \A candle \in Range(Higher), later \in Range(Resampled(history')) :
         candle.start = later.start => candle = later]_history

-----------------------------------------------------------------------------
(* What the documentation says and the code does not do                    *)

\* resample_candles aggregates "complete, aligned groups".
HigherAligned ==
  Resamples(history) => \A n \in DOMAIN Higher : Aligned(Higher[n].start)
=============================================================================

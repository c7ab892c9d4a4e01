----------------------------- MODULE WalkForward -----------------------------
(***************************************************************************)
(* walk_forward: for every fold, Backtester.run with each of the grid's    *)
(* parameters on the training candles, the choice of the best, and a run   *)
(* with it on the test candles after a warm-up taken from the training     *)
(* ones.  A start without data is a single run, as Backtester has it.      *)
(***************************************************************************)
EXTENDS Backtester

CONSTANTS
  Histories,   \* sequences of candles walked over
  Grid,        \* parameter_grid: of each, the ATRs it signals at
  TrainSize, TestSize,
  StepSize     \* step_size, None when it is not given

ASSUME WalkAssumption ==
  /\ Histories \subseteq Seq(Candles)
  /\ \A history \in Histories : Len(history) >= TrainSize + TestSize
  /\ Grid \in Seq(SUBSET Atrs) /\ Grid # <<>>
  /\ MinHistory > 1
  /\ TrainSize \in Nat /\ TrainSize >= MinHistory + 1
  /\ TestSize \in Nat \ {0}
  /\ StepSize \in Nat \union {None}

VARIABLES
  data,     \* the candles walked over, or None for a single run
  start,    \* candles before the fold
  scores,   \* of the parameters that have run on the training candles
  tested    \* the places in data that have been tested

walkVars == <<data, start, scores, tested>>
allVars == <<vars, walkVars>>

-----------------------------------------------------------------------------

Score == TotalReturn - MaxDrawdown

\* Mutant: a later parameter of the same score wins.
LastBest(given) == CHOOSE i \in DOMAIN given : \A j \in DOMAIN given :
                     given[j] < given[i] \/ (given[j] = given[i] /\ j <= i)

\* max takes the first of the best.
Best(given) == CHOOSE i \in DOMAIN given : \A j \in DOMAIN given :
                 given[j] < given[i] \/ (given[j] = given[i] /\ i <= j)

\* Mutant: a step of zero is taken as it is.
StepAsGiven == IF StepSize = None THEN TestSize ELSE StepSize

\* "step_size or test_size": a step of zero is no step size at all.
Step == IF StepSize \in {None, 0} THEN TestSize ELSE StepSize

FoldFits(at) == at + TrainSize + TestSize <= Len(data)

Train(at) == SubSeq(data, at + 1, at + TrainSize)

\* Mutant: the warm-up is as long as the history the strategy needs.
WholeHistory == MinHistory

WarmUp == MinHistory - 1

\* Mutant: the test begins with the last training candle.
FromLastTrained(at) == (at + TrainSize)..(at + TrainSize + TestSize)

\* The test candles, as places in data.
TestPlaces(at) == (at + TrainSize + 1)..(at + TrainSize + TestSize)

\* With the warm-up before them.
Test(at) == SubSeq(data, Min(TestPlaces(at)) - WarmUp, Max(TestPlaces(at)))

\* A run of the backtester begins on these candles.  It raises an error when
\* they are too few, which ends the walk without a result: so it is with a
\* TestSize of 1, which walk_forward accepts.
Begin(run) ==
  /\ Enough(run)
  /\ candles' = run
  /\ index' = Fresh.index /\ cash' = Fresh.cash /\ curve' = Fresh.curve
  /\ position' = Fresh.position /\ pending' = Fresh.pending
  /\ trades' = Fresh.trades

Walking == data # None
Testing == Len(scores) = Len(Grid)

\* The parameters of the strategy that runs.
Parameters == IF Testing THEN Best(scores) ELSE Len(scores) + 1

InitWalk ==
  /\ start = 0 /\ scores = <<>> /\ tested = {}
  /\ \/ data = None /\ Init
     \/ /\ data \in Histories
        /\ candles = Train(0)
        /\ index = Fresh.index /\ cash = Fresh.cash /\ curve = Fresh.curve
        /\ position = Fresh.position /\ pending = Fresh.pending
        /\ trades = Fresh.trades

Single == ~Walking /\ Next /\ UNCHANGED walkVars

\* A step of a run: walk_forward gives it no funding rates.
Run ==
  /\ Walking
  /\ Bar(None) \/ EndOfData
  /\ pending' # None => pending'.atr \in Grid[Parameters]
  /\ UNCHANGED walkVars

TrainDone ==
  /\ Walking /\ IsOver /\ FoldFits(start) /\ ~Testing
  /\ scores' = Append(scores, Score)
  /\ Begin(IF Len(scores) + 1 < Len(Grid) THEN Train(start) ELSE Test(start))
  /\ UNCHANGED <<data, start, tested>>

TestDone ==
  /\ Walking /\ IsOver /\ FoldFits(start) /\ Testing
  /\ tested' = tested \union TestPlaces(start)
  /\ start' = start + Step
  /\ scores' = <<>>
  /\ IF FoldFits(start') THEN Begin(Train(start')) ELSE UNCHANGED vars
  /\ UNCHANGED data

NextWalk == Single \/ Run \/ TrainDone \/ TestDone

SpecWalk == InitWalk /\ [][NextWalk]_allVars

\* A loop over finite data, in one thread that nothing holds up.
FairSpecWalk == SpecWalk /\ WF_allVars(Walking /\ NextWalk)

-----------------------------------------------------------------------------
(* Correctness                                                             *)

TypeOKWalk ==
  /\ TypeOK
  /\ data = None \/ data \in Histories
  /\ start \in Nat
  /\ scores \in Seq(Int) /\ Len(scores) <= Len(Grid)
  /\ Walking => tested \subseteq DOMAIN data

\* The place in data of the running test's k-th candle.
Place(k) == start + TrainSize - WarmUp + k

\* What a test run holds or has closed was asked for by the first of the
\* parameters that did best on the training candles, after a candle of the
\* test: the warm-up makes the strategy's history and no trades.
TestsTheBest ==
  Walking /\ Testing =>
    /\ position # None =>
         /\ Place(position.time) - 1 \in TestPlaces(start)
         /\ \E p \in DOMAIN scores :
              /\ \E atr \in Grid[p] :
                   Direction(position.side) * (position.entry - position.stop)
                     = atr * StopAtrMultiple
              /\ \A q \in DOMAIN scores : scores[q] <= scores[p] /\ (q < p => scores[q] < scores[p])
    /\ trades.last # 0 => Place(trades.last) - 1 \in TestPlaces(start)

MovesOn ==
  LET new == tested' \ tested
  IN  /\ Cardinality(new) = TestSize
      /\ \A place \in new : place > start + TrainSize
      /\ \A old \in tested, place \in new : old < place

\* With a step of at least the test's size a fold tests candles no fold has
\* tested and none it has been trained on, all after those tested before.
TestsMoveOn ==
  [][(Step >= TestSize) => MovesOn]_tested

\* The walk comes to its end: every fold that fits has been tested.
WalkEnds == Walking ~> (Walking /\ ~FoldFits(start))
=============================================================================

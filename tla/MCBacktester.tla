---------------------------- MODULE MCBacktester ----------------------------
(***************************************************************************)
(* Small instances of WalkForward, with the prices of MCPaperRunner and    *)
(* two ATRs: the risk bounds the size at 50, the fraction at 10.           *)
(***************************************************************************)
EXTENDS WalkForward

MCCandles ==
  {[open |-> 400, high |-> 410, low |-> 390, close |-> 400],
   [open |-> 400, high |-> 610, low |-> 290, close |-> 500],
   [open |-> 200, high |-> 210, low |-> 190, close |-> 200]}
MCAtrs == {10, 50}
MCFundingRates == {-1, 1}

\* Two folds that follow each other, and a candle too few for a third.  What
\* is queued is entered at the third, the fifth and the seventh candle.
MCHistories ==
  {[i \in 1..8 |-> IF i \in wide
                    THEN [open |-> 400, high |-> 610, low |-> 290, close |-> 500]
                    ELSE [open |-> 400, high |-> 410, low |-> 390, close |-> 400]] :
     wide \in SUBSET {3, 5, 7}}
MCGrid == <<{10}, {10, 50}>>
=============================================================================

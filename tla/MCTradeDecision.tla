--------------------------- MODULE MCTradeDecision ---------------------------
(***************************************************************************)
(* A small instance of TradeDecision: the strategy's own ratios, periods   *)
(* short enough for six candles to make three higher ones that have every  *)
(* indicator, prices around 4000, and a higher timeframe of twice the      *)
(* primary one.                                                            *)
(***************************************************************************)
EXTENDS TradeDecision

MCPeriods ==
  [emaFast |-> 1, emaSlow |-> 3, rsi |-> 2, macdFast |-> 1, macdSlow |-> 2,
   macdSignal |-> 2, bollinger |-> 2, atr |-> 2, volume |-> 2]

\* High, low and on average, the first two on more volume than the last: the
\* market swings when it goes from one to the other.
MCShapes ==
  {[open |-> 4000, high |-> 4090, low |-> 3990, close |-> 4080, volume |-> 3],
   [open |-> 4000, high |-> 4010, low |-> 3910, close |-> 3920, volume |-> 3],
   [open |-> 4000, high |-> 4010, low |-> 3990, close |-> 4000, volume |-> 1]}
=============================================================================

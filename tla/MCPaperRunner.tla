---------------------------- MODULE MCPaperRunner ----------------------------
(***************************************************************************)
(* Small instances of PaperRunner.  Prices are around 400 and the ATR is   *)
(* 50, so a long entered at 400 has its stop at 300 and its target at 600, *)
(* a short the reverse at 500 and 200.                                     *)
(***************************************************************************)
EXTENDS PaperRunner

CONSTANTS Shapes     \* names of the candle shapes of the instance

Shape(name) ==
  CASE name = "flat" -> [open |-> 400, high |-> 410, low |-> 390, close |-> 400]
    [] name = "dip"  -> [open |-> 400, high |-> 410, low |-> 290, close |-> 400]
    [] name = "wide" -> [open |-> 400, high |-> 610, low |-> 190, close |-> 400]

MCCandles == {Shape(name) : name \in Shapes}
MCAtrs == {50}
=============================================================================

------------------------- MODULE MCPaperRunnerFaults -------------------------
(***************************************************************************)
(* Small instances of PaperRunnerFaults.  With prices around 400 and an    *)
(* ATR of 100 a long's stop is at 200 and a short's at 600, which the wide *)
(* candle hits, and a short's target is at zero, which submit refuses.     *)
(***************************************************************************)
EXTENDS PaperRunnerFaults

CONSTANTS Shapes     \* names of the candle shapes of the instance

Shape(name) ==
  CASE name = "flat" -> [open |-> 400, high |-> 410, low |-> 390, close |-> 400]
    [] name = "wide" -> [open |-> 400, high |-> 610, low |-> 190, close |-> 400]

\* One file at a time, or the whole disk.
MCFaults == {{"audit"}, {"state"}, Files}

MCCandles == {Shape(name) : name \in Shapes}
=============================================================================

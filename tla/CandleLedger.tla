---------------------------- MODULE CandleLedger ----------------------------
(***************************************************************************)
(* What the paper runner promises of its durable state: the ledger changes *)
(* only by the whole handling of one closed candle, each candle is handled *)
(* at most once and in order, and a position is entered only on a signal   *)
(* of the candle handled just before.  No crash, replay, lost or repeated  *)
(* message shows in it.                                                    *)
(*                                                                         *)
(* What handling a candle does to the ledger is a parameter.               *)
(***************************************************************************)
EXTENDS Naturals, Sequences

CONSTANTS
  Candles,                                \* the candles that may close
  MaxCandles,                             \* bound on how many do
  NewBroker,                              \* the first ledger
  Signals(_),                             \* the signals of a candle
  None,                                   \* no signal
  Processed(_, _, _, _)                   \* ledger, signal, candle, its index

VARIABLES
  market,   \* the candles closed so far
  ledger,   \* the broker's durable state
  upto      \* the last candle in the ledger

ledgerVars == <<market, ledger, upto>>

Init ==
  /\ market = <<>>
  /\ ledger = NewBroker
  /\ upto = 0

CloseCandle ==
  /\ Len(market) < MaxCandles
  /\ \E candle \in Candles : market' = Append(market, candle)
  /\ UNCHANGED <<ledger, upto>>

Consume(k) ==
  /\ upto < k
  /\ \E signal \in Signals(upto) \union {None} :
        ledger' = Processed(ledger, signal, market[k], k)
  /\ upto' = k
  /\ UNCHANGED market

Next == CloseCandle \/ \E k \in 1..Len(market) : Consume(k)

Spec == Init /\ [][Next]_ledgerVars
=============================================================================

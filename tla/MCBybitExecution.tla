-------------------------- MODULE MCBybitExecution --------------------------
(***************************************************************************)
(* Small instances of BybitExecution: a long, the same key at newer        *)
(* prices, a limit short at another leverage, and two intents that do not  *)
(* fit their instrument: one is too small, the other's stop is rounded     *)
(* across its entry.  No price is on the tick of 5.                        *)
(***************************************************************************)
EXTENDS OrderTracking

CONSTANT btc

MCIntents ==
  {[key |-> "long", symbol |-> btc, side |-> "LONG", leverage |-> 1, limit |-> None,
    quantity |-> 7, entry |-> 101, stop |-> 91, target |-> 119],
   [key |-> "long", symbol |-> btc, side |-> "LONG", leverage |-> 1, limit |-> None,
    quantity |-> 6, entry |-> 103, stop |-> 93, target |-> 121],
   [key |-> "short", symbol |-> btc, side |-> "SHORT", leverage |-> 2, limit |-> 103,
    quantity |-> 5, entry |-> 101, stop |-> 109, target |-> 83],
   [key |-> "small", symbol |-> btc, side |-> "LONG", leverage |-> 1, limit |-> None,
    quantity |-> 1, entry |-> 101, stop |-> 91, target |-> 119],
   [key |-> "tight", symbol |-> btc, side |-> "LONG", leverage |-> 1, limit |-> None,
    quantity |-> 7, entry |-> 99, stop |-> 98, target |-> 119]}
MCSymbols == {btc}
MCRulesOf ==
  [s \in MCSymbols |-> [tick |-> 5, step |-> 2, minQuantity |-> 2, minNotional |-> 100]]
=============================================================================

---------------------------- MODULE OrderIntents ----------------------------
(***************************************************************************)
(* The pure rules of an order: OrderIntent.validate and the rounding of an *)
(* intent to the tick and the step of its instrument.  Decimals are        *)
(* integers in a small unit; rounding is exact in it.                      *)
(*                                                                         *)
(* An intent is at least [side, quantity, entry, stop, target]; the        *)
(* adapter's also have a leverage and, for limit orders, a limit.          *)
(***************************************************************************)
EXTENDS Integers

ValidIntent(intent) ==
  /\ intent.quantity > 0 /\ intent.entry > 0
  /\ intent.stop > 0 /\ intent.target > 0
  /\ IF intent.side = "LONG"
     THEN intent.stop < intent.entry /\ intent.entry < intent.target
     ELSE intent.target < intent.entry /\ intent.entry < intent.stop

InstrumentRules ==
  [tick : Nat \ {0}, step : Nat \ {0}, minQuantity : Nat \ {0}, minNotional : Nat]

Floor(value, unit) == (value \div unit) * unit

Ceiling(value, unit) == -Floor(-value, unit)

-----------------------------------------------------------------------------
(* What submit makes of an intent                                          *)

RoundedQuantity(intent, rules) == Floor(intent.quantity, rules.step)

\* Mutant: protective prices are rounded to the outside.
StopOutside(intent, rules) ==
  IF intent.side = "LONG" THEN Floor(intent.stop, rules.tick)
                          ELSE Ceiling(intent.stop, rules.tick)

\* _protective_prices: both are rounded towards the entry.
RoundedStop(intent, rules) ==
  IF intent.side = "LONG" THEN Ceiling(intent.stop, rules.tick)
                          ELSE Floor(intent.stop, rules.tick)

RoundedTarget(intent, rules) ==
  IF intent.side = "LONG" THEN Floor(intent.target, rules.tick)
                          ELSE Ceiling(intent.target, rules.tick)

\* A limit is rounded to the side that is better for the trader.
RoundedLimit(intent, rules) ==
  IF intent.side = "LONG" THEN Floor(intent.limit, rules.tick)
                          ELSE Ceiling(intent.limit, rules.tick)

\* The minima are met and the rounded protection does not cross the entry.
Fits(intent, rules) ==
  /\ RoundedQuantity(intent, rules) >= rules.minQuantity
  /\ RoundedQuantity(intent, rules) * intent.entry >= rules.minNotional
  /\ IF intent.side = "LONG"
     THEN /\ RoundedStop(intent, rules) < intent.entry
          /\ intent.entry < RoundedTarget(intent, rules)
     ELSE /\ RoundedTarget(intent, rules) < intent.entry
          /\ intent.entry < RoundedStop(intent, rules)

-----------------------------------------------------------------------------

\* An order does not ask for more than its intent and its protection lies
\* between the intent's protection and its entry: the loss at the stop is at
\* most the intended one.
Distance(price, entry) == IF price <= entry THEN entry - price ELSE price - entry

WithinIntent(order, intent) ==
  /\ 0 < order.quantity /\ order.quantity <= intent.quantity
  /\ order.quantity * Distance(order.stop, intent.entry)
       <= intent.quantity * Distance(intent.stop, intent.entry)
  /\ IF intent.side = "LONG"
     THEN /\ intent.stop <= order.stop /\ order.stop < intent.entry
          /\ intent.entry < order.target /\ order.target <= intent.target
     ELSE /\ intent.target <= order.target /\ order.target < intent.entry
          /\ intent.entry < order.stop /\ order.stop <= intent.stop
=============================================================================

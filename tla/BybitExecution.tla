--------------------------- MODULE BybitExecution ---------------------------
(***************************************************************************)
(* BybitExecutionAdapter against an exchange whose answers may be lost:    *)
(* one caller submits intents, repeats the ones that failed, checks        *)
(* protection and recovers, one REST call at a time; the process may crash *)
(* between two calls.  The exchange, and what befalls its positions, is    *)
(* external and modelled from how the adapter uses it.                     *)
(***************************************************************************)
EXTENDS OrderIntents, FiniteSets

CONSTANTS
  Intents,         \* the intents the caller may submit
  Symbols,
  RulesOf,         \* [Symbols -> InstrumentRules]: what the exchange says
  MaxOrders,       \* bound on the orders the exchange accepts
  MaxCrashes,      \* bound on the crashes
  None

\* A caller may submit two intents under one idempotency key, the second at
\* newer prices.  A market order's limit is None.
ASSUME IntentsAssumption ==
  \A intent \in Intents :
    /\ intent.symbol \in Symbols
    /\ intent.side \in {"LONG", "SHORT"}
    /\ intent.quantity \in Nat /\ intent.entry \in Nat
    /\ intent.stop \in Nat /\ intent.target \in Nat
    /\ intent.leverage \in Nat
    /\ intent.limit \in Nat \union {None}

ASSUME RulesAssumption == RulesOf \in [Symbols -> InstrumentRules]

ASSUME BoundsAssumption ==
  /\ MaxOrders \in Nat /\ MaxCrashes \in Nat
  /\ None \notin Intents /\ None \notin Nat

VARIABLES
  environment,   \* TESTNET or DEMO
  late,          \* whether a request whose caller gave up may still arrive
  recovered,     \* _recovery_completed
  blocked,       \* _trading_blocked
  rules,         \* the symbols whose instrument rules are cached
  call,          \* the next REST call of the operation under way
  subject,       \* the intent being submitted, or None
  found,         \* what recover's first call showed unprotected
  orders,        \* orders the exchange has accepted
  position,      \* per symbol: none, protected or unprotected
  leverage,      \* per symbol: the leverage the exchange has set
  wire,          \* late place_order requests
  alarm,         \* the adapter's last word on protection (not in the code)
  crashes        \* crashes so far (not in the code)

adapter == <<recovered, blocked, rules, call, subject, found>>
exchange == <<orders, position, leverage>>
surroundings == <<environment, late>>
vars == <<surroundings, adapter, exchange, wire, alarm, crashes>>

Calls == {"idle", "rules", "open_orders", "order_history", "set_leverage",
          "place_order", "positions", "all_orders"}

\* Mutant: the orderLinkId is salted with the process.
SaltedLinkId(intent) == <<intent.key, crashes>>

\* The orderLinkId is a digest of the idempotency key and of nothing else;
\* digests are taken not to collide.
LinkId(intent) == intent.key

OrdersOf(key) == {o \in orders : o.request.intent.key = key}

\* What the exchange answers when asked for an orderLinkId.
OpenOrders(link) == {o \in orders : o.request.link = link /\ o.state = "open"}

\* Mutant: closed orders are not looked up.
NoHistory(link) == {}

OrderHistory(link) == {o \in orders : o.request.link = link /\ o.state # "open"}

Unprotected == {s \in Symbols : position[s] = "unprotected"}

TypeOK ==
  /\ environment \in {"TESTNET", "DEMO"} /\ late \in BOOLEAN
  /\ recovered \in BOOLEAN /\ blocked \in BOOLEAN
  /\ rules \subseteq Symbols
  /\ call \in Calls
  /\ subject \in Intents \union {None}
  /\ found \subseteq Symbols
  /\ \A o \in orders :
       /\ o.id \in 1..MaxOrders /\ o.request.intent \in Intents
       /\ o.leverage \in 1..3
       /\ o.state \in {"open", "filled", "cancelled"}
  /\ position \in [Symbols -> {"none", "protected", "unprotected"}]
  /\ leverage \in [Symbols -> 1..3]
  /\ \A request \in wire : request.intent \in Intents
  /\ alarm \in {"none", "sighted", "reported"}
  /\ crashes \in 0..MaxCrashes

Init ==
  /\ environment \in {"TESTNET", "DEMO"} /\ late \in BOOLEAN
  /\ recovered = FALSE /\ blocked = TRUE /\ rules = {}
  /\ call = "idle" /\ subject = None /\ found = {}
  /\ orders = {}
  /\ position \in [Symbols -> {"none", "protected", "unprotected"}]
  /\ leverage = [s \in Symbols |-> 1]
  /\ wire = {} /\ alarm = "none" /\ crashes = 0

-----------------------------------------------------------------------------
(* Common shapes of a step                                                 *)

Goes(from, to) == call = from /\ call' = to

\* The operation ends, with a result or an exception.
Ends(from) == Goes(from, "idle") /\ subject' = None

Quiet == UNCHANGED <<surroundings, wire, crashes>>

-----------------------------------------------------------------------------
(* submit                                                                  *)

\* Mutant: only the recovery is asked for.
Recovered == recovered

MayTrade == recovered /\ ~blocked

\* Mutant: the rules are cached under the intent.
IntentKey(intent) == intent.key

\* _rules
CacheKey(intent) == intent.symbol

\* OrderIntent.validate, which also looks at the leverage and the limit
ValidOrder(intent) ==
  /\ ValidIntent(intent)
  /\ intent.leverage \in 1..3

\* The rules are cached: the intent is rounded and checked at once.  An
\* intent that does not fit raises and changes nothing.
Submit(intent) ==
  /\ call = "idle"
  /\ ValidOrder(intent)
  /\ MayTrade
  /\ IF CacheKey(intent) \in rules
     THEN Fits(intent, RulesOf[intent.symbol]) /\ call' = "open_orders"
     ELSE call' = "rules"
  /\ subject' = intent
  /\ UNCHANGED <<recovered, blocked, rules, found, exchange, alarm>> /\ Quiet

\* instrument_rules, when the symbol is not cached
FetchRules ==
  /\ call = "rules"
  /\ rules' = rules \union {CacheKey(subject)}
  /\ IF Fits(subject, RulesOf[subject.symbol])
     THEN call' = "open_orders" /\ UNCHANGED subject
     ELSE call' = "idle" /\ subject' = None
  /\ UNCHANGED <<recovered, blocked, found, exchange, alarm>> /\ Quiet

\* _find_existing asks for open orders, then for the history.
LookForOpen ==
  /\ call = "open_orders"
  /\ IF OpenOrders(LinkId(subject)) # {}
     THEN Ends("open_orders")
     ELSE Goes("open_orders", "order_history") /\ UNCHANGED subject
  /\ UNCHANGED <<recovered, blocked, rules, found, exchange, alarm>> /\ Quiet

\* Mutant: the leverage is left as it is.
PlaceAtOnce == "place_order"

NextCall == IF environment = "TESTNET" THEN "set_leverage" ELSE "place_order"

\* Demo Trading refuses a leverage it cannot set.
LookInHistory ==
  /\ call = "order_history"
  /\ IF \/ OrderHistory(LinkId(subject)) # {}
        \/ environment = "DEMO" /\ subject.leverage # 1
     THEN Ends("order_history")
     ELSE Goes("order_history", NextCall) /\ UNCHANGED subject
  /\ UNCHANGED <<recovered, blocked, rules, found, exchange, alarm>> /\ Quiet

SetLeverage ==
  /\ Goes("set_leverage", "place_order")
  /\ leverage' = [leverage EXCEPT ![subject.symbol] = subject.leverage]
  /\ UNCHANGED <<recovered, blocked, rules, subject, found, orders, position, alarm>>
  /\ Quiet

Request(intent) ==
  LET of == RulesOf[intent.symbol]
  IN  [intent |-> intent, link |-> LinkId(intent),
       quantity |-> RoundedQuantity(intent, of),
       stop |-> RoundedStop(intent, of), target |-> RoundedTarget(intent, of),
       limit |-> IF intent.limit = None THEN None ELSE RoundedLimit(intent, of)]

Order(request) ==
  [id |-> Cardinality(orders) + 1, request |-> request,
   leverage |-> leverage[request.intent.symbol], state |-> "open"]

\* The exchange accepts an order.  Where a request may come late it refuses
\* an orderLinkId it knows.
Accept(request) ==
  /\ Cardinality(orders) < MaxOrders
  /\ late => \A o \in orders : o.request.link # request.link
  /\ orders' = orders \union {Order(request)}

\* The order is accepted, whether the answer comes back or not.
PlaceOrder ==
  /\ Ends("place_order")
  /\ Accept(Request(subject))
  /\ UNCHANGED <<recovered, blocked, rules, found, position, leverage, alarm>> /\ Quiet

\* The caller gives up on a request that is still on its way.
PlaceLate ==
  /\ late
  /\ Ends("place_order")
  /\ wire' = wire \union {Request(subject)}
  /\ UNCHANGED <<surroundings, recovered, blocked, rules, found, exchange, alarm, crashes>>

\* A call fails and the exception leaves the operation: a request or its
\* answer is lost, or the exchange refuses.
CallFails ==
  /\ call # "idle"
  /\ Ends(call)
  /\ \/ UNCHANGED leverage
     \/ /\ call = "set_leverage"
        /\ leverage' = [leverage EXCEPT ![subject.symbol] = subject.leverage]
  /\ found' = {}
  /\ UNCHANGED <<recovered, blocked, rules, orders, position, alarm>> /\ Quiet

-----------------------------------------------------------------------------
(* recover and verify_position_protection                                  *)

Recover ==
  /\ Goes("idle", "positions")
  /\ UNCHANGED <<recovered, blocked, rules, subject, found, exchange, alarm>> /\ Quiet

ListPositions ==
  /\ Goes("positions", "all_orders")
  /\ found' = Unprotected
  /\ alarm' = IF Unprotected # {} /\ alarm = "none" THEN "sighted" ELSE alarm
  /\ UNCHANGED <<recovered, blocked, rules, subject, exchange>> /\ Quiet

ListOrders ==
  /\ Goes("all_orders", "idle")
  /\ recovered' = TRUE
  /\ blocked' = (found # {})
  /\ found' = {}
  /\ alarm' = IF found # {} THEN "reported" ELSE "none"
  /\ UNCHANGED <<rules, subject, exchange>> /\ Quiet

VerifyProtection(symbol) ==
  /\ call = "idle"
  /\ IF symbol \in Unprotected
     THEN blocked' = TRUE /\ alarm' = "reported"
     ELSE UNCHANGED <<blocked, alarm>>
  /\ UNCHANGED <<recovered, rules, call, subject, found, exchange>> /\ Quiet

\* A new process makes a new adapter.
Restart ==
  /\ crashes < MaxCrashes
  /\ crashes' = crashes + 1
  /\ recovered' = FALSE /\ blocked' = TRUE /\ rules' = {}
  /\ call' = "idle" /\ subject' = None /\ found' = {}
  /\ UNCHANGED <<surroundings, exchange, wire, alarm>>

-----------------------------------------------------------------------------
(* The exchange                                                            *)

Arrives(request) ==
  /\ wire' = wire \ {request}
  /\ Accept(request) \/ UNCHANGED orders
  /\ UNCHANGED <<surroundings, adapter, position, leverage, alarm, crashes>>

\* The attached stop and target come with the fill, for the whole position.
Fill(order) ==
  /\ order.state = "open"
  /\ orders' = (orders \ {order}) \union {[order EXCEPT !.state = "filled"]}
  /\ position' = [position EXCEPT ![order.request.intent.symbol] = "protected"]
  /\ UNCHANGED <<adapter, leverage, alarm>> /\ Quiet

Cancel(order) ==
  /\ order.state = "open"
  /\ orders' = (orders \ {order}) \union {[order EXCEPT !.state = "cancelled"]}
  /\ UNCHANGED <<adapter, position, leverage, alarm>> /\ Quiet

\* Positions are closed, and lose or regain their protection, out of the
\* adapter's sight.
PositionChanges(symbol) ==
  /\ position[symbol] # "none"
  /\ \E state \in {"none", "protected", "unprotected"} \ {position[symbol]} :
        position' = [position EXCEPT ![symbol] = state]
  /\ UNCHANGED <<adapter, orders, leverage, alarm>> /\ Quiet

-----------------------------------------------------------------------------

Adapter ==
  \/ \E intent \in Intents : Submit(intent)
  \/ FetchRules \/ LookForOpen \/ LookInHistory \/ SetLeverage
  \/ PlaceOrder \/ PlaceLate \/ CallFails
  \/ Recover \/ ListPositions \/ ListOrders
  \/ \E symbol \in Symbols : VerifyProtection(symbol)
  \/ Restart

Exchange ==
  \/ \E request \in wire : Arrives(request)
  \/ \E order \in orders : Fill(order) \/ Cancel(order)
  \/ \E symbol \in Symbols : PositionChanges(symbol)

Next == Adapter \/ Exchange

Spec == Init /\ [][Next]_vars

-----------------------------------------------------------------------------
(* Safety                                                                  *)

\* However often an intent is submitted again, at the same prices or newer
\* ones, after lost answers, failed calls or a restart, the exchange has at
\* most one order of its key: submit looks the orderLinkId up before it places
\* it.  A request that arrives late meets the exchange's own check of the
\* orderLinkId, which is the same because it depends on the key alone.
AtMostOneOrder ==
  \A intent \in Intents : Cardinality(OrdersOf(intent.key)) <= 1

\* An order is accepted at the leverage its intent asks for: submit sets it
\* in the call before, on the testnet, and Demo Trading takes only 1x.  A
\* request that arrives late may meet the leverage of another.
AcceptedAtItsLeverage ==
  ~late => \A order \in orders : order.leverage = order.request.intent.leverage

\* What the exchange has accepted loses at its stop no more than the intent
\* it was made of and is protected on both sides of the entry, and a limit is
\* no worse than the intent's: each is rounded to the tick on its own side.
WithinIntents ==
  \A order \in orders :
    LET request == order.request
        intent == request.intent
    IN  /\ WithinIntent(request, intent)
        /\ intent.limit # None =>
             IF intent.side = "LONG" THEN request.limit <= intent.limit
                                     ELSE request.limit >= intent.limit

Sends == call = "place_order" /\ call' = "idle" /\ crashes' = crashes

\* Once recover or verify_position_protection has reported an unprotected
\* position, no order is sent until a whole recover, in this process or a
\* later one, has found every position protected.
ReportStopsOrders == [][Sends => alarm # "reported"]_vars

-----------------------------------------------------------------------------
(* What the documentation says and the code does not do                    *)

\* The same from the moment an answer shows the adapter the position.
SightStopsOrders == [][Sends => alarm = "none"]_vars
=============================================================================

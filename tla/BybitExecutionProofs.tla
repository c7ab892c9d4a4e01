------------------------ MODULE BybitExecutionProofs ------------------------
(***************************************************************************)
(* What BybitExecution and the order states beside it guarantee for every  *)
(* set of intents, every tick and step of the instruments and every number *)
(* of orders and crashes.                                                  *)
(***************************************************************************)
EXTENDS OrderTracking, FiniteSetTheorems, TLAPS

-----------------------------------------------------------------------------
(* The rounding of an order, for every intent and instrument               *)

\* Prices and quantities are integers, whichever the side.
Typed(intent) ==
  /\ intent.side \in {"LONG", "SHORT"}
  /\ intent.quantity \in Int /\ intent.entry \in Int
  /\ intent.stop \in Int /\ intent.target \in Int

LEMMA FloorBelow ==
  ASSUME NEW value \in Int, NEW unit \in Nat \ {0}
  PROVE  Floor(value, unit) \in Int /\ Floor(value, unit) <= value
<1>1. value \div unit \in Int /\ value % unit \in 0..(unit - 1)
  OBVIOUS
<1>2. value = unit * (value \div unit) + (value % unit)
  OBVIOUS
<1>3. (value \div unit) * unit = unit * (value \div unit)
  BY <1>1
<1>4. (value \div unit) * unit \in Int
  BY <1>1
<1> QED
  BY <1>1, <1>2, <1>3, <1>4 DEF Floor

LEMMA CeilingAbove ==
  ASSUME NEW value \in Int, NEW unit \in Nat \ {0}
  PROVE  Ceiling(value, unit) \in Int /\ value <= Ceiling(value, unit)
<1>1. Floor(-value, unit) \in Int /\ Floor(-value, unit) <= -value
  BY FloorBelow
<1> QED
  BY <1>1 DEF Ceiling

\* A product does not grow when a factor shrinks.
LEMMA LesserProduct ==
  ASSUME NEW a \in Nat, NEW b \in Nat, NEW c \in Nat, NEW d \in Nat,
         a <= c, b <= d
  PROVE  a * b <= c * d
<1>1. a * b <= c * b
  <2>1. (c - a) * b \in Nat
    OBVIOUS
  <2>2. (c - a) * b = c * b - a * b
    OBVIOUS
  <2>3. c * b \in Int /\ a * b \in Int
    OBVIOUS
  <2> QED
    BY <2>1, <2>2, <2>3
<1>2. c * b <= c * d
  <2>1. c * (d - b) \in Nat
    OBVIOUS
  <2>2. c * (d - b) = c * d - c * b
    OBVIOUS
  <2>3. c * b \in Int /\ c * d \in Int
    OBVIOUS
  <2> QED
    BY <2>1, <2>2, <2>3
<1>3. a * b \in Int /\ c * b \in Int /\ c * d \in Int
  OBVIOUS
<1> QED
  BY <1>1, <1>2, <1>3

\* What submit makes of a valid intent that fits its instrument risks no more
\* than the intent and is protected on both sides of its entry.
THEOREM RoundingKeepsIntent ==
  ASSUME NEW intent, Typed(intent), ValidIntent(intent),
         NEW grid \in InstrumentRules, Fits(intent, grid),
         NEW order,
         order.quantity = RoundedQuantity(intent, grid),
         order.stop = RoundedStop(intent, grid),
         order.target = RoundedTarget(intent, grid)
  PROVE  WithinIntent(order, intent)
<1>1. grid.tick \in Nat \ {0} /\ grid.step \in Nat \ {0} /\ grid.minQuantity \in Nat \ {0}
  BY DEF InstrumentRules
<1>2. order.quantity \in Nat /\ 0 < order.quantity /\ order.quantity <= intent.quantity
  <2>1. order.quantity = Floor(intent.quantity, grid.step) /\ grid.minQuantity <= order.quantity
    BY DEF Fits, RoundedQuantity
  <2>2. intent.quantity \in Int
    BY DEF Typed
  <2>3. order.quantity \in Int /\ order.quantity <= intent.quantity
    BY <1>1, <2>1, <2>2, FloorBelow
  <2> QED
    BY <1>1, <2>1, <2>3
<1>3. ASSUME intent.side = "LONG"
      PROVE  /\ order.stop \in Int /\ intent.stop <= order.stop /\ order.stop < intent.entry
             /\ order.target \in Int /\ intent.entry < order.target
             /\ order.target <= intent.target
  BY <1>1, <1>3, FloorBelow, CeilingAbove
  DEF Typed, Fits, RoundedStop, RoundedTarget
<1>4. ASSUME intent.side = "SHORT"
      PROVE  /\ order.stop \in Int /\ intent.entry < order.stop /\ order.stop <= intent.stop
             /\ order.target \in Int /\ intent.target <= order.target
             /\ order.target < intent.entry
  BY <1>1, <1>4, FloorBelow, CeilingAbove
  DEF Typed, Fits, RoundedStop, RoundedTarget
<1>5. /\ Distance(order.stop, intent.entry) \in Nat
      /\ Distance(intent.stop, intent.entry) \in Nat
      /\ Distance(order.stop, intent.entry) <= Distance(intent.stop, intent.entry)
  BY <1>3, <1>4 DEF Typed, ValidIntent, Distance
<1>6. order.quantity * Distance(order.stop, intent.entry)
        <= intent.quantity * Distance(intent.stop, intent.entry)
  BY <1>2, <1>5, LesserProduct DEF Typed, ValidIntent
<1> QED
  BY <1>2, <1>3, <1>4, <1>6 DEF WithinIntent, Typed

\* A limit order never asks for a price worse than its intent's.
LEMMA LimitNoWorse ==
  ASSUME NEW intent, intent.limit \in Int, NEW grid \in InstrumentRules
  PROVE  IF intent.side = "LONG" THEN RoundedLimit(intent, grid) <= intent.limit
                                 ELSE RoundedLimit(intent, grid) >= intent.limit
<1>1. grid.tick \in Nat \ {0}
  BY DEF InstrumentRules
<1>2. RoundedLimit(intent, grid) \in Int
  BY <1>1, FloorBelow, CeilingAbove DEF RoundedLimit
<1> QED
  BY <1>1, <1>2, FloorBelow, CeilingAbove DEF RoundedLimit

-----------------------------------------------------------------------------
(* A reported position stops the orders                                    *)

SubmitCalls == {"rules", "open_orders", "order_history", "set_leverage", "place_order"}

Stopped == alarm = "reported" => ~MayTrade /\ call \notin SubmitCalls

LEMMA StoppedInit == Init => Stopped
BY DEF Init, Stopped

LEMMA StoppedAdapter == ASSUME Stopped, Adapter PROVE Stopped'
<1>1. ASSUME NEW intent \in Intents, Submit(intent) PROVE Stopped'
  BY <1>1 DEF Stopped, Submit, MayTrade
<1>2. CASE FetchRules \/ LookForOpen \/ LookInHistory \/ SetLeverage
  BY <1>2 DEF Stopped, MayTrade, SubmitCalls, FetchRules, LookForOpen, LookInHistory,
              SetLeverage, Goes, Ends
<1>3. CASE PlaceOrder \/ PlaceLate \/ CallFails
  BY <1>3 DEF Stopped, MayTrade, SubmitCalls, PlaceOrder, PlaceLate, CallFails, Ends, Goes
<1>4. CASE Recover \/ ListPositions \/ ListOrders
  BY <1>4 DEF Stopped, MayTrade, SubmitCalls, Recover, ListPositions, ListOrders, Goes
<1>5. ASSUME NEW symbol \in Symbols, VerifyProtection(symbol) PROVE Stopped'
  BY <1>5 DEF Stopped, MayTrade, SubmitCalls, VerifyProtection
<1>6. CASE Restart
  BY <1>6 DEF Stopped, MayTrade, SubmitCalls, Restart
<1> QED
  BY <1>1, <1>2, <1>3, <1>4, <1>5, <1>6 DEF Adapter

\* The exchange leaves the adapter alone.
LEMMA ExchangeLeaves ==
  ASSUME Exchange PROVE UNCHANGED <<environment, late, adapter, alarm, crashes>>
BY DEF Exchange, Arrives, Fill, Cancel, PositionChanges, Quiet, surroundings

LEMMA StoppedNext == ASSUME Stopped, [Next]_vars PROVE Stopped'
<1>1. CASE Adapter
  BY <1>1, StoppedAdapter
<1>2. CASE Exchange
  BY <1>2, ExchangeLeaves DEF Stopped, MayTrade, adapter
<1>3. CASE UNCHANGED vars
  BY <1>3 DEF Stopped, MayTrade, vars, adapter
<1> QED
  BY <1>1, <1>2, <1>3 DEF Next

\* No order is sent between the report of an unprotected position and a whole
\* recover that finds none.
THEOREM ReportStops == Spec => ReportStopsOrders
<1>1. Stopped => (Sends => alarm # "reported")
  BY DEF Stopped, Sends, SubmitCalls
<1> QED
  BY StoppedInit, StoppedNext, <1>1, PTL DEF Spec, ReportStopsOrders

-----------------------------------------------------------------------------
(* What is being submitted                                                 *)

Keys == {intent.key : intent \in Intents}

Requests ==
  [intent : Intents, link : Keys, quantity : Int, stop : Int, target : Int,
   limit : Int \union {None}]

LimitKept(request) ==
  request.intent.limit # None =>
    IF request.intent.side = "LONG" THEN request.limit <= request.intent.limit
                                    ELSE request.limit >= request.intent.limit

\* A request made of a valid intent that fits its instrument.
Sound(request) ==
  /\ request \in Requests
  /\ request.link = LinkId(request.intent)
  /\ WithinIntent(request, request.intent)
  /\ LimitKept(request)

\* The calls after the intent has been rounded.
LaterCalls == {"open_orders", "order_history", "set_leverage", "place_order"}

Levers == 1..3

Submitting ==
  /\ call \in SubmitCalls => subject \in Intents /\ ValidOrder(subject)
  /\ call \in LaterCalls => Fits(subject, RulesOf[subject.symbol])

\* The leverages, and the one an order about to be placed will meet.
Levered ==
  /\ environment \in {"TESTNET", "DEMO"}
  /\ leverage \in [Symbols -> Levers]
  /\ environment = "DEMO" => call # "set_leverage" /\ \A s \in Symbols : leverage[s] = 1
  /\ call = "place_order" => leverage[subject.symbol] = subject.leverage

SubjectInv == Submitting /\ Levered

LEMMA RequestSound ==
  ASSUME NEW intent \in Intents, ValidOrder(intent), Fits(intent, RulesOf[intent.symbol])
  PROVE  Sound(Request(intent))
<1> DEFINE request == Request(intent)
           of == RulesOf[intent.symbol]
<1>1. of \in InstrumentRules
  BY IntentsAssumption, RulesAssumption
<1>2. of.tick \in Nat \ {0} /\ of.step \in Nat \ {0}
  BY <1>1 DEF InstrumentRules
<1>3. Typed(intent) /\ ValidIntent(intent) /\ intent.limit \in Nat \union {None}
  BY IntentsAssumption DEF Typed, ValidOrder
<1>4. /\ request.intent = intent /\ request.link = LinkId(intent)
      /\ request.quantity = RoundedQuantity(intent, of)
      /\ request.stop = RoundedStop(intent, of)
      /\ request.target = RoundedTarget(intent, of)
      /\ request.limit = IF intent.limit = None THEN None ELSE RoundedLimit(intent, of)
  BY DEF Request
<1>5. request \in Requests
  <2>1. request.quantity \in Int
    BY <1>2, <1>3, <1>4, FloorBelow DEF Typed, RoundedQuantity
  <2>2. request.stop \in Int
    <3>1. Floor(intent.stop, of.tick) \in Int /\ Ceiling(intent.stop, of.tick) \in Int
      BY <1>2, <1>3, FloorBelow, CeilingAbove DEF Typed
    <3> QED
      BY <3>1, <1>4 DEF RoundedStop
  <2>3. request.target \in Int
    <3>1. Floor(intent.target, of.tick) \in Int /\ Ceiling(intent.target, of.tick) \in Int
      BY <1>2, <1>3, FloorBelow, CeilingAbove DEF Typed
    <3> QED
      BY <3>1, <1>4 DEF RoundedTarget
  <2>4. ASSUME intent.limit # None
        PROVE  RoundedLimit(intent, of) \in Int
    <3>1. intent.limit \in Int
      BY <1>3, <2>4
    <3>2. Floor(intent.limit, of.tick) \in Int /\ Ceiling(intent.limit, of.tick) \in Int
      BY <1>2, <3>1, FloorBelow, CeilingAbove
    <3> QED
      BY <3>2 DEF RoundedLimit
  <2> QED
    BY <1>4, <2>1, <2>2, <2>3, <2>4 DEF Request, Requests, Keys, LinkId
<1>6. WithinIntent(request, intent)
  BY <1>1, <1>3, <1>4, RoundingKeepsIntent
<1>7. LimitKept(request)
  BY <1>1, <1>3, <1>4, LimitNoWorse DEF LimitKept
<1> QED
  BY <1>4, <1>5, <1>6, <1>7 DEF Sound

LEMMA SubjectInit == Init => SubjectInv
BY DEF Init, SubjectInv, Submitting, Levered, Levers, SubmitCalls, LaterCalls

LEMMA SubjectAdapter == ASSUME SubjectInv, Adapter PROVE SubjectInv'
<1> USE DEF SubjectInv, Submitting, SubmitCalls, LaterCalls
<1>1. ASSUME NEW intent \in Intents, Submit(intent) PROVE SubjectInv'
  BY <1>1 DEF Submit, Levered, Quiet, surroundings, exchange
<1>2. CASE FetchRules
  BY <1>2 DEF FetchRules, Levered, Quiet, surroundings, exchange
<1>3. CASE LookForOpen
  BY <1>3 DEF LookForOpen, Goes, Ends, Levered, Quiet, surroundings, exchange
<1>4. CASE LookInHistory
  <2>1. environment' = environment /\ leverage' = leverage
    BY <1>4 DEF LookInHistory, Quiet, surroundings, exchange
  <2>2. CASE call' = "idle"
    BY <2>1, <2>2 DEF Levered
  <2>3. CASE call' # "idle"
    <3>1. /\ call = "order_history" /\ call' = NextCall /\ subject' = subject
          /\ ~(environment = "DEMO" /\ subject.leverage # 1)
      BY <1>4, <2>3 DEF LookInHistory, Goes, Ends
    <3>2. subject \in Intents /\ subject.symbol \in Symbols
      BY <3>1, IntentsAssumption
    <3>3. call' \in {"set_leverage", "place_order"}
      BY <3>1 DEF NextCall
    <3>4. Submitting'
      BY <3>1, <3>3
    <3>5. CASE environment = "TESTNET"
      BY <2>1, <3>1, <3>5 DEF Levered, NextCall
    <3>6. CASE environment = "DEMO"
      BY <2>1, <3>1, <3>2, <3>6 DEF Levered, NextCall
    <3> QED
      BY <3>4, <3>5, <3>6 DEF Levered
  <2> QED
    BY <2>2, <2>3
<1>5. CASE SetLeverage
  <2>1. subject \in Intents /\ subject.symbol \in Symbols /\ subject.leverage \in Levers
    BY <1>5, IntentsAssumption DEF SetLeverage, Goes, ValidOrder, Levers
  <2> QED
    BY <1>5, <2>1 DEF SetLeverage, Goes, Levered, Quiet, surroundings
<1>6. CASE PlaceOrder \/ PlaceLate
  BY <1>6 DEF PlaceOrder, PlaceLate, Ends, Goes, Levered, Quiet, surroundings, exchange
<1>7. CASE CallFails
  <2>1. call' = "idle" /\ environment' = environment
    BY <1>7 DEF CallFails, Ends, Goes, Quiet, surroundings
  <2>2. CASE leverage' = leverage
    BY <2>1, <2>2 DEF Levered
  <2>3. CASE leverage' # leverage
    <3>1. /\ call = "set_leverage"
          /\ leverage' = [leverage EXCEPT ![subject.symbol] = subject.leverage]
      BY <1>7, <2>3 DEF CallFails
    <3>2. subject \in Intents /\ subject.leverage \in Levers
      BY <3>1 DEF ValidOrder, Levers
    <3> QED
      BY <2>1, <3>1, <3>2 DEF Levered
  <2> QED
    BY <2>2, <2>3
<1>8. CASE Recover \/ ListPositions \/ ListOrders
  BY <1>8 DEF Recover, ListPositions, ListOrders, Goes, Levered, Quiet, surroundings, exchange
<1>9. ASSUME NEW symbol \in Symbols, VerifyProtection(symbol) PROVE SubjectInv'
  BY <1>9 DEF VerifyProtection, Levered, Quiet, surroundings, exchange
<1>10. CASE Restart
  BY <1>10 DEF Restart, Levered, surroundings, exchange
<1> QED
  BY <1>1, <1>2, <1>3, <1>4, <1>5, <1>6, <1>7, <1>8, <1>9, <1>10 DEF Adapter

LEMMA SubjectNext == ASSUME SubjectInv, [Next]_vars PROVE SubjectInv'
<1>1. CASE Adapter
  BY <1>1, SubjectAdapter
<1>2. CASE Exchange
  <2>1. leverage' = leverage
    BY <1>2 DEF Exchange, Arrives, Accept, Fill, Cancel, PositionChanges
  <2> QED
    BY <1>2, <2>1, ExchangeLeaves
    DEF adapter, SubjectInv, Submitting, Levered
<1>3. CASE UNCHANGED vars
  BY <1>3 DEF vars, surroundings, adapter, exchange, SubjectInv, Submitting, Levered
<1> QED
  BY <1>1, <1>2, <1>3 DEF Next

-----------------------------------------------------------------------------
(* What the exchange holds                                                 *)

Orders ==
  [id : Nat, request : Requests, leverage : Levers,
   state : {"open", "filled", "cancelled"}]

\* Each order is sound and alone under its orderLinkId, and has its leverage.
OrdersInv ==
  /\ orders \subseteq Orders /\ IsFiniteSet(orders)
  /\ \A o \in orders : Sound(o.request)
  /\ \A o, p \in orders : o.request.link = p.request.link => o = p
  /\ AcceptedAtItsLeverage

WireInv ==
  /\ \A request \in wire : Sound(request)
  /\ ~late => wire = {}

\* Without late requests, what submit has looked for is not there.
Absent ==
  ~late =>
    /\ call = "order_history" => OpenOrders(LinkId(subject)) = {}
    /\ call \in {"set_leverage", "place_order"} =>
         \A o \in orders : o.request.link # LinkId(subject)

ExchangeInv == OrdersInv /\ WireInv /\ Absent

LEMMA ExchangeInit == Init => ExchangeInv
BY FS_EmptySet DEF Init, ExchangeInv, OrdersInv, WireInv, Absent, AcceptedAtItsLeverage

\* An order accepted under a link the exchange has not seen.
LEMMA AcceptKeeps ==
  ASSUME OrdersInv, Levered, late' = late,
         NEW request, Sound(request), Accept(request),
         \A o \in orders : o.request.link # request.link,
         ~late => leverage[request.intent.symbol] = request.intent.leverage
  PROVE  OrdersInv'
<1>1. orders' = orders \union {Order(request)}
  BY DEF Accept
<1>2. request \in Requests /\ request.intent.symbol \in Symbols
  BY IntentsAssumption DEF Sound, Requests
<1>3. Order(request) \in Orders
  <2>1. Cardinality(orders) + 1 \in Nat
    BY FS_CardinalityType DEF OrdersInv
  <2>2. leverage[request.intent.symbol] \in Levers
    BY <1>2 DEF Levered
  <2> QED
    BY <1>2, <2>1, <2>2 DEF Order, Orders
<1>4. IsFiniteSet(orders')
  BY <1>1, FS_AddElement DEF OrdersInv
<1>5. Order(request).request = request
  BY DEF Order
<1>6. ~late => Order(request).leverage = Order(request).request.intent.leverage
  BY DEF Order
<1> QED
  BY <1>1, <1>3, <1>4, <1>5, <1>6 DEF OrdersInv, AcceptedAtItsLeverage

\* An order that is filled or cancelled.
LEMMA CloseKeeps ==
  ASSUME ExchangeInv, late' = late, wire' = wire, call' = call, subject' = subject,
         NEW order \in orders, NEW state \in {"filled", "cancelled"},
         orders' = (orders \ {order}) \union {[order EXCEPT !.state = state]}
  PROVE  ExchangeInv'
<1> DEFINE closed == [order EXCEPT !.state = state]
<1>1. order \in Orders
  BY DEF ExchangeInv, OrdersInv
<1>2. /\ closed \in Orders /\ closed.request = order.request
      /\ closed.leverage = order.leverage /\ closed.state = state
  BY <1>1 DEF Orders
<1>3. OrdersInv'
  <2>1. orders' \subseteq Orders
    BY <1>2 DEF ExchangeInv, OrdersInv
  <2>2. IsFiniteSet(orders')
    <3>1. IsFiniteSet(orders \ {order})
      BY FS_RemoveElement DEF ExchangeInv, OrdersInv
    <3> QED
      BY <3>1, FS_AddElement
  <2>3. \A o \in orders' : \E p \in orders :
          /\ o.request = p.request /\ o.leverage = p.leverage
          /\ o = p \/ (p = order /\ o = closed)
    BY <1>2
  <2>4. \A o \in orders' : Sound(o.request)
    BY <2>3 DEF ExchangeInv, OrdersInv
  <2>5. ASSUME NEW o \in orders', NEW p \in orders', o.request.link = p.request.link
        PROVE  o = p
    <3>1. \A q \in orders \ {order} : q.request.link # closed.request.link
      BY <1>2 DEF ExchangeInv, OrdersInv
    <3>2. CASE o = closed \/ p = closed
      BY <2>5, <3>1, <3>2
    <3>3. CASE o \in orders /\ p \in orders
      BY <2>5, <3>3 DEF ExchangeInv, OrdersInv
    <3> QED
      BY <3>2, <3>3
  <2>6. AcceptedAtItsLeverage'
    BY <2>3 DEF ExchangeInv, OrdersInv, AcceptedAtItsLeverage
  <2> QED
    BY <2>1, <2>2, <2>4, <2>5, <2>6 DEF OrdersInv
<1>4. WireInv'
  BY DEF ExchangeInv, WireInv
<1>5. Absent'
  BY <1>2 DEF ExchangeInv, Absent, OpenOrders, LinkId
<1> QED
  BY <1>3, <1>4, <1>5 DEF ExchangeInv

\* A submit that goes on to its next call, or ends.
LEMMA CallsKeep ==
  ASSUME ExchangeInv, UNCHANGED <<surroundings, orders, wire>>,
         call' \notin {"order_history", "set_leverage", "place_order"}
  PROVE  ExchangeInv'
BY DEF surroundings, ExchangeInv, OrdersInv, WireInv, Absent, AcceptedAtItsLeverage

LEMMA ExchangeAdapter == ASSUME SubjectInv, ExchangeInv, Adapter PROVE ExchangeInv'
<1>1. ASSUME NEW intent \in Intents, Submit(intent) PROVE ExchangeInv'
  BY <1>1, CallsKeep DEF Submit, Quiet, exchange
<1>2. CASE FetchRules
  BY <1>2, CallsKeep DEF FetchRules, Quiet, exchange
<1>3. CASE LookForOpen
  <2>1. UNCHANGED <<surroundings, orders, wire>>
    BY <1>3 DEF LookForOpen, Quiet, exchange
  <2>2. \/ call' = "idle"
        \/ call' = "order_history" /\ subject' = subject /\ OpenOrders(LinkId(subject)) = {}
    BY <1>3 DEF LookForOpen, Goes, Ends
  <2>3. CASE call' = "idle"
    BY <2>1, <2>3, CallsKeep
  <2>4. CASE call' # "idle"
    BY <2>1, <2>2, <2>4
    DEF surroundings, ExchangeInv, OrdersInv, WireInv, Absent, AcceptedAtItsLeverage,
        OpenOrders, LinkId
  <2> QED
    BY <2>3, <2>4
<1>4. CASE LookInHistory
  <2>1. UNCHANGED <<surroundings, orders, wire>> /\ call = "order_history"
    BY <1>4 DEF LookInHistory, Quiet, exchange
  <2>2. \/ call' = "idle"
        \/ /\ call' \in {"set_leverage", "place_order"} /\ subject' = subject
           /\ OrderHistory(LinkId(subject)) = {}
    BY <1>4 DEF LookInHistory, Goes, Ends, NextCall
  <2>3. CASE call' = "idle"
    BY <2>1, <2>3, CallsKeep
  <2>4. CASE call' # "idle"
    <3>1. ~late => \A o \in orders : o.request.link # LinkId(subject)
      BY <2>1, <2>2, <2>4 DEF ExchangeInv, Absent, OpenOrders, OrderHistory
    <3> QED
      BY <2>1, <2>2, <2>4, <3>1
      DEF surroundings, ExchangeInv, OrdersInv, WireInv, Absent, AcceptedAtItsLeverage, LinkId
  <2> QED
    BY <2>3, <2>4
<1>5. CASE SetLeverage
  BY <1>5
  DEF SetLeverage, Goes, Quiet, surroundings, ExchangeInv, OrdersInv, WireInv, Absent,
      AcceptedAtItsLeverage, LinkId
<1>6. CASE PlaceOrder
  <2>1. Sound(Request(subject)) /\ Request(subject).intent = subject
    BY <1>6, RequestSound
    DEF PlaceOrder, Ends, Goes, SubjectInv, Submitting, SubmitCalls, LaterCalls, Request
  <2>2. \A o \in orders : o.request.link # Request(subject).link
    BY <1>6 DEF PlaceOrder, Ends, Goes, Accept, ExchangeInv, Absent, Request
  <2>3. leverage[subject.symbol] = subject.leverage
    BY <1>6 DEF PlaceOrder, Ends, Goes, SubjectInv, Levered
  <2>4. late' = late /\ wire' = wire /\ call' = "idle"
    BY <1>6 DEF PlaceOrder, Ends, Goes, Quiet, surroundings
  <2>5. OrdersInv'
    BY <1>6, <2>1, <2>2, <2>3, <2>4, AcceptKeeps DEF PlaceOrder, ExchangeInv, SubjectInv
  <2> QED
    BY <2>4, <2>5 DEF ExchangeInv, WireInv, Absent
<1>7. CASE PlaceLate
  <2>1. Sound(Request(subject))
    BY <1>7, RequestSound
    DEF PlaceLate, Ends, Goes, SubjectInv, Submitting, SubmitCalls, LaterCalls
  <2> QED
    BY <1>7, <2>1
    DEF PlaceLate, Ends, Goes, surroundings, exchange, ExchangeInv, OrdersInv, WireInv,
        Absent, AcceptedAtItsLeverage
<1>8. CASE CallFails
  BY <1>8, CallsKeep DEF CallFails, Ends, Goes, Quiet
<1>9. CASE Recover \/ ListPositions \/ ListOrders
  BY <1>9, CallsKeep DEF Recover, ListPositions, ListOrders, Goes, Quiet, exchange
<1>10. ASSUME NEW symbol \in Symbols, VerifyProtection(symbol) PROVE ExchangeInv'
  BY <1>10, CallsKeep DEF VerifyProtection, Quiet, exchange
<1>11. CASE Restart
  BY <1>11, CallsKeep DEF Restart, exchange
<1> QED
  BY <1>1, <1>2, <1>3, <1>4, <1>5, <1>6, <1>7, <1>8, <1>9, <1>10, <1>11 DEF Adapter

LEMMA ExchangeExchange == ASSUME SubjectInv, ExchangeInv, Exchange PROVE ExchangeInv'
<1>1. UNCHANGED <<late, call, subject>>
  BY ExchangeLeaves DEF adapter
<1>2. ASSUME NEW request \in wire, Arrives(request) PROVE ExchangeInv'
  <2>1. late /\ Sound(request) /\ wire' = wire \ {request}
    BY <1>2 DEF ExchangeInv, WireInv, Arrives
  <2>2. CASE Accept(request)
    <3>1. OrdersInv'
      BY <1>1, <2>1, <2>2, AcceptKeeps DEF Accept, ExchangeInv, SubjectInv
    <3> QED
      BY <1>1, <2>1, <3>1 DEF ExchangeInv, WireInv, Absent
  <2>3. CASE orders' = orders
    BY <1>1, <2>1, <2>3
    DEF ExchangeInv, OrdersInv, WireInv, Absent, AcceptedAtItsLeverage
  <2> QED
    BY <1>2, <2>2, <2>3 DEF Arrives
<1>3. ASSUME NEW order \in orders, Fill(order) \/ Cancel(order) PROVE ExchangeInv'
  <2>1. wire' = wire
    BY <1>3 DEF Fill, Cancel, Quiet
  <2>2. PICK state \in {"filled", "cancelled"} :
          orders' = (orders \ {order}) \union {[order EXCEPT !.state = state]}
    BY <1>3 DEF Fill, Cancel
  <2> QED
    BY <1>1, <2>1, <2>2, CloseKeeps
<1>4. ASSUME NEW symbol \in Symbols, PositionChanges(symbol) PROVE ExchangeInv'
  BY <1>1, <1>4
  DEF PositionChanges, Quiet, ExchangeInv, OrdersInv, WireInv, Absent,
      AcceptedAtItsLeverage, OpenOrders
<1> QED
  BY <1>2, <1>3, <1>4 DEF Exchange

Inv == SubjectInv /\ ExchangeInv

LEMMA InvInit == Init => Inv
BY SubjectInit, ExchangeInit DEF Inv

LEMMA InvNext == ASSUME Inv, [Next]_vars PROVE Inv'
<1>1. SubjectInv'
  BY SubjectNext DEF Inv
<1>2. CASE Adapter
  BY <1>1, <1>2, ExchangeAdapter DEF Inv
<1>3. CASE Exchange
  BY <1>1, <1>3, ExchangeExchange DEF Inv
<1>4. CASE UNCHANGED vars
  BY <1>1, <1>4
  DEF vars, surroundings, adapter, exchange, Inv, ExchangeInv, OrdersInv, WireInv, Absent,
      AcceptedAtItsLeverage, OpenOrders, LinkId
<1> QED
  BY <1>2, <1>3, <1>4 DEF Next

\* However often intents of one key are submitted, and whatever is lost, late
\* or restarted, the exchange has at most one order of that key.
THEOREM OneOrder == Spec => []AtMostOneOrder
<1>1. ASSUME Inv, NEW intent \in Intents PROVE Cardinality(OrdersOf(intent.key)) <= 1
  <2> DEFINE S == OrdersOf(intent.key)
  <2>1. \A o \in S : o \in orders /\ o.request.link = intent.key
    BY <1>1 DEF Inv, ExchangeInv, OrdersInv, OrdersOf, Sound, LinkId
  <2>2. \A o, p \in S : o = p
    BY <1>1, <2>1 DEF Inv, ExchangeInv, OrdersInv
  <2>3. S = {} \/ \E o : S = {o}
    BY <2>2
  <2>4. Cardinality(S) = 0 \/ Cardinality(S) = 1
    BY <2>3, FS_EmptySet, FS_Singleton
  <2> QED
    BY <2>4
<1>2. Inv => AtMostOneOrder
  BY <1>1 DEF AtMostOneOrder
<1> QED
  BY InvInit, InvNext, <1>2, PTL DEF Spec

\* Without late requests every order is accepted at the leverage its intent
\* asks for.
THEOREM OwnLeverage == Spec => []AcceptedAtItsLeverage
<1>1. Inv => AcceptedAtItsLeverage
  BY DEF Inv, ExchangeInv, OrdersInv
<1> QED
  BY InvInit, InvNext, <1>1, PTL DEF Spec

\* Whatever the tick, the step and the minima of the instruments, no order the
\* exchange accepts risks more than its intent, or asks for a worse limit.
THEOREM OrdersWithinIntents == Spec => []WithinIntents
<1>1. ASSUME Inv, NEW o \in orders
      PROVE  WithinIntent(o.request, o.request.intent) /\ LimitKept(o.request)
  BY <1>1 DEF Inv, ExchangeInv, OrdersInv, Sound
<1>2. Inv => WithinIntents
  BY <1>1 DEF WithinIntents, LimitKept
<1> QED
  BY InvInit, InvNext, <1>2, PTL DEF Spec

-----------------------------------------------------------------------------
(* Type correctness, and the numbers of the orders                         *)

\* The orders are numbered from one on, each with a number of its own.
Numbered ==
  /\ Cardinality(orders) <= MaxOrders
  /\ \A o \in orders : o.id \in 1..Cardinality(orders)
  /\ \A o, p \in orders : o.id = p.id => o = p

NumberInv == Inv /\ TypeOK /\ Numbered

LEMMA NumberInit == Init => NumberInv
<1> SUFFICES ASSUME Init PROVE NumberInv
  OBVIOUS
<1>1. orders = {} /\ Cardinality(orders) = 0
  BY FS_EmptySet DEF Init
<1>2. TypeOK
  <2>1. /\ leverage \in [Symbols -> 1..3] /\ crashes \in 0..MaxCrashes
        /\ orders = {} /\ wire = {} /\ found = {} /\ rules = {}
    BY BoundsAssumption DEF Init
  <2> QED
    BY <2>1 DEF Init, TypeOK, Calls
<1>3. Numbered
  BY <1>1, BoundsAssumption DEF Numbered
<1> QED
  BY <1>2, <1>3, InvInit DEF NumberInv

\* Everything of TypeOK but the orders.
OwnType ==
  /\ environment \in {"TESTNET", "DEMO"} /\ late \in BOOLEAN
  /\ recovered \in BOOLEAN /\ blocked \in BOOLEAN
  /\ rules \subseteq Symbols
  /\ call \in Calls
  /\ subject \in Intents \union {None}
  /\ found \subseteq Symbols
  /\ position \in [Symbols -> {"none", "protected", "unprotected"}]
  /\ alarm \in {"none", "sighted", "reported"}
  /\ crashes \in 0..MaxCrashes

LEMMA OwnTypeAdapter == ASSUME SubjectInv, OwnType, Adapter PROVE OwnType'
<1> USE DEF OwnType
<1>1. ASSUME NEW intent \in Intents, Submit(intent) PROVE OwnType'
  BY <1>1 DEF Submit, Quiet, surroundings, exchange, Calls
<1>2. CASE FetchRules
  <2>1. subject \in Intents /\ CacheKey(subject) \in Symbols
    BY <1>2, IntentsAssumption
    DEF FetchRules, SubjectInv, Submitting, SubmitCalls, CacheKey
  <2> QED
    BY <1>2, <2>1 DEF FetchRules, Quiet, surroundings, exchange, Calls
<1>3. CASE LookForOpen
  BY <1>3 DEF LookForOpen, Goes, Ends, Quiet, surroundings, exchange, Calls
<1>4. CASE LookInHistory
  BY <1>4 DEF LookInHistory, NextCall, Goes, Ends, Quiet, surroundings, exchange, Calls
<1>5. CASE SetLeverage
  BY <1>5 DEF SetLeverage, Goes, Quiet, surroundings, Calls
<1>6. CASE PlaceOrder
  BY <1>6 DEF PlaceOrder, Ends, Goes, Quiet, surroundings, Calls
<1>7. CASE PlaceLate
  BY <1>7 DEF PlaceLate, Ends, Goes, surroundings, exchange, Calls
<1>8. CASE CallFails
  BY <1>8 DEF CallFails, Ends, Goes, Quiet, surroundings, Calls
<1>9. CASE Recover
  BY <1>9 DEF Recover, Goes, Quiet, surroundings, exchange, Calls
<1>10. CASE ListPositions
  BY <1>10 DEF ListPositions, Unprotected, Goes, Quiet, surroundings, exchange, Calls
<1>11. CASE ListOrders
  BY <1>11 DEF ListOrders, Goes, Quiet, surroundings, exchange, Calls
<1>12. ASSUME NEW symbol \in Symbols, VerifyProtection(symbol) PROVE OwnType'
  BY <1>12 DEF VerifyProtection, Quiet, surroundings, exchange
<1>13. CASE Restart
  <2>1. crashes' \in 0..MaxCrashes
    BY <1>13, BoundsAssumption DEF Restart
  <2>2. recovered' \in BOOLEAN /\ blocked' \in BOOLEAN
    BY <1>13, Zenon DEF Restart
  <2> QED
    BY <1>13, <2>1, <2>2 DEF Restart, surroundings, exchange, Calls
<1> HIDE DEF OwnType
<1> QED
  BY <1>1, <1>2, <1>3, <1>4, <1>5, <1>6, <1>7, <1>8, <1>9, <1>10, <1>11, <1>12,
     <1>13
  DEF Adapter

LEMMA OwnTypeExchange == ASSUME OrdersInv, OwnType, Exchange PROVE OwnType'
<1>1. UNCHANGED <<environment, late, adapter, alarm, crashes>>
  BY ExchangeLeaves
<1>2. ASSUME NEW order \in orders, Fill(order)
      PROVE  position' \in [Symbols -> {"none", "protected", "unprotected"}]
  BY <1>2 DEF Fill, OwnType
<1>3. position' \in [Symbols -> {"none", "protected", "unprotected"}]
  BY <1>2 DEF Exchange, Arrives, Cancel, PositionChanges, OwnType
<1> QED
  BY <1>1, <1>3 DEF OwnType, adapter

LEMMA NumbersAccept ==
  ASSUME OrdersInv, Numbered, NEW request, Accept(request)
  PROVE  Numbered' /\ Cardinality(orders') \in Nat
<1> DEFINE new == Order(request)
           n == Cardinality(orders)
<1>1. n \in Nat /\ n < MaxOrders /\ IsFiniteSet(orders) /\ MaxOrders \in Nat
  BY FS_CardinalityType, BoundsAssumption DEF OrdersInv, Accept
<1>2. new.id = n + 1 /\ orders' = orders \union {new}
  BY DEF Order, Accept
<1>3. \A o \in orders : o.id \in 1..n
  BY DEF Numbered
<1>4. new \notin orders
  BY <1>1, <1>2, <1>3
<1>5. Cardinality(orders') = n + 1
  BY <1>1, <1>2, <1>4, FS_AddElement
<1> HIDE DEF new, n
<1> QED
  BY <1>1, <1>2, <1>3, <1>5 DEF Numbered

LEMMA NumbersClose ==
  ASSUME OrdersInv, Numbered, NEW order \in orders, NEW state,
         orders' = (orders \ {order}) \union {[order EXCEPT !.state = state]}
  PROVE  Numbered' /\ Cardinality(orders') \in Nat
<1> DEFINE closed == [order EXCEPT !.state = state]
           rest == orders \ {order}
           n == Cardinality(orders)
<1>1. n \in Nat /\ IsFiniteSet(orders)
  BY FS_CardinalityType DEF OrdersInv
<1>2. order \in Orders /\ closed.id = order.id
  BY DEF OrdersInv, Orders
<1>3. closed \notin rest
  BY <1>2 DEF Numbered
<1>4. IsFiniteSet(rest) /\ Cardinality(rest) = n - 1
  BY <1>1, FS_RemoveElement
<1>5. orders' = rest \union {closed}
  OBVIOUS
<1> HIDE DEF closed, n, rest
<1>6. Cardinality(orders') = n
  <2>1. Cardinality(rest \union {closed}) = Cardinality(rest) + 1
    BY <1>3, <1>4, FS_AddElement
  <2>2. Cardinality(rest \union {closed}) = n
    BY <1>1, <1>4, <2>1
  <2> QED
    BY <1>5, <2>2, Zenon
<1>7. \A o \in orders' : \E p \in orders : o.id = p.id /\ (o = p \/ (o = closed /\ p = order))
  BY <1>2 DEF closed, rest
<1>8. \A o, p \in orders' : o.id = p.id => o = p
  <2> TAKE o, p \in orders'
  <2> HAVE o.id = p.id
  <2>1. \A q \in rest : q.id # closed.id
    BY <1>2 DEF Numbered, rest
  <2>2. orders' = rest \union {closed} /\ rest \subseteq orders
    BY DEF rest, closed
  <2> QED
    BY <2>1, <2>2 DEF Numbered
<1> QED
  BY <1>1, <1>6, <1>7, <1>8 DEF Numbered, n

LEMMA NumberNext == ASSUME NumberInv, [Next]_vars PROVE NumberInv'
<1>1. Inv' /\ Inv /\ TypeOK /\ Numbered /\ SubjectInv /\ OrdersInv /\ OwnType
  BY InvNext DEF NumberInv, Inv, ExchangeInv, TypeOK, OwnType
<1>2. Numbered'
  <2>1. ASSUME NEW request, Accept(request) PROVE Numbered'
    BY <1>1, <2>1, NumbersAccept
  <2>2. ASSUME NEW order \in orders, NEW state,
               orders' = (orders \ {order}) \union {[order EXCEPT !.state = state]}
        PROVE  Numbered'
    BY <1>1, <2>2, NumbersClose
  <2>3. CASE orders' = orders
    BY <1>1, <2>3 DEF Numbered
  <2>4. CASE Adapter
    BY <2>1, <2>3, <2>4
    DEF Adapter, Submit, FetchRules, LookForOpen, LookInHistory, SetLeverage, PlaceOrder,
        PlaceLate, CallFails, Recover, ListPositions, ListOrders, VerifyProtection,
        Restart, exchange
  <2>5. CASE Exchange
    BY <2>1, <2>2, <2>3, <2>5 DEF Exchange, Arrives, Fill, Cancel, PositionChanges
  <2> QED
    BY <2>3, <2>4, <2>5 DEF Next, vars, exchange
<1>3. OwnType'
  BY <1>1, OwnTypeAdapter, OwnTypeExchange
  DEF Next, OwnType, vars, surroundings, adapter, exchange
<1>4. TypeOK'
  <2>1. OrdersInv' /\ WireInv' /\ Levered'
    BY <1>1 DEF Inv, ExchangeInv, SubjectInv
  <2>2. IsFiniteSet(orders') /\ Cardinality(orders') \in Nat
    BY <2>1, FS_CardinalityType DEF OrdersInv
  <2>3. \A o \in orders' :
          /\ o.id \in 1..MaxOrders /\ o.request.intent \in Intents
          /\ o.leverage \in 1..3
          /\ o.state \in {"open", "filled", "cancelled"}
    BY <1>2, <2>1, <2>2, BoundsAssumption
    DEF OrdersInv, Orders, Requests, Levers, Numbered
  <2>4. \A request \in wire' : request.intent \in Intents
    BY <2>1 DEF WireInv, Sound, Requests
  <2>5. leverage' \in [Symbols -> 1..3]
    BY <2>1 DEF Levered, Levers
  <2> QED
    BY <1>3, <2>3, <2>4, <2>5 DEF OwnType, TypeOK
<1> QED
  BY <1>1, <1>2, <1>4 DEF NumberInv

-----------------------------------------------------------------------------
(* The order states beside the adapter                                     *)

\* The state machine changes nothing else: all that holds of the adapter alone
\* holds of it with a state machine beside it.
LEMMA TrackNextSteps == [TrackNext]_trackVars => [Next]_vars
BY DEF TrackNext, Update, trackVars

THEOREM TrackingIsQuiet == TrackSpec => Spec
BY TrackNextSteps, PTL DEF TrackSpec, TrackInit, Spec

\* What the exchange did with an order that is done.
Outcome(order) == StatusMap(IF order.state = "filled" THEN "Filled" ELSE "Cancelled")

\* A terminal state is that of an order that is done.
TrackedInv ==
  /\ tracked \in [1..MaxOrders -> OrderStates \union {None}]
  /\ \A id \in 1..MaxOrders :
       tracked[id] \in Terminal =>
         \E order \in orders :
            /\ order.id = id /\ order.state # "open"
            /\ tracked[id] = Outcome(order)

TrackInv == NumberInv /\ TrackedInv

LEMMA NoneIsOpen == None \notin Terminal
BY NoStateAssumption DEF OrderStates, Terminal

LEMMA NothingTracked ==
  /\ Nothing \in [1..MaxOrders -> OrderStates \union {None}]
  /\ \A id \in 1..MaxOrders : Nothing[id] \notin Terminal
BY NoneIsOpen DEF Nothing

LEMMA TrackInvInit == TrackInit => TrackInv
<1> SUFFICES ASSUME TrackInit PROVE TrackInv
  OBVIOUS
<1>1. NumberInv /\ tracked = Nothing
  BY NumberInit DEF TrackInit
<1>2. TrackedInv
  BY <1>1, NothingTracked DEF TrackedInv
<1> QED
  BY <1>1, <1>2 DEF TrackInv

\* The states a reported status may lead to.
LEMMA ReportedStates ==
  ASSUME NEW order, order.state \in {"open", "filled", "cancelled"},
         NEW status \in Reported(order)
  PROVE  /\ StatusMap(status) \in OrderStates \union {None}
         /\ StatusMap(status) \in Terminal =>
              order.state # "open" /\ StatusMap(status) = Outcome(order)
<1>1. /\ StatusMap("New") = "OPEN" /\ StatusMap("Untriggered") = None
      /\ StatusMap("Filled") = "FILLED" /\ StatusMap("Cancelled") = "CANCELLED"
  BY DEF StatusMap
<1>2. CASE status = "New"
  BY <1>1, <1>2 DEF OrderStates, Terminal
<1>3. CASE status = "Untriggered"
  BY <1>1, <1>3, NoneIsOpen
<1>4. CASE order.state = "filled" /\ status = "Filled"
  BY <1>1, <1>4 DEF OrderStates, Outcome
<1>5. CASE order.state = "cancelled" /\ status = "Cancelled"
  BY <1>1, <1>5 DEF OrderStates, Outcome
<1> QED
  BY <1>2, <1>3, <1>4, <1>5 DEF Reported

\* What the exchange does later leaves a done order as it is.
LEMMA DoneStays ==
  ASSUME NumberInv, [Next]_vars, NEW order \in orders, order.state # "open"
  PROVE  order \in orders'
<1>1. ASSUME NEW other \in orders, Fill(other) \/ Cancel(other)
      PROVE  order \in orders'
  BY <1>1 DEF Fill, Cancel
<1>2. ASSUME NEW request, Accept(request) PROVE order \in orders'
  BY <1>2 DEF Accept
<1>3. CASE orders' = orders
  BY <1>3
<1>4. CASE Adapter
  BY <1>2, <1>3, <1>4
  DEF Adapter, Submit, FetchRules, LookForOpen, LookInHistory, SetLeverage, PlaceOrder,
      PlaceLate, CallFails, Recover, ListPositions, ListOrders, VerifyProtection,
      Restart, exchange
<1>5. CASE Exchange
  BY <1>1, <1>2, <1>3, <1>5 DEF Exchange, Arrives, PositionChanges
<1> QED
  BY <1>3, <1>4, <1>5 DEF Next, vars, exchange

LEMMA TrackInvNext == TrackInv /\ [TrackNext]_trackVars => TrackInv'
<1> SUFFICES ASSUME TrackInv, [TrackNext]_trackVars PROVE TrackInv'
  OBVIOUS
<1>1. NumberInv /\ NumberInv' /\ [Next]_vars
  BY TrackNextSteps, NumberNext DEF TrackInv
<1>2. CASE tracked' = tracked
  <2>1. \A order \in orders : order.state # "open" => order \in orders'
    BY <1>1, DoneStays
  <2> QED
    BY <1>1, <1>2, <2>1 DEF TrackInv, TrackedInv
<1>3. CASE tracked' = Nothing
  BY <1>1, <1>3, NothingTracked DEF TrackInv, TrackedInv
<1>4. ASSUME NEW order \in orders, NEW status \in Reported(order), Update(order, status)
      PROVE  TrackInv'
  <2> DEFINE state == StatusMap(status)
  <2>1. order.id \in 1..MaxOrders /\ order.state \in {"open", "filled", "cancelled"}
    BY <1>1 DEF NumberInv, TypeOK
  <2>2. /\ state \in OrderStates \union {None}
        /\ state \in Terminal => order.state # "open" /\ state = Outcome(order)
    BY <2>1, ReportedStates
  <2>3. orders' = orders /\ tracked' = [tracked EXCEPT ![order.id] = state]
    BY <1>4 DEF Update, vars, exchange
  <2> HIDE DEF state
  <2>4. tracked' \in [1..MaxOrders -> OrderStates \union {None}]
    BY <2>1, <2>2, <2>3 DEF TrackInv, TrackedInv
  <2>5. ASSUME NEW id \in 1..MaxOrders, tracked'[id] \in Terminal
        PROVE  \E o \in orders' :
                  /\ o.id = id /\ o.state # "open"
                  /\ tracked'[id] = Outcome(o)
    <3>1. CASE id = order.id
      BY <2>1, <2>2, <2>3, <2>5, <3>1 DEF TrackInv, TrackedInv
    <3>2. CASE id # order.id
      BY <2>1, <2>3, <2>5, <3>2 DEF TrackInv, TrackedInv
    <3> QED
      BY <3>1, <3>2
  <2> QED
    BY <1>1, <2>4, <2>5 DEF TrackInv, TrackedInv
<1> QED
  BY <1>2, <1>3, <1>4 DEF TrackNext, trackVars

\* The adapter's state, the exchange's orders and the order states keep their
\* types; in particular no more orders than there are numbers for.
THEOREM TrackTypeCorrect == TrackSpec => []TrackTypeOK
<1>1. TrackInv => TrackTypeOK
  BY DEF TrackInv, TrackedInv, NumberInv, TrackTypeOK
<1> QED
  BY TrackInvInit, TrackInvNext, <1>1, PTL DEF TrackSpec

LEMMA DoneStaysStep ==
  TrackInv /\ [TrackNext]_trackVars =>
    [\A order \in orders :
       tracked[order.id] \in Terminal =>
         /\ tracked[order.id] = StatusMap(IF order.state = "filled" THEN "Filled"
                                                                    ELSE "Cancelled")
         /\ crashes' = crashes => tracked'[order.id] = tracked[order.id]]_trackVars
<1> SUFFICES ASSUME TrackInv, [TrackNext]_trackVars,
                    NEW order \in orders, tracked[order.id] \in Terminal
             PROVE  /\ tracked[order.id] = Outcome(order)
                    /\ crashes' = crashes => tracked'[order.id] = tracked[order.id]
  BY DEF Outcome
<1>1. order.id \in 1..MaxOrders
  BY DEF TrackInv, NumberInv, TypeOK
<1>2. PICK done \in orders : done.id = order.id /\ tracked[order.id] = Outcome(done)
  BY <1>1 DEF TrackInv, TrackedInv
<1>3. done = order
  BY <1>2 DEF TrackInv, NumberInv, Numbered
<1>4. ASSUME NEW other \in orders, NEW status \in Reported(other), Update(other, status)
      PROVE  tracked'[order.id] = tracked[order.id]
  BY <1>1, <1>4 DEF Update, Allows, TrackInv, TrackedInv
<1>5. crashes' = crashes => tracked'[order.id] = tracked[order.id]
  BY <1>4 DEF TrackNext, trackVars
<1> QED
  BY <1>2, <1>3, <1>5

\* While the process lives no late or repeated status takes an order out of its
\* last state, and that state is what the exchange did with the order.
THEOREM DoneIsFinal == TrackSpec => DoneStaysDone
BY TrackInvInit, TrackInvNext, DoneStaysStep, PTL DEF TrackSpec, DoneStaysDone
=============================================================================

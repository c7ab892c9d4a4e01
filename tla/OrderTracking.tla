---------------------------- MODULE OrderTracking ----------------------------
(***************************************************************************)
(* The adapter's process with an OrderStateMachine beside it, which is     *)
(* told the status of the orders the exchange has accepted.  The messages  *)
(* may be lost, repeated and late: an order's earlier status may come in   *)
(* after its last one.  A new process starts with an empty machine.        *)
(***************************************************************************)
EXTENDS BybitExecution

VARIABLE tracked      \* _states: per order id its state, or None

trackVars == <<vars, tracked>>

OrderStates ==
  {"PENDING", "OPEN", "PARTIALLY_FILLED", "FILLED", "CANCELLED", "REJECTED"}

\* Python's None is no state of an order.
ASSUME NoStateAssumption == None \notin OrderStates

\* STATUS_MAP
StatusMap(status) ==
  CASE status = "Created" -> "PENDING"
    [] status = "New" -> "OPEN"
    [] status = "PartiallyFilled" -> "PARTIALLY_FILLED"
    [] status = "Filled" -> "FILLED"
    [] status \in {"Cancelled", "Deactivated"} -> "CANCELLED"
    [] status = "Rejected" -> "REJECTED"
    [] OTHER -> None

Terminal == {"FILLED", "CANCELLED", "REJECTED"}

\* Mutant: every supported status is taken over.
AllowsAny(id, state) == state # None

\* update raises on an unsupported status and on another state after a
\* terminal one.
Allows(id, state) ==
  /\ state # None
  /\ tracked[id] \in Terminal => state = tracked[id]

\* The statuses the exchange may have reported of an order by now, of which
\* the first and an unsupported one stand for all that are not terminal.
Reported(order) ==
  {"New", "Untriggered"}
    \union (CASE order.state = "open" -> {}
              [] order.state = "filled" -> {"Filled"}
              [] order.state = "cancelled" -> {"Cancelled"})

\* Bound: statuses are followed only where no request is late.
Update(order, status) ==
  /\ ~late
  /\ Allows(order.id, StatusMap(status))
  /\ tracked' = [tracked EXCEPT ![order.id] = StatusMap(status)]
  /\ UNCHANGED vars

Nothing == [id \in 1..MaxOrders |-> None]

TrackInit == Init /\ tracked = Nothing

TrackNext ==
  \/ Next /\ tracked' = IF crashes' # crashes THEN Nothing ELSE tracked
  \/ \E order \in orders : \E status \in Reported(order) : Update(order, status)

TrackSpec == TrackInit /\ [][TrackNext]_trackVars

-----------------------------------------------------------------------------

TrackTypeOK ==
  /\ TypeOK
  /\ tracked \in [1..MaxOrders -> OrderStates \union {None}]

\* As long as the process lives it does not forget that an order is done,
\* whatever old status comes in after, and what it takes for done is what the
\* exchange did with the order.
DoneStaysDone ==
  [][\A order \in orders :
       tracked[order.id] \in Terminal =>
         /\ tracked[order.id] = StatusMap(IF order.state = "filled" THEN "Filled"
                                                                    ELSE "Cancelled")
         /\ crashes' = crashes => tracked'[order.id] = tracked[order.id]]_trackVars
=============================================================================

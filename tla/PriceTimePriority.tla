------------------------- MODULE PriceTimePriority -------------------------
(***************************************************************************)
(* What the order book promises, with none of its data structures: a set   *)
(* of resting orders, an order that takes from it, and the rule that the   *)
(* next trade is always with the counter-order of best price and, among    *)
(* those, of earliest arrival.  OrderBook implements this specification    *)
(* (PriceTimePriority!Spec is a property of the run of MCOrderBook).       *)
(***************************************************************************)
EXTENDS Integers, Sequences

CONSTANTS OrderIds, Prices, Quantities, NoOrder

Sides      == {"Buy", "Sell"}
OrderTypes == {"Limit", "Market"}

VARIABLES
    resting,    \* the set of resting orders
    clock,      \* the next time stamp
    taker,      \* the order being matched, or NoOrder
    trades,     \* what the taker has traded so far
    reply       \* the answer to the last request

vars == <<resting, clock, taker, trades, reply>>

IdsOf(orders) == {o.id : o \in orders}

(* a is served before b by an order on the other side.                     *)
Ahead(a, b) ==
    \/ a.side = "Buy"  /\ a.price_ticks > b.price_ticks
    \/ a.side = "Sell" /\ a.price_ticks < b.price_ticks
    \/ a.price_ticks = b.price_ticks /\ a.timestamp < b.timestamp

(* The orders the taker may trade with at its limit.                       *)
Eligible(order, orders) ==
    {o \in orders : /\ o.side # order.side
                    /\ \/ order.type = "Market"
                       \/ order.side = "Buy"  /\ o.price_ticks <= order.price_ticks
                       \/ order.side = "Sell" /\ o.price_ticks >= order.price_ticks}

Init ==
    /\ resting = {}
    /\ clock = 0
    /\ taker = NoOrder
    /\ trades = <<>>
    /\ reply = [op |-> "none", id |-> NoOrder, ok |-> FALSE]

Reject(id) ==
    /\ taker = NoOrder
    /\ id \in IdsOf(resting)
    /\ reply' = [op |-> "submit", id |-> id, ok |-> FALSE]
    /\ UNCHANGED <<resting, clock, taker, trades>>

Accept(id, side, type, price, quantity) ==
    /\ taker = NoOrder
    /\ id \notin IdsOf(resting)
    /\ taker' = [id |-> id, side |-> side, type |-> type, price_ticks |-> price,
                 quantity |-> quantity, timestamp |-> clock]
    /\ clock' = clock + 1
    /\ UNCHANGED <<resting, trades, reply>>

(* The taker trades with the eligible order that is ahead of all others.   *)
Trade(maker, quantity) ==
    /\ taker # NoOrder
    /\ maker \in Eligible(taker, resting)
    /\ \A o \in Eligible(taker, resting) \ {maker} : Ahead(maker, o)
    /\ quantity > 0
    /\ quantity = taker.quantity \/ quantity = maker.quantity
    /\ quantity <= taker.quantity /\ quantity <= maker.quantity
    /\ taker' = [taker EXCEPT !.quantity = taker.quantity - quantity]
    /\ resting' = (resting \ {maker}) \cup
                  (IF quantity = maker.quantity THEN {}
                   ELSE {[maker EXCEPT !.quantity = maker.quantity - quantity]})
    /\ trades' = Append(trades, [resting_order_id  |-> maker.id,
                                 incoming_order_id |-> taker.id,
                                 resting_side      |-> maker.side,
                                 price_ticks       |-> maker.price_ticks,
                                 quantity          |-> quantity,
                                 timestamp         |-> clock])
    /\ clock' = clock + 1
    /\ UNCHANGED reply

(* Nothing is left to trade, or nobody to trade with.                      *)
Done ==
    /\ taker # NoOrder
    /\ taker.quantity = 0 \/ Eligible(taker, resting) = {}
    /\ resting' = resting \cup (IF taker.quantity > 0 /\ taker.type = "Limit"
                                THEN {taker} ELSE {})
    /\ reply' = [op |-> "submit", id |-> taker.id, ok |-> TRUE]
    /\ taker' = NoOrder
    /\ trades' = <<>>
    /\ UNCHANGED clock

Cancel(id) ==
    /\ taker = NoOrder
    /\ resting' = {o \in resting : o.id # id}
    /\ reply' = [op |-> "cancel", id |-> id, ok |-> id \in IdsOf(resting)]
    /\ UNCHANGED <<clock, taker, trades>>

Next ==
    \/ \E id \in OrderIds, side \in Sides, type \in OrderTypes, price \in Prices,
          quantity \in Quantities : Accept(id, side, type, price, quantity)
    \/ /\ taker # NoOrder
       /\ \E maker \in resting : \E quantity \in {maker.quantity, taker.quantity} :
             Trade(maker, quantity)
    \/ Done
    \/ \E id \in OrderIds : Reject(id)
    \/ \E id \in OrderIds : Cancel(id)

Spec == Init /\ [][Next]_vars
=============================================================================

---------------------------- MODULE MCOrderBook ----------------------------
(***************************************************************************)
(* OrderBook for TLC, with a history variable that remembers the book as   *)
(* it was when the submit in progress began.  It lets the result of the    *)
(* matching loop be compared with a closed-form allocation, and the whole  *)
(* book with PriceTimePriority.                                            *)
(***************************************************************************)
EXTENDS OrderBook, FiniteSets, FiniteSetsExt, TLC

VARIABLE start      \* [orders, quantity] at SubmitBegin

vars == <<book, order_index, next_timestamp, incoming, fills, returned, start>>

NoStart == [orders |-> {}, quantity |-> 0]

MCInit == BookInit /\ start = NoStart

MCSubmit(id, side, type, price, quantity) ==
    /\ SubmitBegin(id, side, type, price, quantity)
    /\ start' = [orders |-> RestingOrders, quantity |-> quantity]

MCNext ==
    \/ \E id \in OrderIds, side \in Sides, type \in OrderTypes, price \in Prices,
          quantity \in Quantities : MCSubmit(id, side, type, price, quantity)
    \/ MatchOne /\ UNCHANGED start
    \/ Return /\ start' = NoStart
    \/ \E id \in OrderIds : SubmitDuplicate(id) /\ UNCHANGED start
    \/ \E id \in OrderIds : CancelFound(id) /\ UNCHANGED start
    \/ \E id \in OrderIds : CancelNotFound(id) /\ UNCHANGED start

MCSpec == MCInit /\ [][MCNext]_vars /\ WF_vars(MatchOne /\ UNCHANGED start)
                 /\ WF_vars(Return /\ start' = NoStart)

Symmetry == Permutations(OrderIds)

-----------------------------------------------------------------------------
(* The closed form.  With the eligible orders in priority order, each one  *)
(* gets what is left of the request after those ahead of it.               *)
QuantityOf(orders) == SumFunction([o \in orders |-> o.quantity])

Allocation(o) ==
    LET eligible == Abstract!Eligible(incoming, start.orders)
        left     == start.quantity - QuantityOf({e \in eligible : Abstract!Ahead(e, o)})
    IN  IF o \in eligible THEN Max({0, Min({o.quantity, left})}) ELSE 0

Traded == [i \in DOMAIN fills |-> fills[i].quantity]

FilledFor(id) == SumFunctionOnSet(Traded, {i \in DOMAIN fills : fills[i].resting_order_id = id})

(* When the matching loop of submit ends, every order that was resting     *)
(* when it began has traded exactly its share, one fill each, at its own   *)
(* price, and what it has left is still in the book; what the incoming     *)
(* order has left is the request minus the fills.                          *)
LoopComputesAllocation ==
    (incoming # NoOrder /\ ~CanMatch) =>
        /\ \A o \in start.orders :
              /\ FilledFor(o.id) = Allocation(o)
              /\ {r.quantity : r \in {r \in RestingOrders : r.id = o.id}}
                    = {o.quantity - Allocation(o)} \ {0}
              /\ \A i \in DOMAIN fills : fills[i].resting_order_id = o.id =>
                     fills[i].price_ticks = o.price_ticks
        /\ \A i, j \in DOMAIN fills :
              fills[i].resting_order_id = fills[j].resting_order_id => i = j
        /\ incoming.quantity = start.quantity - SumFunction(Traded)
=============================================================================

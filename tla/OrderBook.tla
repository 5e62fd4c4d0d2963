----------------------------- MODULE OrderBook -----------------------------
(***************************************************************************)
(* The limit order book of engine/src/order_book.cpp: two price ladders    *)
(* with a FIFO queue per price level, an index from order ids to (price,   *)
(* side), and a clock that stamps orders and fills.                        *)
(*                                                                         *)
(* A call of submit is a sequence of steps: SubmitBegin (the duplicate     *)
(* check and the timestamp), one MatchOne per iteration of the matching    *)
(* loop, and Return (resting the remainder of a limit order).  cancel is   *)
(* one step.  matchBuy/matchSell and the two branches of submit and cancel *)
(* are mirror images in the source; here they are one definition, taken    *)
(* with the side as a parameter.                                           *)
(***************************************************************************)
EXTENDS Integers, Sequences

CONSTANTS
    OrderIds,       \* the ids clients may use
    MinPrice,       \* the least and the greatest price_ticks
    MaxPrice,       \*   (in the program the limits of int64_t)
    Quantities,     \* the quantities clients may ask for, zero included
    NoOrder,        \* "no submit is in progress"
    MaxTimestamp    \* bound on the clock: no submit begins after it

ASSUME PricesAssumption     == MinPrice \in Int /\ MaxPrice \in Int
ASSUME QuantitiesAssumption == Quantities \subseteq Nat
ASSUME BoundAssumption      == MaxTimestamp \in Nat

Prices     == MinPrice..MaxPrice
Sides      == {"Buy", "Sell"}
OrderTypes == {"Limit", "Market"}

Opposite(side) == IF side = "Buy" THEN "Sell" ELSE "Buy"

Order == [id          : OrderIds,
          side        : Sides,
          type        : OrderTypes,
          price_ticks : Prices,
          quantity    : Nat,
          timestamp   : Nat]

Fill == [resting_order_id  : OrderIds,
         incoming_order_id : OrderIds,
         resting_side      : Sides,
         price_ticks       : Prices,
         quantity          : Nat,
         timestamp         : Nat]

ASSUME NoOrderAssumption == NoOrder \notin Order

(* What a call returned: for submit, whether the order was accepted (the   *)
(* fills are in the variable fills); for cancel, the boolean.              *)
Reply == [op : {"none", "submit", "cancel"}, id : OrderIds \cup {NoOrder}, ok : BOOLEAN]

VARIABLES
    book,            \* book["Buy"] is bids_, book["Sell"] is asks_: price -> FIFO of orders
    order_index,     \* order_index_: id -> [price, side]
    next_timestamp,  \* next_timestamp_
    incoming,        \* the order being matched by submit, or NoOrder
    fills,           \* the fills submit has collected so far
    returned         \* the reply of the last call that returned

bookVars == <<book, order_index, next_timestamp, incoming, fills, returned>>

-----------------------------------------------------------------------------
(* The containers. *)

NoLevels == [p \in {} |-> <<>>]

(* Slip: both ladders with the default order of std::map.                  *)
BetterIsLess(side, p, q) == p < q

(* bids_ is a map ordered by std::greater, asks_ by std::less.             *)
Better(side, p, q) == IF side = "Buy" THEN p > q ELSE p < q

(* begin() of the ladder; only evaluated on a ladder that is not empty.    *)
BestPrice(side) ==
    CHOOSE p \in DOMAIN book[side] :
        \A q \in DOMAIN book[side] \ {p} : Better(side, p, q)

best_bid == IF DOMAIN book["Buy"] = {}  THEN {} ELSE {BestPrice("Buy")}
best_ask == IF DOMAIN book["Sell"] = {} THEN {} ELSE {BestPrice("Sell")}

contains(id) == id \in DOMAIN order_index

(* try_emplace of a level, and the assignment of its queue.                *)
PutLevel(levels, p, orders) ==
    [q \in DOMAIN levels \cup {p} |-> IF q = p THEN orders ELSE levels[q]]

EraseLevel(levels, p) == [q \in DOMAIN levels \ {p} |-> levels[q]]

(* Slip: the empty level is left in the map.                               *)
StoreLevelKeepingEmpty(levels, p, orders) == PutLevel(levels, p, orders)

(* A queue that lost an order is written back; an empty level is erased.   *)
StoreLevel(levels, p, orders) ==
    IF orders = <<>> THEN EraseLevel(levels, p) ELSE PutLevel(levels, p, orders)

(* Slip: the index entry is left behind.                                   *)
IndexEraseForgotten(id) == order_index

IndexErase(id) == [i \in DOMAIN order_index \ {id} |-> order_index[i]]

IndexPut(id, entry) ==
    [i \in DOMAIN order_index \cup {id} |-> IF i = id THEN entry ELSE order_index[i]]

-----------------------------------------------------------------------------
BookInit ==
    /\ book = [s \in Sides |-> NoLevels]
    /\ order_index = [i \in {} |-> [price |-> 0, side |-> "Buy"]]
    /\ next_timestamp = 0
    /\ incoming = NoOrder
    /\ fills = <<>>
    /\ returned = [op |-> "none", id |-> NoOrder, ok |-> FALSE]

(* submit, up to the call of matchBuy or matchSell.  A duplicate id        *)
(* returns at once with no fills.                                          *)
SubmitDuplicate(id) ==
    /\ incoming = NoOrder
    /\ contains(id)
    /\ returned' = [op |-> "submit", id |-> id, ok |-> FALSE]
    /\ UNCHANGED <<book, order_index, next_timestamp, incoming, fills>>

SubmitBegin(id, side, type, price, quantity) ==
    /\ incoming = NoOrder
    /\ next_timestamp <= MaxTimestamp
    /\ ~contains(id)
    /\ incoming' = [id |-> id, side |-> side, type |-> type, price_ticks |-> price,
                    quantity |-> quantity, timestamp |-> next_timestamp]
    /\ next_timestamp' = next_timestamp + 1
    /\ UNCHANGED <<book, order_index, fills, returned>>

(* Slip: strict comparisons.                                               *)
CrossesStrictly(order, price) ==
    \/ order.type = "Market"
    \/ IF order.side = "Buy" THEN order.price_ticks > price
                             ELSE order.price_ticks < price

Crosses(order, price) ==
    \/ order.type = "Market"
    \/ IF order.side = "Buy" THEN order.price_ticks >= price
                             ELSE order.price_ticks <= price

(* The condition under which the matching loop makes another trade.        *)
CanMatch ==
    LET other == Opposite(incoming.side) IN
    /\ incoming.quantity > 0
    /\ DOMAIN book[other] # {}
    /\ Crosses(incoming, BestPrice(other))

(* Slip: std::max for std::min.                                            *)
SmallerIsLarger(m, n) == IF m < n THEN n ELSE m

Smaller(m, n) == IF m < n THEN m ELSE n

(* The level's queue after its front order lost `traded'.                  *)
AfterTrade(orders, traded) ==
    IF orders[1].quantity = traded
    THEN Tail(orders)
    ELSE [orders EXCEPT ![1].quantity = orders[1].quantity - traded]

(* One iteration of the matching loop: the front order of the best level   *)
(* trades, leaves the book and the index if it is used up, and its level   *)
(* is erased if it was the last one there.                                 *)
MatchOne ==
    /\ incoming # NoOrder
    /\ CanMatch
    /\ LET other   == Opposite(incoming.side)
           price   == BestPrice(other)
           orders  == book[other][price]
           resting == orders[1]
           traded  == Smaller(incoming.quantity, resting.quantity)
       IN  /\ fills' = Append(fills, [resting_order_id  |-> resting.id,
                                      incoming_order_id |-> incoming.id,
                                      resting_side      |-> other,
                                      price_ticks       |-> price,
                                      quantity          |-> traded,
                                      timestamp         |-> next_timestamp])
           /\ next_timestamp' = next_timestamp + 1
           /\ incoming' = [incoming EXCEPT !.quantity = incoming.quantity - traded]
           /\ book' = [book EXCEPT ![other] =
                           StoreLevel(book[other], price, AfterTrade(orders, traded))]
           /\ order_index' = IF resting.quantity = traded THEN IndexErase(resting.id)
                                                          ELSE order_index
           /\ UNCHANGED returned

(* try_emplace finds the level or makes an empty one.                      *)
QueueAt(levels, p) == IF p \in DOMAIN levels THEN levels[p] ELSE <<>>

(* Slip: the type of the order is not looked at.                           *)
RestsWhateverType(order) == order.quantity > 0

Rests(order) == order.quantity > 0 /\ order.type = "Limit"

(* Slip: submit only comes back when the order is used up.                 *)
ReturnWhenFilled ==
    /\ incoming # NoOrder /\ incoming.quantity = 0
    /\ returned' = [op |-> "submit", id |-> incoming.id, ok |-> TRUE]
    /\ incoming' = NoOrder
    /\ fills' = <<>>
    /\ UNCHANGED <<book, order_index, next_timestamp>>

(* The matching loop has ended: the remainder of a limit order rests, that *)
(* of a market order is dropped, and submit returns.                       *)
Return ==
    /\ incoming # NoOrder
    /\ ~CanMatch
    /\ IF Rests(incoming)
       THEN LET s == incoming.side
                p == incoming.price_ticks
            IN  /\ book' = [book EXCEPT ![s] =
                                PutLevel(book[s], p, Append(QueueAt(book[s], p), incoming))]
                /\ order_index' = IndexPut(incoming.id, [price |-> p, side |-> s])
       ELSE UNCHANGED <<book, order_index>>
    /\ returned' = [op |-> "submit", id |-> incoming.id, ok |-> TRUE]
    /\ incoming' = NoOrder
    /\ fills' = <<>>
    /\ UNCHANGED next_timestamp

(* find_if: the first position in the queue that holds the id.             *)
Positions(orders, id) == {i \in 1..Len(orders) : orders[i].id = id}

(* Slip: erase by swapping with the last element.                          *)
RemoveBySwap(orders, i) ==
    SubSeq([orders EXCEPT ![i] = orders[Len(orders)]], 1, Len(orders) - 1)

RemoveAtPosition(orders, i) == SubSeq(orders, 1, i - 1) \o SubSeq(orders, i + 1, Len(orders))

(* The positions cancel finds for the id: none if the id is not in the     *)
(* index, if its level is gone, or if the level does not hold it.          *)
Located(id) ==
    IF contains(id)
    THEN Positions(QueueAt(book[order_index[id].side], order_index[id].price), id)
    ELSE {}

(* cancel finds the order: it is erased from its level, an empty level is  *)
(* erased from the ladder, and the id is erased from the index.            *)
CancelFound(id) ==
    /\ incoming = NoOrder
    /\ Located(id) # {}
    /\ LET side  == order_index[id].side
           price == order_index[id].price
           i     == CHOOSE k \in Located(id) : \A j \in Located(id) : k <= j
       IN  book' = [book EXCEPT ![side] =
                        StoreLevel(book[side], price, RemoveAtPosition(book[side][price], i))]
    /\ order_index' = IndexErase(id)
    /\ returned' = [op |-> "cancel", id |-> id, ok |-> TRUE]
    /\ UNCHANGED <<next_timestamp, incoming, fills>>

CancelNotFound(id) ==
    /\ incoming = NoOrder
    /\ Located(id) = {}
    /\ returned' = [op |-> "cancel", id |-> id, ok |-> FALSE]
    /\ UNCHANGED <<book, order_index, next_timestamp, incoming, fills>>

BookNext ==
    \/ \E id \in OrderIds, side \in Sides, type \in OrderTypes, price \in Prices,
          quantity \in Quantities : SubmitBegin(id, side, type, price, quantity)
    \/ \E id \in OrderIds : SubmitDuplicate(id)
    \/ MatchOne
    \/ Return
    \/ \E id \in OrderIds : CancelFound(id)
    \/ \E id \in OrderIds : CancelNotFound(id)

(* submit is a function call on one thread: once begun it runs to its end. *)
BookSpec == BookInit /\ [][BookNext]_bookVars /\ WF_bookVars(MatchOne) /\ WF_bookVars(Return)

-----------------------------------------------------------------------------
(* Properties. *)

(* The types of the containers of OrderBook (order_book.hpp, lines 53-61)  *)
(* and of the local variables of submit.                                   *)
BookTypeOK ==
    /\ DOMAIN book = Sides
    /\ \A s \in Sides : /\ DOMAIN book[s] \subseteq Prices
                        /\ \A p \in DOMAIN book[s] : book[s][p] \in Seq(Order)
    /\ DOMAIN order_index \subseteq OrderIds
    /\ \A id \in DOMAIN order_index : order_index[id] \in [price : Prices, side : Sides]
    /\ next_timestamp \in Nat
    /\ incoming \in Order \cup {NoOrder}
    /\ fills \in Seq(Fill)
    /\ returned \in Reply

(* An empty price level never stays in a ladder, so that begin() of the    *)
(* ladder always has an order to trade with or to quote: matchBuy and      *)
(* matchSell erase the level they empty, and so does cancel.               *)
NoEmptyLevel == \A s \in Sides : \A p \in DOMAIN book[s] : book[s][p] # <<>>

(* Every queued order is in order_index_ under the very level it is queued *)
(* in, is queued once, and still has quantity left...                      *)
QueuedIsIndexed ==
    \A s \in Sides : \A p \in DOMAIN book[s] : \A i \in 1..Len(book[s][p]) :
        /\ contains(book[s][p][i].id)
        /\ order_index[book[s][p][i].id] = [price |-> p, side |-> s]
        /\ \A j \in 1..Len(book[s][p]) :
              book[s][p][j].id = book[s][p][i].id => j = i

(* ... and every indexed id is queued: cancel's three return-false paths   *)
(* reduce to the first one, and contains() tells what is resting.          *)
IndexedIsQueued == \A id \in DOMAIN order_index : Located(id) # {}

IndexMatchesBook == QueuedIsIndexed /\ IndexedIsQueued

(* A resting order is a limit order with quantity left, in the level of    *)
(* its own price and side.                                                 *)
RestingIsLive ==
    \A s \in Sides : \A p \in DOMAIN book[s] : \A i \in 1..Len(book[s][p]) :
        LET o == book[s][p][i]
        IN  o.quantity > 0 /\ o.type = "Limit" /\ o.price_ticks = p /\ o.side = s

(* The book is never crossed: every bid is below every ask, in the middle  *)
(* of a submit as well as between calls.                                   *)
BookNotCrossed ==
    \A b \in DOMAIN book["Buy"], a \in DOMAIN book["Sell"] : b < a

(* Time priority within a level: the queue is in order of arrival, and     *)
(* every resting order arrived before the one now being matched, however   *)
(* submits, partial fills and cancels were interleaved.                    *)
TimePriority ==
    \A s \in Sides : \A p \in DOMAIN book[s] : \A i \in 1..Len(book[s][p]) :
        /\ book[s][p][i].timestamp < next_timestamp
        /\ incoming # NoOrder => book[s][p][i].timestamp < incoming.timestamp
        /\ \A j \in 1..Len(book[s][p]) :
              i < j => book[s][p][i].timestamp < book[s][p][j].timestamp

(* The matching loop ends: every submit that begins returns.               *)
SubmitReturns == (incoming # NoOrder) ~> (incoming = NoOrder)

-----------------------------------------------------------------------------
(* The orders resting in the book, as a set.                               *)
RestingOrders ==
    UNION {UNION {{book[s][p][i] : i \in 1..Len(book[s][p])} : p \in DOMAIN book[s]} : s \in Sides}

(* The book implements price-time priority over a plain set of orders.     *)
Abstract == INSTANCE PriceTimePriority
                WITH resting <- RestingOrders, clock <- next_timestamp,
                     taker <- incoming, trades <- fills, reply <- returned

(* Every step of submit and cancel is a step of PriceTimePriority: each    *)
(* fill is with the counter-order of best price and earliest arrival,      *)
(* cancel answers true exactly for a resting id and removes that order and *)
(* no other, and an accepted order rests exactly when it should.           *)
ImplementsPriceTimePriority == Abstract!Spec
=============================================================================

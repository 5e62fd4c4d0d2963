-------------------------- MODULE QuotingSession --------------------------
(***************************************************************************)
(* A trading session of strategy/orderbook_client: FixedOffsetQuoter       *)
(* (strategy.py) driven by run_strategy_loop (session_runner.py) through   *)
(* OrderBookClient (client.py), on the order book of OrderBook.            *)
(*                                                                         *)
(* Three threads are at work: the session's main thread, the client's      *)
(* reader thread, which decodes the bytes of the socket into a queue of    *)
(* events, and the server, which here takes the requests of the connection *)
(* one by one and answers them as dispatch_new_order and dispatch_cancel   *)
(* do.  Orders of other participants arrive at the book at any time.  The  *)
(* bytes are those of WireProtocol.  The trade log, which nothing in the   *)
(* session reads, is left to HedgeSession.                                 *)
(***************************************************************************)
EXTENDS OrderBook, FiniteSets, WireProtocol, Sifting

CONSTANTS
    Offset,         \* offset_ticks
    Size,           \* size of every quote
    FeedPrices,     \* prices the feed may give
    MaxTicks,       \* max_ticks
    Others,         \* the orders other participants may submit, once each
    NoQuote         \* None

ASSUME SessionAssumption ==
    /\ Offset \in Nat /\ Size \in Quantities \ {0} /\ MaxTicks \in Nat
    /\ \A p \in FeedPrices : p \in Int /\ p - Offset \in Prices /\ p + Offset \in Prices
    /\ \A o \in Others : /\ o.id \in OrderIds /\ o.side \in Sides /\ o.type \in OrderTypes
                         /\ o.price \in Prices /\ o.quantity \in Quantities

OtherIds == {o.id : o \in Others}

(* The session has ids of its own, two for each tick.                      *)
ASSUME OwnIdsAssumption == 1..(2 * MaxTicks) \subseteq OrderIds \ OtherIds

(* Everything fits its field.  The clock stamps a submit and each fill; a  *)
(* fill ends the submit or uses up an order that came with a stamp, so     *)
(* that there are at most as many fills as submits.                        *)
ASSUME FieldsAssumption ==
    /\ OrderIds \subseteq UnsignedRange(LongBytes)
    /\ Prices \subseteq SignedRange(LongBytes)
    /\ Quantities \subseteq UnsignedRange(QuantityBytes)
    /\ 0..(2 * MaxTimestamp) \subseteq UnsignedRange(LongBytes)

ASSUME NoQuoteAssumption == NoQuote \notin [id : OrderIds, price : Prices]

VARIABLES
    quote,      \* _resting_buy and _resting_sell: [id, price] or NoQuote
    next_id,    \* _ids
    ticks_done,
    pc,         \* the main thread: "tick", "send", "poll", "final" or "closed"
    actions,    \* what on_price returned and is still to be sent
    to_server,  \* the bytes of the requests written to the socket
    to_client,  \* the bytes the server has written and nobody has read
    reader,     \* the reader thread: at the "tag", the "payload", or "dead"
    tag_byte,   \* the tag it has read
    events,     \* the client's queue
    others      \* orders of others that have not been submitted

sessionVars == <<quote, next_id, ticks_done, pc, actions>>
readerVars  == <<reader, tag_byte>>
wireVars    == <<to_server, to_client, readerVars, events, others>>
vars        == <<bookVars, sessionVars, wireVars>>

OrderRequest(id, side, price) ==
    [tag |-> "NewOrder", client_order_id |-> id, side |-> side, order_type |-> "Limit",
     price_ticks |-> price, quantity |-> Size]
CancelRequest(id) == [tag |-> "Cancel", client_order_id |-> id]

AckMsg(id, request_type, status) ==
    [tag |-> "Ack", client_order_id |-> id, request_type |-> request_type, status |-> status]
FillMsg(f) ==
    [tag |-> "Fill", resting_order_id |-> f.resting_order_id,
     incoming_order_id |-> f.incoming_order_id, resting_side |-> f.resting_side,
     price_ticks |-> f.price_ticks, quantity |-> f.quantity, timestamp |-> f.timestamp]

-----------------------------------------------------------------------------
(* FixedOffsetQuoter. *)

TargetPrice(side, price) == IF side = "Buy" THEN price - Offset ELSE price + Offset

(* The side has no quote, or not at the right price.                       *)
Drifted(side, price) == quote[side] = NoQuote \/ quote[side].price # TargetPrice(side, price)

(* The sides to be quoted anew, buy first...                               *)
Requoted(price) == Sift(<<"Buy", "Sell">>, {side \in Sides : Drifted(side, price)})

(* Slip: ids count from zero.                                              *)
NewIdFromZero(side, price) ==
    IF side = "Sell" /\ Drifted("Buy", price) THEN next_id ELSE next_id - 1

(* ... and the id each of them gets.                                       *)
NewId(side, price) == IF side = "Sell" /\ Drifted("Buy", price) THEN next_id + 1 ELSE next_id

NewOrders(price) ==
    [i \in 1..Len(Requoted(price)) |->
        LET side == Requoted(price)[i]
        IN  OrderRequest(NewId(side, price), side, TargetPrice(side, price))]

(* Slip: only the first drifted side's stale order is cancelled.           *)
CancelsFirstOnly(price) ==
    LET stale == Sift(Requoted(price), {side \in Sides : quote[side] # NoQuote})
    IN  [i \in 1..(IF stale = <<>> THEN 0 ELSE 1) |-> CancelRequest(quote[stale[i]].id)]

Cancels(price) ==
    LET stale == Sift(Requoted(price), {side \in Sides : quote[side] # NoQuote})
    IN  [i \in 1..Len(stale) |-> CancelRequest(quote[stale[i]].id)]

(* Slip: only the buy is looked at.                                        *)
on_fills_of_buy(batch) ==
    [side \in Sides |->
        IF side = "Buy" /\ quote[side] # NoQuote
           /\ \E i \in 1..Len(batch) : /\ batch[i].tag = "Fill"
                                       /\ batch[i].resting_order_id = quote[side].id
        THEN NoQuote ELSE quote[side]]

(* The quotes after on_fill of each fill among some events.                *)
on_fills(batch) ==
    [side \in Sides |->
        IF quote[side] # NoQuote
           /\ \E i \in 1..Len(batch) : /\ batch[i].tag = "Fill"
                                       /\ batch[i].resting_order_id = quote[side].id
        THEN NoQuote ELSE quote[side]]

-----------------------------------------------------------------------------
(* The main thread: run_strategy_loop. *)

(* A price comes from the feed and on_price decides what to send.          *)
Tick(price) ==
    /\ pc = "tick" /\ ticks_done < MaxTicks
    /\ ticks_done' = ticks_done + 1
    /\ actions' = NewOrders(price) \o Cancels(price)
    /\ quote' = [side \in Sides |->
                    IF Drifted(side, price)
                    THEN [id |-> NewId(side, price), price |-> TargetPrice(side, price)]
                    ELSE quote[side]]
    /\ next_id' = next_id + Len(Requoted(price))
    /\ pc' = "send"
    /\ UNCHANGED <<bookVars, wireVars>>

(* max_ticks is reached, or the feed is at its end.                        *)
LoopEnds ==
    /\ pc = "tick"
    /\ pc' = "final"
    /\ UNCHANGED <<quote, next_id, ticks_done, actions, bookVars, wireVars>>

(* submit_limit or cancel.                                                 *)
Send ==
    /\ pc = "send" /\ actions # <<>>
    /\ LET a == Head(actions)
       IN  to_server' = to_server \o (IF a.tag = "NewOrder" THEN encode_new_order(a)
                                                           ELSE encode_cancel(a))
    /\ actions' = Tail(actions)
    /\ UNCHANGED <<quote, next_id, ticks_done, pc, bookVars, to_client, readerVars, events, others>>

(* The socket is broken: sendall raises, and only the finally clause runs. *)
SendRaises ==
    /\ pc = "send" /\ actions # <<>>
    /\ pc' = "closed"
    /\ UNCHANGED <<quote, next_id, ticks_done, actions, bookVars, wireVars>>

SendDone ==
    /\ pc = "send" /\ actions = <<>>
    /\ pc' = "poll"
    /\ UNCHANGED <<quote, next_id, ticks_done, actions, bookVars, wireVars>>

(* poll_events returns what is in the queue, and drain passes the fills to *)
(* the strategy.                                                           *)
PollEvents ==
    /\ pc \in {"poll", "final"} /\ events # <<>>
    /\ quote' = on_fills(events)
    /\ events' = <<>>
    /\ pc' = IF pc = "poll" THEN "tick" ELSE "final"
    /\ UNCHANGED <<next_id, ticks_done, actions, bookVars, to_server, to_client, readerVars, others>>

(* Slip: the final drain takes no notice of an empty answer.               *)
PollTimesOutForEver ==
    /\ pc \in {"poll", "final"} /\ events = <<>>
    /\ pc' = IF pc = "poll" THEN "tick" ELSE "final"
    /\ UNCHANGED <<quote, next_id, ticks_done, actions, bookVars, wireVars>>

(* The timeout passes with nothing in the queue.  It ends the final drain, *)
(* and close() follows.                                                    *)
PollTimesOut ==
    /\ pc \in {"poll", "final"} /\ events = <<>>
    /\ pc' = IF pc = "poll" THEN "tick" ELSE "closed"
    /\ UNCHANGED <<quote, next_id, ticks_done, actions, bookVars, wireVars>>

-----------------------------------------------------------------------------
(* The reader thread: _read_loop.  Its _recv_exact waits until as many     *)
(* bytes are there as it asks for.  When the connection ends, _recv_exact  *)
(* returns None and the thread returns without telling anybody: from then  *)
(* on the reader takes no step, which nothing here obliges it to.          *)

(* A tag is read; one without a size ends the thread.                      *)
ReadTag ==
    /\ pc # "closed" /\ reader = "tag" /\ to_client # <<>>
    /\ tag_byte' = Head(to_client)
    /\ reader' = IF tag_byte' \in DOMAIN PAYLOAD_SIZE THEN "payload" ELSE "dead"
    /\ to_client' = Tail(to_client)
    /\ UNCHANGED <<bookVars, sessionVars, to_server, events, others>>

(* The payload of the tag is read, decoded and put into the queue; the     *)
(* exception for a tag that only clients send would end the thread.        *)
ReadPayload ==
    /\ pc # "closed" /\ reader = "payload"
    /\ LET size == PAYLOAD_SIZE[tag_byte]
       IN  /\ Len(to_client) >= size
           /\ to_client' = SubSeq(to_client, size + 1, Len(to_client))
           /\ IF tag_byte \in {FILL, ACK}
              THEN /\ events' = Append(events, decode_event(tag_byte, SubSeq(to_client, 1, size)))
                   /\ reader' = "tag"
              ELSE /\ reader' = "dead"
                   /\ UNCHANGED events
    /\ UNCHANGED <<bookVars, sessionVars, to_server, tag_byte, others>>

-----------------------------------------------------------------------------
(* The server and the other participants. *)

(* A complete message of the given tag is the next one of the connection.  *)
Requested(tag) == /\ incoming = NoOrder
                  /\ to_server # <<>> /\ Head(to_server) = tag
                  /\ Len(to_server) > kMsgSize[tag]
Body(tag)      == SubSeq(to_server, 2, kMsgSize[tag] + 1)
Rest(tag)      == SubSeq(to_server, kMsgSize[tag] + 2, Len(to_server))

ServeNewOrder ==
    /\ Requested(NEW_ORDER)
    /\ LET m == decode_client_order(Body(NEW_ORDER))
       IN  SubmitBegin(m.client_order_id, m.side, m.order_type, m.price_ticks, m.quantity)
    /\ to_server' = Rest(NEW_ORDER)
    /\ UNCHANGED <<sessionVars, to_client, readerVars, events, others>>

CancelAck(id) == AckMsg(id, CANCEL, IF Located(id) # {} THEN 0 ELSE 1)

ServeCancel ==
    /\ Requested(CANCEL)
    /\ LET id == decode_cancel(Body(CANCEL)).client_order_id
       IN  /\ CancelFound(id) \/ CancelNotFound(id)
           /\ to_client' = to_client \o encode_ack(CancelAck(id))
    /\ to_server' = Rest(CANCEL)
    /\ UNCHANGED <<sessionVars, readerVars, events, others>>

Trade ==
    /\ MatchOne
    /\ UNCHANGED <<sessionVars, wireVars>>

Own(id) == id \notin OtherIds

(* The fills of the current submit that the session is party to.           *)
OwnFills == LET mine == Sift(fills, {f \in ToSet(fills) : Own(incoming.id) \/ Own(f.resting_order_id)})
            IN  [i \in 1..Len(mine) |-> FillMsg(mine[i])]

(* submit returns: an ack to the session if the order is its own, and then *)
(* the fills it is party to.                                               *)
Answer ==
    /\ Return
    /\ to_client' = to_client
          \o (IF Own(incoming.id) THEN encode_ack(AckMsg(incoming.id, NEW_ORDER, 0)) ELSE <<>>)
          \o FlattenSeq([i \in 1..Len(OwnFills) |-> encode_fill(OwnFills[i])])
    /\ UNCHANGED <<sessionVars, to_server, readerVars, events, others>>

(* The order of another participant reaches the book.                      *)
OtherSubmits(o) ==
    /\ o \in others
    /\ SubmitBegin(o.id, o.side, o.type, o.price, o.quantity)
    /\ others' = others \ {o}
    /\ UNCHANGED <<sessionVars, to_server, to_client, readerVars, events>>

-----------------------------------------------------------------------------
SessionInit ==
    /\ BookInit
    /\ quote = [side \in Sides |-> NoQuote]
    /\ next_id = 1
    /\ ticks_done = 0
    /\ pc = "tick"
    /\ actions = <<>>
    /\ to_server = <<>>
    /\ to_client = <<>>
    /\ reader = "tag"
    /\ tag_byte = 0
    /\ events = <<>>
    /\ others = Others

MainStep ==
    \/ \E price \in FeedPrices : Tick(price)
    \/ LoopEnds
    \/ Send
    \/ SendDone
    \/ PollEvents
    \/ PollTimesOut

ReaderStep == ReadTag \/ ReadPayload

ServerStep ==
    \/ ServeNewOrder
    \/ ServeCancel
    \/ Trade
    \/ Answer

SessionNext ==
    \/ MainStep
    \/ SendRaises
    \/ ReaderStep
    \/ ServerStep
    \/ \E o \in Others : OtherSubmits(o)

(* The main thread keeps running, and a submit, a call on the server's     *)
(* thread.  The connection may be lost at any time, and with it the reader *)
(* thread and the requests that the server has not read.                   *)
SessionSpec == SessionInit /\ [][SessionNext]_vars
                 /\ WF_vars(MainStep) /\ WF_vars(Trade \/ Answer)

-----------------------------------------------------------------------------
(* Properties. *)

(* The types of the session's state and of what is on the wire.            *)
SessionTypeOK ==
    /\ quote \in [Sides -> [id : OrderIds, price : Prices] \cup {NoQuote}]
    /\ next_id \in Nat
    /\ pc \in {"tick", "send", "poll", "final", "closed"}
    /\ \A i \in 1..Len(actions) : actions[i].client_order_id \in OrderIds \ OtherIds
    /\ reader \in {"tag", "payload", "dead"}
    /\ others \subseteq Others

OwnResting == {id \in DOMAIN order_index : Own(id)}
Quoted     == {quote[side].id : side \in {s \in Sides : quote[s] # NoQuote}}

(* The ids whose cancel is decided on but has not reached the book.        *)
CancelPending ==
    LET sent == Frames(to_server)
    IN  {a.client_order_id : a \in {b \in Range(actions) : b.tag = "Cancel"}}
          \cup {decode_cancel(Tail(m)).client_order_id : m \in {b \in Range(sent) : Head(b) = CANCEL}}

(* No quote is orphaned: while the session runs, every order it has in the *)
(* book is one the quoter knows of or has a cancel on its way, however far *)
(* the book and the events lag behind.                                     *)
NoOrphanedQuote == pc # "closed" => OwnResting \subseteq Quoted \cup CancelPending

(* The session is between two ticks and everything has been answered.      *)
Quiet == /\ pc = "tick" /\ to_server = <<>> /\ incoming = NoOrder
         /\ to_client = <<>> /\ reader = "tag" /\ events = <<>>

(* The session ends: neither the loop nor the final drain runs for ever,   *)
(* whether or not the server answers and the reader thread lives.          *)
SessionCloses == <>(pc = "closed")
=============================================================================

--------------------------- MODULE HedgeSession ----------------------------
(***************************************************************************)
(* A delta-hedging backtest: DeltaHedger (delta_hedger.py) on a book of    *)
(* options (options.py) priced by the pricing server (pricing_client.py),  *)
(* driven by run_hedge_backtest (run_delta_hedge_backtest.py) through an   *)
(* OrderBookClient (client.py), with the trade log (trade_log.py) from     *)
(* which BacktestReport computes the result.                               *)
(*                                                                         *)
(* The main thread prices, decides, sends and drains; the client's reader  *)
(* thread fills its queue of events; the order book server answers in its  *)
(* own time.  A companion quoter trades on the same book over a connection *)
(* of its own, and numbers its orders from 1 as the hedger does.           *)
(*                                                                         *)
(* The matching engine is here what the hedger sees of it.  The series of  *)
(* hedge errors and of P&L that HedgeReport averages are left out, as the  *)
(* session only records them.                                              *)
(***************************************************************************)
EXTENDS BacktestReport

CONSTANTS
    LegQuantities,  \* the option legs: their quantities, in order
    LegDeltas,      \* deltas the pricing server may give for a leg
    HedgeBand,      \* hedge_band_contracts
    MaxTicks,       \* ticks
    FillPrices,     \* prices at which the hedger's orders execute
    MaxPieces,      \* bound: the fills one order may come in
    MaxQuoterIds    \* bound: the ids the companion quoter uses

ASSUME HedgeAssumption ==
    /\ HedgeBand \in Nat /\ MaxTicks \in Nat /\ FillPrices \subseteq Int
    /\ MaxPieces \in Nat /\ MaxQuoterIds \in Nat
    /\ LegQuantities \in Seq(Int)
    /\ \A d \in LegDeltas : d.num \in Int /\ d.den \in Nat \ {0}

VARIABLES
    position,       \* _current_futures_position
    next_id,        \* _ids
    my_order_ids,   \* _my_order_ids
    target,         \* what the last on_price hedged toward
    ticks_done,
    pc,             \* the main thread: "connect", "tick", "send", "poll",
                    \* "final" or "closed"
    actions,        \* what on_price returned and is still to be sent
    log,            \* TradeLog
    to_server,      \* orders written to the socket
    to_client,      \* messages the server has written
    events,         \* the client's queue
    quoter_ids,     \* the companion's orders that are in the book
    quoter_next,    \* the companion's next id
    executed        \* the net quantity the hedger's orders have traded

hedgerVars == <<position, next_id, my_order_ids, target>>
mainVars   == <<ticks_done, pc, actions, log>>
wireVars   == <<to_server, to_client, events>>
marketVars == <<quoter_ids, quoter_next, executed>>
vars       == <<hedgerVars, mainVars, wireVars, marketVars>>

-----------------------------------------------------------------------------
(* The messages and the rows of the log. *)

AckEvent(id, status) == [tag |-> "Ack", client_order_id |-> id, status |-> status]

FillEvent(id, resting_side, price, quantity) ==
    [tag |-> "Fill", incoming_order_id |-> id, resting_side |-> resting_side,
     price_ticks |-> price, quantity |-> quantity]

Opposite(side) == IF side = "Buy" THEN "Sell" ELSE "Buy"

incoming_side(event) == Opposite(event.resting_side)

SentRow(o) == [event |-> "order_sent", order_id |-> o.order_id, side |-> o.side, qty |-> o.quantity]

(* The row that drain logs for an event.                                   *)
EventRow(event) ==
    IF event.tag = "Ack"
    THEN [event |-> "ack", order_id |-> event.client_order_id, status |-> event.status]
    ELSE [event |-> "fill", incoming_id |-> event.incoming_order_id,
          incoming_side |-> incoming_side(event), price_ticks |-> event.price_ticks,
          qty |-> event.quantity]

(* Slip: the newest event is logged first.                                 *)
NewestFirst(batch) == Reverse([i \in 1..Len(batch) |-> EventRow(batch[i])])

EventRows(batch) == [i \in 1..Len(batch) |-> EventRow(batch[i])]

-----------------------------------------------------------------------------
(* OptionBook and DeltaHedger. *)

(* The sum over the legs of delta times quantity.                          *)
aggregate_delta(deltas) ==
    LET Sum[i \in 0..Len(LegQuantities)] ==
            IF i = 0 THEN Fraction(0, 1)
            ELSE LET sum == Sum[i - 1]
                     d   == deltas[i]
                 IN  Fraction(sum.num * d.den + LegQuantities[i] * d.num * sum.den, sum.den * d.den)
    IN  Sum[Len(LegQuantities)]

TargetPosition(deltas) ==
    LET d == aggregate_delta(deltas) IN Round([num |-> -d.num, den |-> d.den])

(* The positions the options may call for.                                 *)
Targets == {TargetPosition(deltas) : deltas \in [1..Len(LegQuantities) -> LegDeltas]}

HedgeError(new_target) == position - new_target

(* Slip: the hedge is made in the direction of the error.                  *)
HedgeWithError(hedge_error) ==
    [order_id |-> next_id, side |-> IF hedge_error > 0 THEN "Buy" ELSE "Sell",
     quantity |-> Abs(hedge_error)]

(* Slip: the sign is not taken off.                                        *)
HedgeSigned(hedge_error) ==
    [order_id |-> next_id, side |-> IF hedge_error > 0 THEN "Sell" ELSE "Buy",
     quantity |-> hedge_error]

(* The market order against a hedge error.                                 *)
HedgeOrder(hedge_error) ==
    [order_id |-> next_id, side |-> IF hedge_error > 0 THEN "Sell" ELSE "Buy",
     quantity |-> Abs(hedge_error)]

(* The signed quantity that an event, and that some events, bring the      *)
(* hedger.                                                                 *)
EventQuantity(event, ids) ==
    IF event.tag = "Fill" /\ event.incoming_order_id \in ids
    THEN Signed(incoming_side(event), event.quantity) ELSE 0

FilledQuantity(batch, ids) == Total([i \in 1..Len(batch) |-> EventQuantity(batch[i], ids)])

(* Slip: one fill is taken to be all that an order gets.                   *)
FirstFillOnly(batch) ==
    LET first == SelectInSeq(batch, LAMBDA m : m.tag = "Fill")
    IN  IF first = 0 THEN position
        ELSE position + FilledQuantity(<< batch[first] >>, my_order_ids)

(* The position after on_fill for each fill of a batch.                    *)
PositionAfter(batch) == position + FilledQuantity(batch, my_order_ids)

-----------------------------------------------------------------------------
(* The main thread: run_hedge_backtest. *)

MainGoes(to) ==
    /\ pc' = to
    /\ UNCHANGED <<hedgerVars, ticks_done, actions, log, wireVars, marketVars>>

(* The companion quoter's thread is running; the pricing server and the    *)
(* order book server accept the connections...                             *)
Connect == pc = "connect" /\ MainGoes("tick")

(* ... or one of them does not, and the exception ends the backtest.       *)
ConnectRaises == pc = "connect" /\ MainGoes("closed")

(* The hedge error is within the band: nothing is sent.                    *)
WithinBand(new_target) ==
    /\ pc = "tick" /\ ticks_done < MaxTicks
    /\ Abs(HedgeError(new_target)) <= HedgeBand
    /\ target' = new_target
    /\ ticks_done' = ticks_done + 1
    /\ pc' = "send"
    /\ UNCHANGED <<position, next_id, my_order_ids, actions, log, wireVars, marketVars>>

Rehedge(new_target) ==
    /\ pc = "tick" /\ ticks_done < MaxTicks
    /\ Abs(HedgeError(new_target)) > HedgeBand
    /\ target' = new_target
    /\ actions' = << HedgeOrder(HedgeError(new_target)) >>
    /\ my_order_ids' = my_order_ids \cup {next_id}
    /\ next_id' = next_id + 1
    /\ ticks_done' = ticks_done + 1
    /\ pc' = "send"
    /\ UNCHANGED <<position, log, wireVars, marketVars>>

(* The pricing server closes the connection or answers with another tag:   *)
(* price() raises, and only the finally clause runs.                       *)
PricingRaises == pc = "tick" /\ ticks_done < MaxTicks /\ MainGoes("closed")

LoopEnds == pc = "tick" /\ ticks_done = MaxTicks /\ MainGoes("final")

(* submit_market, and then the row of the log.                             *)
Send ==
    /\ pc = "send" /\ actions # <<>>
    /\ to_server' = Append(to_server, Head(actions))
    /\ log' = Append(log, SentRow(Head(actions)))
    /\ actions' = Tail(actions)
    /\ UNCHANGED <<hedgerVars, ticks_done, pc, to_client, events, marketVars>>

(* The socket is broken: sendall raises.                                   *)
SendRaises == pc = "send" /\ actions # <<>> /\ MainGoes("closed")

SendDone == pc = "send" /\ actions = <<>> /\ MainGoes("poll")

(* poll_events returns what is in the queue, and drain logs it and passes  *)
(* the fills to the hedger.                                                *)
PollEvents ==
    /\ pc \in {"poll", "final"} /\ events # <<>>
    /\ log' = log \o EventRows(events)
    /\ position' = PositionAfter(events)
    /\ events' = <<>>
    /\ pc' = IF pc = "poll" THEN "tick" ELSE "final"
    /\ UNCHANGED <<next_id, my_order_ids, target, ticks_done, actions, to_server, to_client,
                   marketVars>>

(* Slip: the final drain takes no notice of an empty answer.               *)
PollTimesOutForEver ==
    /\ pc \in {"poll", "final"} /\ events = <<>>
    /\ MainGoes(IF pc = "poll" THEN "tick" ELSE "final")

(* The timeout passes with nothing in the queue.  It ends the final drain, *)
(* and the finally clause closes the connections and waits at most five    *)
(* seconds for the quoter's thread.                                        *)
PollTimesOut ==
    /\ pc \in {"poll", "final"} /\ events = <<>>
    /\ MainGoes(IF pc = "poll" THEN "tick" ELSE "closed")

-----------------------------------------------------------------------------
(* The reader thread: _read_loop. *)

Read ==
    /\ pc # "closed" /\ to_client # <<>>
    /\ events' = Append(events, Head(to_client))
    /\ to_client' = Tail(to_client)
    /\ UNCHANGED <<hedgerVars, mainVars, to_server, marketVars>>

-----------------------------------------------------------------------------
(* The order book server and the companion quoter. *)

(* An order whose id is in the book is rejected.                           *)
ServeReject ==
    /\ to_server # <<>> /\ Head(to_server).order_id \in quoter_ids
    /\ to_client' = Append(to_client, AckEvent(Head(to_server).order_id, 1))
    /\ to_server' = Tail(to_server)
    /\ UNCHANGED <<hedgerVars, mainVars, events, marketVars>>

(* The quantities in which an order may be filled: what the book does not  *)
(* have is not filled, as a market order does not rest.                    *)
Fillings(quantity) ==
    { f \in UNION { [1..n -> 1..quantity] : n \in 0..MaxPieces } : Total(f) <= quantity }

(* Any other order executes, in some fills, and perhaps in part.           *)
ServeExecute(f, price) ==
    /\ to_server # <<>> /\ Head(to_server).order_id \notin quoter_ids
    /\ LET o == Head(to_server)
       IN  /\ f \in Fillings(o.quantity)
           /\ f # <<>> => quoter_ids # {}
           /\ to_client' = to_client \o << AckEvent(o.order_id, 0) >>
                 \o [i \in 1..Len(f) |-> FillEvent(o.order_id, Opposite(o.side), price[i], f[i])]
           /\ executed' = executed + Signed(o.side, Total(f))
    /\ to_server' = Tail(to_server)
    /\ UNCHANGED <<hedgerVars, mainVars, events, quoter_ids, quoter_next>>

(* The companion places the next of its quotes...                          *)
QuoterQuotes ==
    /\ quoter_next <= MaxQuoterIds
    /\ quoter_ids' = quoter_ids \cup {quoter_next}
    /\ quoter_next' = quoter_next + 1
    /\ UNCHANGED <<hedgerVars, mainVars, wireVars, executed>>

(* ... and one of them is cancelled or executed.                           *)
QuoteLeaves(id) ==
    /\ id \in quoter_ids
    /\ quoter_ids' = quoter_ids \ {id}
    /\ UNCHANGED <<hedgerVars, mainVars, wireVars, quoter_next, executed>>

-----------------------------------------------------------------------------
HedgeInit ==
    /\ position = 0
    /\ next_id = 1
    /\ my_order_ids = {}
    /\ target = 0
    /\ ticks_done = 0
    /\ pc = "connect"
    /\ actions = <<>>
    /\ log = <<>>
    /\ to_server = <<>>
    /\ to_client = <<>>
    /\ events = <<>>
    /\ quoter_ids = {}
    /\ quoter_next = 1
    /\ executed = 0

(* The pricing server answers, and on_price decides.                       *)
PriceArrives == \E t \in Targets : WithinBand(t) \/ Rehedge(t)

(* What the main thread does by itself, or with a timeout.                 *)
MainStep ==
    \/ Connect
    \/ LoopEnds
    \/ Send
    \/ SendDone
    \/ PollEvents
    \/ PollTimesOut

MainRaises == ConnectRaises \/ PricingRaises \/ SendRaises

(* The ways the order at the head of the socket may be filled.             *)
Executions == IF to_server = <<>> THEN {} ELSE Fillings(Head(to_server).quantity)

ServerStep ==
    \/ ServeReject
    \/ \E f \in Executions : \E price \in [1..Len(f) -> FillPrices] : ServeExecute(f, price)

QuoterStep == QuoterQuotes \/ \E id \in quoter_ids : QuoteLeaves(id)

HedgeNext == PriceArrives \/ MainStep \/ MainRaises \/ Read \/ ServerStep \/ QuoterStep

(* Only the main thread is sure to go on.  PricingClient.price waits in    *)
(* recv without a timeout, so that no price may ever arrive; the reader    *)
(* thread ends when its connection does, which is a reader that takes no   *)
(* further step; the order book server and the quoter owe nothing.         *)
HedgeSpec == HedgeInit /\ [][HedgeNext]_vars /\ WF_vars(MainStep)

-----------------------------------------------------------------------------
(* Properties. *)

(* The types of the hedger's state, and of the session's.                  *)
HedgeTypeOK ==
    /\ position \in Int /\ target \in Int /\ executed \in Int
    /\ my_order_ids = 1..(next_id - 1)
    /\ ticks_done \in 0..MaxTicks
    /\ pc \in {"connect", "tick", "send", "poll", "final", "closed"}
    /\ \A i \in 1..Len(actions) : actions[i].side \in TradeSides /\ actions[i].quantity > HedgeBand
    /\ quoter_ids \subseteq 1..MaxQuoterIds

(* The hedger's position is what its orders have traded but for the fills  *)
(* still on their way to it: no fill of a rejected, partly filled or       *)
(* piecewise filled order is lost or counted twice.                        *)
PositionLagsFills ==
    executed = position + FilledQuantity(events \o to_client, my_order_ids)

(* Places of the log.                                                      *)
SentAt(id)  == {i \in 1..Len(log) : log[i].event = "order_sent" /\ log[i].order_id = id}
AckedAt(id) == {i \in 1..Len(log) : log[i].event = "ack" /\ log[i].order_id = id}

(* The log tells each order's story in order, whatever the threads'        *)
(* timing: a row for the sending, then at most one for the ack, and only   *)
(* after an ack of acceptance the fills.                                   *)
LogIsCausal ==
    \A i \in 1..Len(log) :
        /\ log[i].event = "ack" => \E s \in SentAt(log[i].order_id) : s < i
        /\ log[i].event = "ack" => AckedAt(log[i].order_id) = {i}
        /\ log[i].event = "fill" =>
              \E a \in AckedAt(log[i].incoming_id) : a < i /\ log[a].status = 0

(* PositionTracker's reading of the fills of the log...                    *)
TrackerOf(rows) ==
    LET fills == FillRows(rows)
        After[i \in 0..Len(fills)] ==
            IF i = 0 THEN NewTracker
            ELSE LET t == After[i - 1]
                 IN  on_fill(t, fills[i].incoming_side, fills[i].qty, fills[i].price_ticks)
    IN  After[Len(fills)]

(* ... and the quantity that they close.                                   *)
ClosedQuantity(rows) ==
    LET fills == FillRows(rows)
        after == Replays(rows)
        Closes(i) == LET qty == Signed(fills[i].incoming_side, fills[i].qty)
                     IN  IF SameDirection(after[i - 1], qty) THEN 0
                         ELSE Lesser(Abs(qty), Abs(after[i - 1].net_position))
    IN  Total([i \in 1..Len(fills) |-> Closes(i)])

(* How far the report's account and position.rs's are apart: for every log *)
(* the replay ends with the hedger's own position, which is also the       *)
(* tracker's, and the two realized P&Ls, one rounding the P&L of a fill    *)
(* and the other truncating the average, differ by less than a tick and a  *)
(* half per unit closed.  They are not the same, as backtest_report.py:31  *)
(* says: one unit bought at 0, one at 1, and both sold at 1 are a P&L of 1 *)
(* in the report and of 2 in position.rs.                                  *)
ReplayAgrees ==
    LET replay  == Replay(log)
        tracker == TrackerOf(log)
        apart   == Abs(replay.realized_pnl_ticks - tracker.realized_pnl_ticks)
    IN  /\ replay.net_position = position
        /\ tracker.net_position = position
        /\ apart = 0 \/ 2 * apart < 3 * ClosedQuantity(log)

(* The reported drawdown is the deepest fall from any point of the equity  *)
(* curve to a later one.                                                   *)
DrawdownIsWorstFall ==
    LET curve == equity_curve(log)
    IN  max_drawdown(curve) =
            Min(UNION {{curve[j] - curve[i] : j \in i..Len(curve)} : i \in 1..Len(curve)})

(* The main thread is in PricingClient.price.                              *)
AwaitsPrice == pc = "tick" /\ ticks_done < MaxTicks

(* The backtest ends, whatever the order book server, the reader thread    *)
(* and the quoter do, unless the pricing server leaves a request           *)
(* unanswered: that is the one wait without a timeout, and then the        *)
(* backtest stays in it for ever.                                          *)
BacktestEnds == <>(pc = "closed") \/ <>[]AwaitsPrice
=============================================================================

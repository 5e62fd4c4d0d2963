-------------------------- MODULE PositionTracker --------------------------
(***************************************************************************)
(* PositionTracker of risk/src/position.rs: a position, its average entry  *)
(* price, an f64 in the code and a fraction here, and its P&L, all from    *)
(* the side of the incoming order of each fill.                            *)
(***************************************************************************)
EXTENDS TickMath

TradeSides == {"Buy", "Sell"}

Signed(side, quantity) == IF side = "Buy" THEN quantity ELSE -quantity

NewTracker == [net_position |-> 0, realized_pnl_ticks |-> 0, last_trade_price_ticks |-> 0,
               avg_entry_price_ticks |-> Fraction(0, 1)]

(* The average after adding to a position of size old at avg.              *)
WeightedAverage(avg, old, price, add) ==
    Fraction(avg.num * old + price * add * avg.den, avg.den * (old + add))

(* The fill opens or increases the position.                               *)
Increase(t, signed_qty, price) ==
    [t EXCEPT !.last_trade_price_ticks = price,
              !.avg_entry_price_ticks =
                  WeightedAverage(@, Abs(t.net_position), price, Abs(signed_qty)),
              !.net_position = @ + signed_qty]

(* Slip: a position turned through flat keeps the old average.             *)
AverageKept(t, net, price) == t.avg_entry_price_ticks

(* The average after a fill that reduces: the remainder of a fill that     *)
(* goes through flat opens a fresh position at its price.                  *)
AverageAfterReduce(t, net, price) ==
    IF net # 0 /\ Signum(net) # Signum(t.net_position)
    THEN Fraction(price, 1) ELSE t.avg_entry_price_ticks

(* Slip: what a fill does beyond closing the position is dropped.          *)
ReduceToFlat(t, signed_qty, price) ==
    LET closing_qty == Lesser(Abs(signed_qty), Abs(t.net_position))
        net         == t.net_position + Signum(signed_qty) * closing_qty
    IN  [last_trade_price_ticks |-> price,
         realized_pnl_ticks |-> t.realized_pnl_ticks
             + Signum(t.net_position) * closing_qty * (price - AsI64(t.avg_entry_price_ticks)),
         net_position |-> net,
         avg_entry_price_ticks |-> AverageAfterReduce(t, net, price)]

Reduce(t, signed_qty, price) ==
    LET closing_qty == Lesser(Abs(signed_qty), Abs(t.net_position))
        net         == t.net_position + signed_qty
    IN  [last_trade_price_ticks |-> price,
         realized_pnl_ticks |-> t.realized_pnl_ticks
             + Signum(t.net_position) * closing_qty * (price - AsI64(t.avg_entry_price_ticks)),
         net_position |-> net,
         avg_entry_price_ticks |-> AverageAfterReduce(t, net, price)]

on_fill(t, incoming_side, quantity, price) ==
    LET signed_qty == Signed(incoming_side, quantity)
    IN  IF t.net_position = 0 \/ Signum(t.net_position) = Signum(signed_qty)
        THEN Increase(t, signed_qty, price)
        ELSE Reduce(t, signed_qty, price)

(* Slip: the size of the position without its direction.                   *)
unrealized_of_size(t) ==
    Abs(t.net_position) * (t.last_trade_price_ticks - AsI64(t.avg_entry_price_ticks))

unrealized_pnl_ticks(t) ==
    t.net_position * (t.last_trade_price_ticks - AsI64(t.avg_entry_price_ticks))
=============================================================================

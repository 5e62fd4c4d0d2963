-------------------------- MODULE BacktestReport ---------------------------
(***************************************************************************)
(* strategy/orderbook_client/backtest_report.py: the position, the         *)
(* realized P&L, the equity curve and the drawdown that a session's trade  *)
(* log amounts to.  The replay of the position is a second implementation  *)
(* of PositionTracker, with a rounding of its own.  The Sharpe ratio, a    *)
(* matter of square roots, and the win rate, which counts, are left out.   *)
(***************************************************************************)
EXTENDS PositionTracker, SequencesExt, Sifting

(* _PositionReplay.                                                        *)
NewReplay == [net_position |-> 0, realized_pnl_ticks |-> 0, avg |-> Fraction(0, 1)]

SameDirection(r, signed_qty) ==
    r.net_position = 0 \/ Signum(r.net_position) = Signum(signed_qty)

(* The P&L a fill realizes: none if it opens or adds, and otherwise the    *)
(* rounded P&L of what it closes.                                          *)
Delta(r, signed_qty, price) ==
    IF SameDirection(r, signed_qty) THEN 0
    ELSE LET closing_qty == Lesser(Abs(signed_qty), Abs(r.net_position))
         IN  Round([num |-> Signum(r.net_position) * closing_qty * (price * r.avg.den - r.avg.num),
                    den |-> r.avg.den])

(* Slip: adding to a position keeps the price it was opened at.            *)
AverageOfFirst(r, signed_qty, price) ==
    IF r.net_position = 0 \/ Signum(r.net_position + signed_qty) = -Signum(r.net_position)
    THEN Fraction(price, 1) ELSE r.avg

(* The average entry price after a fill.                                   *)
AverageAfter(r, signed_qty, price) ==
    CASE SameDirection(r, signed_qty) ->
            LET old_abs == Abs(r.net_position)
                add_abs == Abs(signed_qty)
            IN  Fraction(r.avg.num * old_abs + price * add_abs * r.avg.den,
                         r.avg.den * (old_abs + add_abs))
      [] ~SameDirection(r, signed_qty)
         /\ Signum(r.net_position + signed_qty) = -Signum(r.net_position) -> Fraction(price, 1)
      [] OTHER -> r.avg

ReplayFill(r, row) ==
    LET signed_qty == Signed(row.incoming_side, row.qty)
    IN  [net_position       |-> r.net_position + signed_qty,
         realized_pnl_ticks |-> r.realized_pnl_ticks + Delta(r, signed_qty, row.price_ticks),
         avg                |-> AverageAfter(r, signed_qty, row.price_ticks)]

-----------------------------------------------------------------------------
(* build_report. *)

FillRows(rows) == Sift(rows, {row \in ToSet(rows) : row.event = "fill"})

(* The replay after each of the fills, from none to all of them.           *)
Replays(rows) ==
    LET fills == FillRows(rows)
        After[i \in 0..Len(fills)] ==
            IF i = 0 THEN NewReplay ELSE LET r == After[i - 1] IN ReplayFill(r, fills[i])
    IN  [i \in 0..Len(fills) |-> After[i]]

Replay(rows) == Replays(rows)[Len(FillRows(rows))]

equity_curve(rows) ==
    LET after == Replays(rows)
    IN  [i \in 1..Len(FillRows(rows)) + 1 |-> after[i - 1].realized_pnl_ticks]

(* Slip: the fall from the last peak to the end.                           *)
LastDrawdown(curve) ==
    curve[Len(curve)] - Max({curve[i] : i \in 1..Len(curve)})

(* _max_drawdown, with the running peak.                                   *)
max_drawdown(curve) ==
    LET Run[i \in 0..Len(curve)] ==
            IF i = 0 THEN [peak |-> curve[1], max_dd |-> 0]
            ELSE LET before == Run[i - 1]
                     peak   == Max({before.peak, curve[i]})
                 IN  [peak |-> peak, max_dd |-> Min({before.max_dd, curve[i] - peak})]
    IN  Run[Len(curve)].max_dd
=============================================================================

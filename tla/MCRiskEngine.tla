--------------------------- MODULE MCRiskEngine ---------------------------
(***************************************************************************)
(* RiskEngine for TLC, with the cash flow of the fills the engine has read *)
(* and the quantity they closed, to judge the realized P&L by.             *)
(***************************************************************************)
EXTENDS RiskEngine

CONSTANT MaxClosed      \* bound: no flattening order executes beyond it

VARIABLES
    cash,       \* what the fills brought in, minus what they cost
    closed      \* how much quantity has been closed

hvars == <<cash, closed>>

MCInit == Init /\ cash = 0 /\ closed = 0

Account ==
    LET m   == Head(stream)
        qty == Signed(m.incoming_side, m.quantity)
        net == tracker.net_position
    IN  /\ cash' = cash - qty * m.price
        /\ closed' = IF Signum(net) * Signum(qty) < 0 THEN closed + Lesser(Abs(qty), Abs(net)) ELSE closed

MCRiskStep ==
    \/ ReadFill /\ Account
    \/ ReadAck /\ UNCHANGED hvars
    \/ WithinLimit /\ UNCHANGED hvars
    \/ SendFlatten /\ UNCHANGED hvars
    \/ LogHalt /\ UNCHANGED hvars

MCFailure ==
    \/ UpdateFails /\ Account
    \/ SendFails /\ UNCHANGED hvars
    \/ HaltFails /\ UNCHANGED hvars
    \/ StreamEnds /\ UNCHANGED hvars

MCExecute == closed < MaxClosed /\ Execute /\ UNCHANGED hvars

MCNext ==
    \/ MCRiskStep
    \/ MCFailure
    \/ MCExecute
    \/ \E s \in TradeSides, q \in TradeQuantities, p \in TradePrices :
          OtherTrade(s, q, p) /\ UNCHANGED hvars

MCSpec == MCInit /\ [][MCNext]_<<vars, hvars>>
                 /\ WF_<<vars, hvars>>(MCRiskStep) /\ WF_<<vars, hvars>>(MCExecute)

(* Prices of either sign, so that averages are fractions of either sign.   *)
MixedPrices == {-2, 3}

(* Weighted-average-cost accounting is exact up to the truncation of the   *)
(* average price: the realized P&L is the cash flow plus the open position *)
(* at its average entry price, with an error of less than one tick per     *)
(* unit closed, across partial closes and positions turned through flat.   *)
RealizedWithinTruncation ==
    LET avg   == tracker.avg_entry_price_ticks
        error == (tracker.realized_pnl_ticks - cash) * avg.den - tracker.net_position * avg.num
    IN  error = 0 \/ Abs(error) < closed * avg.den

(* The two figures of the last position_update line add up to the cash     *)
(* flow plus the open position at the last trade price, with an error of   *)
(* less than one tick per unit closed or open.                             *)
LoggedPnlIsMarkToMarket ==
    log # <<>> =>
        LET error == log[1].realized_pnl_ticks + log[1].unrealized_pnl_ticks
                         - cash - tracker.net_position * tracker.last_trade_price_ticks
        IN  error = 0 \/ Abs(error) < closed + Abs(tracker.net_position)
=============================================================================

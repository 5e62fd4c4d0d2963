-------------------------- MODULE MCHedgeSession ---------------------------
(***************************************************************************)
(* HedgeSession for TLC, with a note of what sets the position apart from  *)
(* the target once all is drained: what was on its way, unknown to the     *)
(* hedger, when it last decided, less what was not executed since.         *)
(***************************************************************************)
EXTENDS HedgeSession

VARIABLE surplus

mcVars == <<vars, surplus>>

(* Two legs, long and short, whose deltas sum to halves and quarters.      *)
LongAndShort == <<2, -1>>
QuarterDeltas == {Fraction(0, 1), Fraction(3, 4), Fraction(1, 1)}

MCInit == HedgeInit /\ surplus = 0

(* The orders not yet answered, and the fills not yet drained.             *)
OnItsWay ==
    Total([i \in 1..Len(to_server) |-> Signed(to_server[i].side, to_server[i].quantity)])
      + FilledQuantity(events \o to_client, my_order_ids)

MCTick == PriceArrives /\ surplus' = OnItsWay

MCMainStep ==
    \/ Connect /\ UNCHANGED surplus
    \/ LoopEnds /\ UNCHANGED surplus
    \/ Send /\ UNCHANGED surplus
    \/ SendDone /\ UNCHANGED surplus
    \/ PollEvents /\ UNCHANGED surplus
    \/ PollTimesOut /\ UNCHANGED surplus

(* A quantity of the order at the head of the socket is not executed.      *)
Missed(quantity) == surplus' = surplus - Signed(Head(to_server).side, quantity)

MCServerStep ==
    \/ ServeReject /\ Missed(Head(to_server).quantity)
    \/ \E f \in Executions : \E price \in [1..Len(f) -> FillPrices] :
          ServeExecute(f, price) /\ Missed(Head(to_server).quantity - Total(f))

MCNext ==
    \/ MCTick
    \/ MCMainStep
    \/ MCServerStep
    \/ MainRaises /\ UNCHANGED surplus
    \/ Read /\ UNCHANGED surplus
    \/ QuoterStep /\ UNCHANGED surplus

MCSpec == MCInit /\ [][MCNext]_mcVars /\ WF_mcVars(MCMainStep)

(* How far hedging on a position that lags behind its own orders may miss: *)
(* when all is answered and drained, the position is within the band of    *)
(* the last target but for exactly what was on its way when the hedger     *)
(* decided, which it hedges a second time, and what was rejected or not    *)
(* filled since.  Orders that overlap for several ticks, fill in pieces or *)
(* turn the position add no error of their own.                            *)
HedgeConverges ==
    to_server = <<>> /\ to_client = <<>> /\ events = <<>> /\ actions = <<>>
        => Abs(position - (target + surplus)) <= HedgeBand
=============================================================================

---------------------------- MODULE RiskEngine ----------------------------
(***************************************************************************)
(* The risk engine of risk/src: it reads the fills of the matching engine  *)
(* from its subscription (main.rs), keeps a position and its P&L           *)
(* (position.rs), and on a breach of the position limit sends a flattening *)
(* market order and logs a halt (limits.rs, risk_log.rs).                  *)
(*                                                                         *)
(* The matching engine is here only what the risk engine sees of it: the   *)
(* market orders it receives are executed in order, in any number of fills *)
(* and perhaps not in full, and acks and fills come back in order on the   *)
(* same stream, mixed with the fills of the other orders of the market.    *)
(*                                                                         *)
(* Ids of flattening orders are left out: they are fresh and market orders *)
(* never rest, so that they cannot collide.  The log is the lines written  *)
(* for the fill being handled.                                             *)
(***************************************************************************)
EXTENDS PositionTracker

CONSTANTS
    MaxAbsPosition,     \* --max-abs-position
    QuantityModulus,    \* quantities on the wire are modulo this (2^32)
    TradePrices,        \* prices of fills
    TradeQuantities,    \* quantities of the fills of other orders
    MaxTrades,          \* bound: the number of those fills
    MaxPieces,          \* bound: the fills a flattening order may come in
    MaxExposure,        \* bound: the matching engine stops executing beyond it
    FullDepth           \* whether the book always fills a market order

ASSUME RiskAssumption ==
    /\ MaxAbsPosition \in Nat /\ QuantityModulus \in Nat \ {0}
    /\ TradePrices \subseteq Int /\ TradeQuantities \subseteq Nat \ {0}
    /\ MaxTrades \in Nat /\ MaxPieces \in Nat /\ MaxExposure \in Nat
    /\ FullDepth \in BOOLEAN

VARIABLES
    tracker,    \* PositionTracker
    pc,         \* where main is: "read", "check", "halt" or "exited"
    log,        \* the lines logged for the current fill
    stream,     \* messages on their way to the risk engine
    orders,     \* flattening orders on their way to the matching engine
    exposure,   \* the position all fills executed so far add up to
    trades      \* how many other fills there have been

vars == <<tracker, pc, log, stream, orders, exposure, trades>>

-----------------------------------------------------------------------------
(* The log. *)

position_update(t) ==
    [event |-> "position_update", net_position |-> t.net_position,
     realized_pnl_ticks |-> t.realized_pnl_ticks, unrealized_pnl_ticks |-> unrealized_pnl_ticks(t)]

halt(net_position) == [event |-> "halt", net_position |-> net_position]

-----------------------------------------------------------------------------
(* The limit. *)

Breach(net_position) == Abs(net_position) > MaxAbsPosition

(* Slip: the sign is not taken off.                                        *)
FlattenSigned(net_position) ==
    [side |-> IF net_position > 0 THEN "Sell" ELSE "Buy", quantity |-> net_position]

(* The corrective order of check_breach.                                   *)
FlattenAction(net_position) ==
    [side     |-> IF net_position > 0 THEN "Sell" ELSE "Buy",
     quantity |-> Abs(net_position) % QuantityModulus]

-----------------------------------------------------------------------------
(* The matching engine (external to this component). *)

FillMsg(side, quantity, price) ==
    [tag |-> "Fill", incoming_side |-> side, quantity |-> quantity, price |-> price]
AckMsg == [tag |-> "Ack"]

(* The quantities in which an order may be filled: what the book does not  *)
(* have is not filled, as a market order does not rest.                    *)
Fillings(quantity) ==
    { f \in UNION { [1..n -> 1..quantity] : n \in 0..MaxPieces } :
          /\ Total(f) <= quantity
          /\ FullDepth => Total(f) = quantity }

(* Another order trades.                                                   *)
OtherTrade(side, quantity, price) ==
    /\ trades < MaxTrades
    /\ trades' = trades + 1
    /\ stream' = Append(stream, FillMsg(side, quantity, price))
    /\ exposure' = exposure + Signed(side, quantity)
    /\ UNCHANGED <<tracker, pc, log, orders>>

(* The next flattening order executes.                                     *)
Execute ==
    /\ orders # <<>> /\ Abs(exposure) <= MaxExposure
    /\ LET o == Head(orders)
       IN  \E f \in Fillings(o.quantity) : \E price \in [1..Len(f) -> TradePrices] :
             /\ stream' = stream \o << AckMsg >>
                    \o [i \in 1..Len(f) |-> FillMsg(o.side, f[i], price[i])]
             /\ exposure' = exposure + Signed(o.side, Total(f))
    /\ orders' = Tail(orders)
    /\ UNCHANGED <<tracker, pc, log, trades>>

-----------------------------------------------------------------------------
(* The main loop. *)

(* A fill is read, folded into the position and logged.                    *)
ReadFill ==
    /\ pc = "read"
    /\ stream # <<>> /\ Head(stream).tag = "Fill"
    /\ LET m == Head(stream)
           t == on_fill(tracker, m.incoming_side, m.quantity, m.price)
       IN  /\ tracker' = t
           /\ log' = << position_update(t) >>
    /\ stream' = Tail(stream)
    /\ pc' = "check"
    /\ UNCHANGED <<orders, exposure, trades>>

(* Acks are not consumed otherwise.                                        *)
ReadAck ==
    /\ pc = "read"
    /\ stream # <<>> /\ Head(stream).tag = "Ack"
    /\ stream' = Tail(stream)
    /\ UNCHANGED <<tracker, pc, log, orders, exposure, trades>>

WithinLimit ==
    /\ pc = "check"
    /\ ~Breach(tracker.net_position)
    /\ pc' = "read"
    /\ UNCHANGED <<tracker, log, stream, orders, exposure, trades>>

(* Slip: back to the stream without the halt line.                         *)
SendFlattenOnly ==
    /\ pc = "check"
    /\ Breach(tracker.net_position)
    /\ orders' = Append(orders, FlattenAction(tracker.net_position))
    /\ pc' = "read"
    /\ UNCHANGED <<tracker, log, stream, exposure, trades>>

(* The flattening order is written to the socket...                        *)
SendFlatten ==
    /\ pc = "check"
    /\ Breach(tracker.net_position)
    /\ orders' = Append(orders, FlattenAction(tracker.net_position))
    /\ pc' = "halt"
    /\ UNCHANGED <<tracker, log, stream, exposure, trades>>

(* ... or cannot be, and expect() ends the process.                        *)
SendFails ==
    /\ pc = "check"
    /\ Breach(tracker.net_position)
    /\ pc' = "exited"
    /\ UNCHANGED <<tracker, log, stream, orders, exposure, trades>>

LogHalt ==
    /\ pc = "halt"
    /\ log' = Append(log, halt(tracker.net_position))
    /\ pc' = "read"
    /\ UNCHANGED <<tracker, stream, orders, exposure, trades>>

(* A line of the log cannot be written, and expect() ends the process.     *)
UpdateFails ==
    /\ pc = "read"
    /\ stream # <<>> /\ Head(stream).tag = "Fill"
    /\ LET m == Head(stream)
       IN  tracker' = on_fill(tracker, m.incoming_side, m.quantity, m.price)
    /\ stream' = Tail(stream)
    /\ log' = <<>>
    /\ pc' = "exited"
    /\ UNCHANGED <<orders, exposure, trades>>

HaltFails ==
    /\ pc = "halt"
    /\ pc' = "exited"
    /\ UNCHANGED <<tracker, log, stream, orders, exposure, trades>>

(* The connection closes, perhaps before all messages got through, and the *)
(* loop is left.                                                           *)
StreamEnds ==
    /\ pc = "read"
    /\ pc' = "exited"
    /\ UNCHANGED <<tracker, log, stream, orders, exposure, trades>>

Init ==
    /\ tracker = NewTracker
    /\ pc = "read"
    /\ log = <<>>
    /\ stream = <<>>
    /\ orders = <<>>
    /\ exposure = 0
    /\ trades = 0

RiskStep == ReadFill \/ ReadAck \/ WithinLimit \/ SendFlatten \/ LogHalt

MatchingEngine ==
    \/ \E s \in TradeSides, q \in TradeQuantities, p \in TradePrices : OtherTrade(s, q, p)
    \/ Execute

Failure == SendFails \/ UpdateFails \/ HaltFails \/ StreamEnds

Next == RiskStep \/ MatchingEngine \/ Failure

(* The engine keeps reading and the matching engine keeps executing.       *)
Spec == Init /\ [][Next]_vars /\ WF_vars(RiskStep) /\ WF_vars(Execute)

-----------------------------------------------------------------------------
(* Properties. *)

(* The types of the tracker and of the main loop's state.                  *)
TypeOK ==
    /\ tracker.net_position \in Int /\ tracker.realized_pnl_ticks \in Int
    /\ tracker.avg_entry_price_ticks.den > 0
    /\ pc \in {"read", "check", "halt", "exited"}
    /\ exposure \in Int
    /\ \A i \in 1..Len(orders) : orders[i].side \in TradeSides /\ orders[i].quantity \in Nat

(* What a message does to the position once it is read.                    *)
QuantityOf(m) == IF m.tag = "Fill" THEN Signed(m.incoming_side, m.quantity) ELSE 0

SumOf(messages) == Total([i \in 1..Len(messages) |-> QuantityOf(messages[i])])

(* The position and the fills still on their way to the engine are all the *)
(* market traded: no fill of another order or of a flattening order is     *)
(* lost, counted twice or taken with the wrong sign.                       *)
PositionMatchesExposure ==
    tracker.net_position + SumOf(stream) = exposure

(* A breach is never silent: when the engine goes back to its stream, a    *)
(* halt line follows every update that breached the limit, and no other.   *)
HaltLoggedOnBreach ==
    (pc = "read" /\ log # <<>>) => (Len(log) = 2 <=> Breach(log[1].net_position))

(* The same when the engine stops: "this always happens, unconditionally,  *)
(* so a breach is never silent even if the flatten step fails".            *)
BreachNeverSilent ==
    (pc \in {"read", "exited"} /\ log # <<>>) =>
        (Breach(log[1].net_position) => Len(log) = 2)

(* After a breach the position comes back within the limit, once the       *)
(* account's other trading stops.                                          *)
BreachIsCorrected ==
    Breach(tracker.net_position) ~> (~Breach(tracker.net_position) \/ pc = "exited")
=============================================================================

------------------------- MODULE MCOrderBookServer -------------------------
(***************************************************************************)
(* OrderBookServer for TLC, with history variables: which client really    *)
(* owns each resting order, and the fills each client was entitled to and  *)
(* took.                                                                   *)
(***************************************************************************)
EXTENDS OrderBookServer

VARIABLES
    maker_of,   \* id of a resting order -> the client that submitted it
    entitled,   \* per client: the fills it was entitled to, in the order of the trades
    taken       \* per client: the fills of its own incoming orders

hvars == <<maker_of, entitled, taken>>
allvars == <<vars, hvars>>

MCInit ==
    /\ ServerInit
    /\ maker_of = [i \in {} |-> Nobody]
    /\ entitled = [p \in Peers |-> <<>>]
    /\ taken = [p \in Peers |-> {}]

(* The incoming order's client becomes the maker of what it leaves.        *)
HSubmitReturn ==
    /\ SubmitReturn
    /\ maker_of' = [i \in DOMAIN order_index' \cup {fills[k].resting_order_id : k \in 1..Len(fills)}
                      |-> IF i = incoming.id THEN fd_table[conn] ELSE maker_of[i]]
    /\ UNCHANGED <<entitled, taken>>

(* The two parties of a trade, and the subscribers.                        *)
EntitledTo(f) ==
    {fd_table[conn], maker_of[f.resting_order_id]} \cup {fd_table[fd] : fd \in subscribed}

HReportFill ==
    /\ ReportFill
    /\ LET f == Head(to_report)
       IN  /\ entitled' = [p \in Peers |-> IF p \in EntitledTo(f) THEN Append(entitled[p], f)
                                                                 ELSE entitled[p]]
           /\ taken' = [taken EXCEPT ![fd_table[conn]] = @ \cup {f}]
    /\ UNCHANGED maker_of

MCServerStep ==
    \/ Poll /\ UNCHANGED hvars
    \/ AcceptOne /\ UNCHANGED hvars
    \/ AcceptDone /\ UNCHANGED hvars
    \/ ScanDone /\ UNCHANGED hvars
    \/ RecvData /\ UNCHANGED hvars
    \/ RecvEnd /\ UNCHANGED hvars
    \/ ParseWaits /\ UNCHANGED hvars
    \/ ParseViolation /\ UNCHANGED hvars
    \/ Subscribe /\ UNCHANGED hvars
    \/ DispatchDuplicate /\ UNCHANGED hvars
    \/ DispatchNewOrder /\ UNCHANGED hvars
    \/ SubmitTrades /\ UNCHANGED hvars
    \/ DispatchCancel /\ UNCHANGED hvars
    \/ DispatchDone /\ UNCHANGED hvars
    \/ SendDelivered /\ UNCHANGED hvars
    \/ SendToNobody /\ UNCHANGED hvars
    \/ SendLost /\ UNCHANGED hvars
    \/ SendBroken /\ UNCHANGED hvars
    \/ HSubmitReturn
    \/ HReportFill

MCClientStep ==
    \E p \in Peers :
        \/ Connect(p) /\ UNCHANGED hvars
        \/ \E m \in Requests : Write(p, m) /\ UNCHANGED hvars
        \/ ClientCloses(p) /\ UNCHANGED hvars
        \/ ClientResets(p) /\ UNCHANGED hvars
        \/ ResetArrives(p) /\ UNCHANGED hvars

MCNext == MCServerStep \/ MCClientStep

MCSpec == MCInit /\ [][MCNext]_allvars /\ WF_allvars(MCServerStep)

Symmetry == Permutations(Peers)

(* The requests of the instances: two crossing orders, a cancel, a         *)
(* subscription, and the two protocol violations.                          *)
Trading == {NewOrder(1, "Buy", "Limit", 1, 1), NewOrder(2, "Sell", "Limit", 1, 1)}
TradingAndCancel == Trading \cup {CancelRequest(1)}
Everything == TradingAndCancel \cup {SubscribeFills, UnknownTag, FillFromClient}

-----------------------------------------------------------------------------
FillMsgs == [tag : {"Fill"}, fill : Fill]

FillsIn(msgs) == LET r == Sift(msgs, FillMsgs) IN [i \in 1..Len(r) |-> r[i].fill]

FillsOf(p) == FillsIn(inbox[p])

(* Both parties of a trade and every subscriber get each fill exactly once *)
(* and in the order of the trades, if they are still connected: owner      *)
(* routing, the broadcast and its de-duplication lose and repeat nothing.  *)
FillsReachEntitled ==
    (alive /\ BetweenDispatches) =>
        \A p \in Peers : link[p] = "open" =>
            Sift(FillsOf(p), ToSet(entitled[p])) = entitled[p]

(* The ack of an order precedes every fill it takes part in as the         *)
(* incoming order, at the client that sent it.                             *)
AckPrecedesFills ==
    \A p \in Peers : \A f \in taken[p], i \in 1..Len(inbox[p]) :
        inbox[p][i] = FillMsg(f) =>
            \E j \in 1..(i - 1) : inbox[p][j] = Ack(f.incoming_order_id, "NewOrder", 0)

(* What the design document says of the routing of fills: a fill is only   *)
(* sent to the clients whose orders traded and to subscribers, and one for *)
(* an owner that has disconnected is dropped.                              *)
OnlyEntitledGetFills ==
    \A p \in Peers : \A i \in 1..Len(FillsOf(p)) : FillsOf(p)[i] \in ToSet(entitled[p])
=============================================================================

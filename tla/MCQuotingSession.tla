-------------------------- MODULE MCQuotingSession -------------------------
(***************************************************************************)
(* QuotingSession for TLC, with the answers the server has given and the   *)
(* session has not drained yet, and the own orders that never came to rest *)
(* because they were executed when they arrived.                           *)
(***************************************************************************)
EXTENDS QuotingSession

VARIABLES answers, crossed

hvars == <<answers, crossed>>

BelowZero == -1

OtherOrder(id, side, type, price, quantity) ==
    [id |-> id, side |-> side, type |-> type, price |-> price, quantity |-> quantity]

(* A market order of the size of a quote.                                  *)
WholeSize == {OtherOrder(7, "Buy", "Market", 1, Size)}

(* A market order for half of a quote.                                     *)
HalfSize == {OtherOrder(7, "Sell", "Market", 1, 1)}

MCInit == SessionInit /\ answers = <<>> /\ crossed = {}

MCPollEvents ==
    /\ PollEvents
    /\ answers' = SubSeq(answers, Len(events) + 1, Len(answers))
    /\ UNCHANGED crossed

MCServeCancel ==
    /\ ServeCancel
    /\ answers' = Append(answers, CancelAck(decode_cancel(Body(CANCEL)).client_order_id))
    /\ UNCHANGED crossed

MCAnswer ==
    /\ Answer
    /\ answers' = answers
          \o (IF Own(incoming.id) THEN << AckMsg(incoming.id, NEW_ORDER, 0) >> ELSE <<>>) \o OwnFills
    /\ crossed' = IF Own(incoming.id) /\ ~Rests(incoming) THEN crossed \cup {incoming.id} ELSE crossed

MCMainStep ==
    \/ MCPollEvents
    \/ \E price \in FeedPrices : Tick(price) /\ UNCHANGED hvars
    \/ LoopEnds /\ UNCHANGED hvars
    \/ Send /\ UNCHANGED hvars
    \/ SendDone /\ UNCHANGED hvars
    \/ PollTimesOut /\ UNCHANGED hvars

MCServerStep ==
    \/ MCServeCancel
    \/ MCAnswer
    \/ ServeNewOrder /\ UNCHANGED hvars
    \/ Trade /\ UNCHANGED hvars

MCReaderStep == ReaderStep /\ UNCHANGED hvars

MCNext ==
    \/ MCMainStep
    \/ MCServerStep
    \/ MCReaderStep
    \/ SendRaises /\ UNCHANGED hvars
    \/ \E o \in Others : OtherSubmits(o) /\ UNCHANGED hvars

MCSpec == MCInit /\ [][MCNext]_<<vars, hvars>>
            /\ WF_<<vars, hvars>>(MCMainStep)
            /\ WF_<<vars, hvars>>(MCAnswer \/ (Trade /\ UNCHANGED hvars))

(* The two halves of the protocol are in lockstep: the events in the queue *)
(* and the bytes still to be read, from wherever the reader is in them,    *)
(* are together the answers the server gave, in its order and with every   *)
(* field, prices below zero included.                                      *)
EventsAreAnswers ==
    LET unread == (IF reader = "payload" THEN << tag_byte >> ELSE <<>>) \o to_client
        coming == Frames(unread)
    IN  /\ reader # "dead"
        /\ events \o [i \in 1..Len(coming) |-> decode_event(Head(coming[i]), Tail(coming[i]))]
             = answers

(* With all answers in, a quote that the quoter believes to be resting and *)
(* that is not in the book was executed on arrival, against the quoter's   *)
(* own stale quote: on_fill misses no fill of a quote that did rest.       *)
MissingQuoteWasCrossed == Quiet => Quoted \ OwnResting \subseteq crossed
=============================================================================

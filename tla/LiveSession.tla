---------------------------- MODULE LiveSession ----------------------------
(***************************************************************************)
(* A live session: run_live_session (run_live_session.py) with the feed    *)
(* LiveIBKRFeed (live_feed.py) on IBAsyncClient (live_ib_client.py).       *)
(*                                                                         *)
(* The client's thread connects to IBKR, waits to be asked for a           *)
(* subscription, qualifies the contract, subscribes, and then runs the     *)
(* event loop, whose callbacks put prices into the feed's queue.  The main *)
(* thread constructs the client and the feed, connects to the order book   *)
(* and runs the strategy loop, one price per turn, until the deadline.     *)
(* The threads share the connection error, two events each way and the     *)
(* queue.  What the loop does with a price is QuotingSession's subject.    *)
(***************************************************************************)
EXTENDS TickMath, Sequences

CONSTANTS
    TickerStates,   \* what a market data update may show: [last, bid, ask, close]
    MaxUpdates,     \* bound: the number of updates
    NaN             \* a price that is not there

ASSUME LiveAssumption ==
    /\ MaxUpdates \in Nat
    /\ \A t \in TickerStates :
          {t.last, t.bid, t.ask, t.close} \subseteq [num : Int, den : Nat \ {0}] \cup {NaN}

VARIABLES
    ib,                   \* the client's thread: "connecting", "failing", "failed",
                          \* "waiting", "qualifying", "running" or "stopped"
    connect_error,        \* _connect_error is set
    connected,            \* the three events
    subscribe_requested,
    subscribed,
    pending,              \* _pending_contract and _pending_on_tick are set
    main,                 \* the main thread: "construct", "subscribe", "request",
                          \* "await", "connect", "next", "get", "trade", "drain",
                          \* "finally", "raised" or "ended"
    deadline_passed,
    queue,                \* _queue: prices
    updates,              \* the updates so far that had a price
    prices                \* what next_price has returned

threadVars  == <<ib, connect_error, connected, subscribed>>
requestVars == <<subscribe_requested, pending>>
feedVars    == <<requestVars, main, prices>>
liveVars    == <<threadVars, feedVars, deadline_passed, queue, updates>>

-----------------------------------------------------------------------------
(* The thread of IBAsyncClient: _thread_main. *)

ThreadGoes(from, to) ==
    /\ ib = from /\ ib' = to
    /\ UNCHANGED <<connect_error, connected, subscribed, feedVars, deadline_passed, queue, updates>>

(* Slip: the event is set before the error is recorded.                    *)
ConnectFailsUnrecorded ==
    /\ ib = "connecting"
    /\ connected' = TRUE
    /\ ib' = "failing"
    /\ UNCHANGED <<connect_error, subscribed, feedVars, deadline_passed, queue, updates>>

(* connect or reqMarketDataType raises: the error is recorded...           *)
ConnectFails ==
    /\ ib = "connecting"
    /\ connect_error' = TRUE
    /\ ib' = "failing"
    /\ UNCHANGED <<connected, subscribed, feedVars, deadline_passed, queue, updates>>

(* ... and then the constructor is woken up.                               *)
ReportFailure ==
    /\ ib = "failing"
    /\ connected' = TRUE
    /\ ib' = "failed"
    /\ UNCHANGED <<connect_error, subscribed, feedVars, deadline_passed, queue, updates>>

ConnectSucceeds ==
    /\ ib = "connecting"
    /\ connected' = TRUE
    /\ ib' = "waiting"
    /\ UNCHANGED <<connect_error, subscribed, feedVars, deadline_passed, queue, updates>>

(* _subscribe_requested.wait() returns.                                    *)
SubscriptionSeen == subscribe_requested /\ ThreadGoes("waiting", "qualifying")

(* The contract is qualified and subscribed to, and the event loop runs... *)
Subscribe ==
    /\ ib = "qualifying"
    /\ subscribed' = TRUE
    /\ ib' = "running"
    /\ UNCHANGED <<connect_error, connected, feedVars, deadline_passed, queue, updates>>

(* ... or there is no such contract and the exception ends the thread.     *)
QualifyRaises == ThreadGoes("qualifying", "stopped")

Mid(bid, ask) == Fraction(bid.num * ask.den + ask.num * bid.den, 2 * bid.den * ask.den)

(* _best_price: {} is None.                                                *)
best_price(t) ==
    IF t.last # NaN THEN {t.last}
    ELSE IF t.bid # NaN /\ t.ask # NaN THEN {Mid(t.bid, t.ask)}
    ELSE {t.close} \ {NaN}

(* _on_update: a price, if there is one, is put into the queue.            *)
Update(t) ==
    /\ ib = "running" /\ Len(updates) < MaxUpdates
    /\ \E price \in best_price(t) : /\ queue' = Append(queue, price)
                                    /\ updates' = Append(updates, t)
    /\ UNCHANGED <<threadVars, feedVars, deadline_passed>>

(* The connection to IBKR drops, and with it the updates.                  *)
LinkDrops == ThreadGoes("running", "stopped")

-----------------------------------------------------------------------------
(* The main thread: run_live_session. *)

MainGoes(from, to) ==
    /\ main = from /\ main' = to
    /\ UNCHANGED <<threadVars, requestVars, prices, deadline_passed, queue, updates>>

(* The constructor of IBAsyncClient waits for the event and looks at the   *)
(* error...                                                                *)
Constructed == connected /\ MainGoes("construct", IF connect_error THEN "raised" ELSE "subscribe")

(* ... or gives up.                                                        *)
ConnectTimesOut == ~connected /\ MainGoes("construct", "raised")

(* The feed sets its deadline; subscribe stores contract and callback...   *)
StorePending ==
    /\ main = "subscribe"
    /\ pending' = TRUE
    /\ main' = "request"
    /\ UNCHANGED <<threadVars, subscribe_requested, prices, deadline_passed, queue, updates>>

(* ... wakes the thread up...                                              *)
RequestSubscription ==
    /\ main = "request"
    /\ subscribe_requested' = TRUE
    /\ main' = "await"
    /\ UNCHANGED <<threadVars, pending, prices, deadline_passed, queue, updates>>

(* ... and waits for it, but not for ever, and without a look at whether   *)
(* the wait was in vain.                                                   *)
SubscribeReturns == MainGoes("await", "connect")

(* OrderBookClient connects to the order book server, or raises before the *)
(* try statement is reached.                                               *)
ConnectBook == \E next \in {"next", "raised"} : MainGoes("connect", next)

(* next_price finds the deadline in the past...                            *)
DurationElapsed == deadline_passed /\ MainGoes("next", "drain")

(* ... or waits for what remains of the time...                            *)
AwaitPrice == ~deadline_passed /\ MainGoes("next", "get")

(* ... and a price comes...                                                *)
GetPrice ==
    /\ main = "get" /\ queue # <<>>
    /\ prices' = Append(prices, price_to_ticks(Head(queue)))
    /\ queue' = Tail(queue)
    /\ main' = "trade"
    /\ UNCHANGED <<threadVars, requestVars, deadline_passed, updates>>

(* Slip: get without a timeout never comes back from an empty queue.       *)
GetNeverTimesOut == FALSE

(* ... or none, in time.                                                   *)
GetTimesOut == queue = <<>> /\ deadline_passed /\ MainGoes("get", "drain")

(* The strategy's turn of the loop, which may raise.                       *)
Trade == \E next \in {"next", "finally"} : MainGoes("trade", next)

Drain == MainGoes("drain", "finally")

(* disconnect ends the event loop of the client's thread.                  *)
Disconnect ==
    /\ main = "finally"
    /\ ib' = IF ib = "running" THEN "stopped" ELSE ib
    /\ main' = "ended"
    /\ UNCHANGED <<connect_error, connected, subscribed, requestVars, prices, deadline_passed,
                   queue, updates>>

(* The time of the session, which runs from the construction of the feed.  *)
DeadlinePasses ==
    /\ ~deadline_passed /\ main \notin {"construct", "subscribe", "raised", "ended"}
    /\ deadline_passed' = TRUE
    /\ UNCHANGED <<threadVars, feedVars, queue, updates>>

-----------------------------------------------------------------------------
LiveInit ==
    /\ ib = "connecting"
    /\ connect_error = FALSE
    /\ connected = FALSE
    /\ subscribe_requested = FALSE
    /\ subscribed = FALSE
    /\ pending = FALSE
    /\ main = "construct"
    /\ deadline_passed = FALSE
    /\ queue = <<>>
    /\ updates = <<>>
    /\ prices = <<>>

ThreadStep ==
    \/ ConnectFails
    \/ ReportFailure
    \/ ConnectSucceeds
    \/ SubscriptionSeen
    \/ Subscribe
    \/ QualifyRaises
    \/ LinkDrops
    \/ \E t \in TickerStates : Update(t)

LiveMainStep ==
    \/ Constructed
    \/ ConnectTimesOut
    \/ StorePending
    \/ RequestSubscription
    \/ SubscribeReturns
    \/ ConnectBook
    \/ DurationElapsed
    \/ AwaitPrice
    \/ GetPrice
    \/ GetTimesOut
    \/ Trade
    \/ Drain
    \/ Disconnect

LiveNext == ThreadStep \/ LiveMainStep \/ DeadlinePasses

(* The main thread runs and time passes; of IBKR nothing is assumed.       *)
LiveSpec == LiveInit /\ [][LiveNext]_liveVars
              /\ WF_liveVars(LiveMainStep) /\ WF_liveVars(DeadlinePasses)

-----------------------------------------------------------------------------
(* Properties. *)

(* The handshake of the two threads: nobody gets past the constructor of a *)
(* client that did not connect, and the thread never reads the contract    *)
(* and the callback before they are there, whichever thread is faster.     *)
StartUpOrder ==
    /\ main \notin {"construct", "raised"} => ib \notin {"connecting", "failing", "failed"}
    /\ ib \in {"qualifying", "running"} => pending

(* The strategy sees the market as it went: its i-th price is the tick     *)
(* nearest to the last trade, or failing that the middle of bid and ask,   *)
(* or failing that the close of the i-th update that had a price; none is  *)
(* skipped, repeated or overtaken in the queue.                            *)
FeedIsFaithful ==
    /\ Len(prices) + Len(queue) = Len(updates)
    /\ \A i \in 1..Len(prices) :
          LET t     == updates[i]
              shown == IF t.last # NaN THEN t.last
                       ELSE IF t.bid # NaN /\ t.ask # NaN THEN Mid(t.bid, t.ask) ELSE t.close
          IN  OffBy(shown, prices[i]) <= shown.den

(* The session ends, also when IBKR never answers, knows no such contract, *)
(* drops the connection or sends nothing.                                  *)
LiveSessionEnds == <>(main \in {"raised", "ended"})
=============================================================================

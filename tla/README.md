# A TLA+ verification of velo

velo is a small trading system: a limit order book in C++ behind a TCP server
(`engine/`), a risk engine and an options pricer in Rust (`risk/`), and strategies in
Python that trade through the server (`strategy/`).  This directory models its stateful
parts in TLA+, checks them with TLC on small instances, and proves most of its safety
properties with TLAPS for all instances.

## 1. The system

| Component | State | Operations | Interacts with |
|---|---|---|---|
| Order book (`engine/src/order_book.cpp`) | two price ladders of FIFO queues, id index, clock | `submit`, `cancel`, `contains`, `best_bid`, `best_ask`, `snapshot` | called by the server, one thread |
| Server (`engine/src/server.cpp`) | connections with read buffers and subscriptions, owner of each resting order, listening socket | `poll` loop: accept, read, parse, dispatch, ack, route fills, remove connection | clients over TCP, the book by calls |
| Wire protocol (`protocol.cpp`, `protocol.rs`, `protocol.py`) | none | tag and fixed-size payload, big-endian fields | server, risk engine, Python client |
| Risk engine (`risk/src/main.rs` and others) | position, average price, P&L, log file | read fill, update, log, check limit, send flattening order, log halt | a subscriber and a client of the server |
| Pricing server (`risk/src/bin/pricing_server.rs`) | none beyond a connection | request and response, a thread per connection | the hedger |
| FIX parser (`risk/src/fix.rs`) | none | parse and build one message | nobody yet |
| Client library (`strategy/orderbook_client/client.py`) | socket, reader thread, event queue | submit, cancel, subscribe, `poll_events`, close | server; the strategy's thread |
| Quoter, hedger (`strategy.py`, `delta_hedger.py`) | resting quotes; futures position and own ids | `on_price`, `on_fill` | session runner |
| Session runner (`session_runner.py`, `trade_log.py`) | ticks done, trade log | tick, send actions, drain events, final drain | feed, strategy, client |
| Feeds (`feed.py`, `historical_feed.py`, `live_feed.py`, `live_ib_client.py`, `ticks.py`) | position in the series, CSV cache, queue and deadline, the IBKR client's thread and events | `next_price`, `subscribe`, tick callback, download | session runner, IBKR, the file system |
| Drivers (`run_*.py`) | none of their own | set up a session and run it | all of the above |
| Reports (`backtest_report.py`, `hedge_report.py`) | replayed position | replay of the trade log | after a session |

What is hard here: the book's index and ladders must agree after any sequence of partial
fills and cancels; the server is one thread, but clients come, go, split messages and
reuse descriptors between any two of its system calls; the risk engine acts on fills that
lag behind its own orders; the strategies act on events that lag behind theirs, over a
protocol that is written once in C++ and once in Python; the live feed is a handshake of
two threads with timeouts on one side; the download cache is written in place by processes
that may be killed or run together.
`PROJECT.json` lists these as hazards, each at its line, with the properties that cover it.

## 2. The modules

| Module | Models |
|---|---|
| `OrderBook` | the book; `submit` as a sequence of steps, `cancel` as one; what it refines of `PriceTimePriority` |
| `PriceTimePriority` | what a book promises: a set of orders and one rule for the next trade |
| `MCOrderBook` | the book for TLC, with the closed-form allocation |
| `OrderBookServer` | the server on top of `OrderBook`, with its clients and the kernel |
| `MCOrderBookServer` | the server for TLC, with history variables for the routing of fills: who made each resting order, and which fills each client was entitled to and took |
| `Sifting` | selection from a sequence, as a recursive function |
| `TickMath` | the exact arithmetic behind the programs' floating point: `round`, `as i64`, `price_to_ticks`; the sum of a sequence |
| `PositionTracker` | the risk engine's position and P&L (`position.rs`), as operators |
| `RiskEngine` | the risk engine, with the matching engine as its environment |
| `MCRiskEngine` | the risk engine for TLC, with the cash flow as a history variable |
| `WireProtocol` | the bytes of the messages, as `protocol.py` and as `protocol.cpp` write and read them |
| `QuotingSession` | a session of the quoter: strategy, session runner, client library, on top of `OrderBook` and `WireProtocol` |
| `MCQuotingSession` | the session for TLC, with the server's answers and the orders that never rested as history |
| `BacktestReport` | the report on a trade log: replay of the position, equity curve, drawdown |
| `HedgeSession` | a delta-hedging backtest: hedger, option book, driver, trade log, and its report |
| `MCHedgeSession` | the backtest for TLC, with a note of what was on its way when the hedger last decided (`surplus`) |
| `LiveSession` | a live session: the IBKR client's thread, the live feed, the driver |
| `HistoricalCache` | historical backtests and the cache they share |
| `MCFeeds` | the last two for TLC |
| `BasicLemmas` | facts for all proofs: induction, recursive functions, sums, selection, fractions and rounding, and the arithmetic of `PositionTracker` |
| `OrderBookProofs` | the invariants of `OrderBook`; it implements `PriceTimePriority` |
| `AllocationProofs` | the matching loop computes the closed-form allocation of `MCOrderBook` |
| `ServerProofs` | the invariants of `OrderBookServer`; the book keeps its promise under it; what the clients receive: acks and fills |
| `RiskProofs` | the invariants of `RiskEngine`, and the P&L against the cash flow of `MCRiskEngine` |
| `HedgeProofs` | the invariants of `HedgeSession`, that hedging converges, and that its report is right |
| `QuotingProofs` | `WireProtocol`, and `QuotingSession` on top of it: messages survive the wire, and no quote is lost |
| `FeedProofs` | `LiveSession` and `HistoricalCache` |

### OrderBook

`book["Buy"]` and `book["Sell"]` are `bids_` and `asks_`, functions from the prices that
have a level to the level's queue; `order_index` is `order_index_`; `next_timestamp` the
clock.  `incoming` and `fills` are the local variables of a `submit` in progress.
`SubmitDuplicate` is the early return, `SubmitBegin` the time stamp, each `MatchOne` one
iteration of the inner matching loop together with the tests of both loops, `Return` the
resting of the remainder.  `CancelFound` and `CancelNotFound` are the outcomes of `cancel`.
The mirrored code for buys and sells is one definition with the side as a parameter.
Making the matching loop visible costs nothing and lets the invariants speak about the
middle of a `submit`, which is where the code's loops rely on them.

Prices are a range of integers, quantities naturals.  The only subtraction is of the
smaller of two quantities, and the proof of `BookTypeOK` shows that nothing goes below
zero, so that the width of `uint32_t` plays no role here; the 64-bit clock is bounded by
`MaxTimestamp` (a guard on the beginning of a `submit`).

### OrderBookServer

The server's steps are the points at which something else may happen: `Poll`, each
`accept` (`AcceptOne`, `AcceptDone`), each `recv` (`RecvData` takes any non-empty prefix
of what has arrived, `RecvEnd` is end of file or error), each turn of the parse loop
(`ParseWaits`, `ParseViolation`, `Subscribe`, the `Dispatch...` actions), each step of the
book (`SubmitTrades`, `SubmitReturn`), the loop over the fills (`ReportFill`), and each
`send` (`SendDelivered`, `SendToNobody`, `SendLost`, `SendBroken`).  `outbox` and
`to_report` are what the dispatch in progress has still to do.

On the wire a message is a tag and a body that may arrive separately; more cuts would
add nothing, since the parse loop only compares the buffer's size with one and with the
size of a whole message.  The kernel (external to the repository) is modelled from how the
code uses it: descriptors are given out lowest first; a `send` after the peer's close
succeeds and is answered by a reset; after a reset one `send` reports `ECONNRESET` and the
next raises `EPIPE` and `SIGPIPE`, which nothing in the repository ignores or blocks.

### RiskEngine

`ReadFill` reads a fill, folds it into the position (`on_fill`) and logs it; `WithinLimit`
and `SendFlatten` are the outcomes of `check_breach`; `LogHalt` writes the halt line.
`UpdateFails`, `SendFails` and `HaltFails` are the three `expect`s, `StreamEnds` the end of
the connection.  The matching engine is the environment: other orders trade
(`OtherTrade`), and a flattening order is executed in any number of fills, perhaps not in
full (`Execute`).  The `f64` average price is an exact fraction, and `as i64` truncates it
toward zero; rounding inside the `f64` itself is left out.  The position and its P&L are in
`PositionTracker`, so that `HedgeSession` can compare the Python report with them.

### QuotingSession

The main thread is `run_strategy_loop`: `Tick` is `next_price` together with `on_price`,
each `Send` one action sent, `PollEvents` and `PollTimesOut` the outcomes of `poll_events`
followed by `drain`, in the loop and in the final drain; `LoopEnds` is the end of the loop,
`SendRaises` an exception out of `sendall`, which skips the final drain.  `ReadTag` and
`ReadPayload` are the two `_recv_exact` of the client's reader thread; a reader whose
connection has ended (end of file or `OSError`) returns and is one that takes no further
step, which the session may see at any time, since the reader is not fair.  `ServeNewOrder`,
`ServeCancel`, `Trade` and `Answer` are the server's handling of this one connection on the
steps of `OrderBook`, and `OtherSubmits` an order of somebody else.  `poll_events` is one
step: what it returns is what the queue has held up to the moment of its last `get_nowait`,
and nothing else looks at the queue or at the strategy in between.  The feed is any sequence
of prices.

`to_server` and `to_client` are sequences of bytes.  `WireProtocol` has both ends of them:
the client's by struct formats (`NEW_ORDER_FMT` and so on, `pack`, `unpack`, `calcsize` as
Python's `struct` documents them), the server's field by field (`put_u64`, `get_u64`, the
`k...MsgSize` constants).  The widths 8 and 4 are the constants `LongBytes` and
`QuantityBytes`.  Requests that the server would find incomplete never occur, since a
request is written in one `sendall` and `OrderBookServer` has shown that the cuts do not
matter.

`OrderBookServer` and `QuotingSession` both compose `OrderBook`, and the second keeps only
the parts of the server that a session sees while its connection lasts: requests
answered in order, the ack before the fills, one copy of a fill to a party of it.
`OneAckPerRequest` and `AckPrecedesFills` of the server's runs are the grounds for that.

### HedgeSession, BacktestReport

`run_hedge_backtest` has a loop of its own, like `run_strategy_loop`'s.  `WithinBand` and
`Rehedge` are a tick whose `on_price` sends nothing or a market order, for any deltas the
pricing server may give for the legs (`aggregate_delta`, `Targets`); `PricingRaises` is an
exception out of `PricingClient.price`, `ConnectRaises` one out of the constructors.
`PricingClient` sets no timeout on its socket, so a price (`PriceArrives`) need never come,
and `AwaitsPrice` is the wait for it.
`Send`, `PollEvents` and `PollTimesOut` also write the rows of `log`, the trade log.
What the hedger sees of the server is `ServeReject`, for an id that the companion quoter,
which numbers its orders from 1 as well, has in the book, and `ServeExecute`: an ack, and
fills in any pieces, perhaps not for the whole quantity.  `executed` is what the server
knows of the hedger's trades.

`BacktestReport` replays the rows of the log.  `Delta` rounds the P&L of a closing fill
(Python's `round`, half to even) where `position.rs` truncates the average price; the
divisions themselves are exact fractions.

### LiveSession

`ib` and `main` are where the two threads are.  `_thread_main` is `ConnectFails` and
`ReportFailure`, or `ConnectSucceeds`, `SubscriptionSeen`, `Subscribe`, and then the
callbacks (`Update`); `QualifyRaises` and `LinkDrops` end the flow of prices without
anybody being told.  The main thread is the constructor (`Constructed`, `ConnectTimesOut`),
`subscribe` in the order of its statements (`StorePending`, `RequestSubscription`,
`SubscribeReturns`), the connection to the order book, and one `next_price` per turn:
`DurationElapsed`, or `AwaitPrice` and then `GetPrice` or `GetTimesOut`.  Time is one bit,
whether the deadline has passed.  What the strategy does with a price is one step here
(`Trade`), since it is `QuotingSession`'s subject.

### HistoricalCache

A backtest is `CheckExists`, and either straight to the file or `Download`,
`OpenForWriting` (which truncates), `WriteRow` for each row and `Close`; then `ReadFile`
or, for a file that cannot be parsed, `ReadRaises`; then `NextPrice` until `FeedExhausted`.
Any number of them run at once, and each may be killed at any point (`Kill`), in the middle
of a row too: such a row reads as another number or as none.  A close may be missing in the
downloaded data (`NoClose`, the `nan` of `yfinance`): it is written to the file like any
other, and every backtest that reads it ends in `price_to_ticks`.  Rows reach the file one by
one; that is finer than any buffering.

The definitions marked *Slip* in the modules are not part of the model: each is a
mis-coding of the definition that follows it, and the property it is listed with in
`PROJECT.json` fails when it takes that definition's place.

## 3. What is checked

| Run | Instance | Shows |
|---|---|---|
| `book` | 4 ids, prices 1..3, quantities 0..2, clock up to 3 | `BookTypeOK`, `NoEmptyLevel`, `IndexMatchesBook`, `RestingIsLive`, `BookNotCrossed`, `TimePriority`; `LoopComputesAllocation`: the matching loop trades exactly the price-time allocation; `ImplementsPriceTimePriority`: refinement |
| `server` | 3 clients, 2 descriptors, every kind of request | `ServerTypeOK`, `OwnersAreResting`, `ReadyIsReadable`, `ConnectionsMatchFds`, `FillsReachEntitled` |
| `sessions` | 2 clients, up to 2 requests each and 3 in all, no symmetry | `OneAckPerRequest`, `AckPrecedesFills`; `RequestsAreAnswered`: a request is answered in the end, unless its client leaves |
| `risk` | limit 1, 3 other fills, orders filled in up to 2 pieces or in part, prices -2 and 3 | `TypeOK`, `PositionMatchesExposure`, `HaltLoggedOnBreach`, `RealizedWithinTruncation`, `LoggedPnlIsMarkToMarket` |
| `quoting` | 3 ticks of prices 0 and 2, offset 1, size 2, one market order of a whole quote by somebody else | `SessionTypeOK`, `NoOrphanedQuote`; `EventsAreAnswers`: what the client has decoded and has still to read is what the server answered; `MissingQuoteWasCrossed`: a quote that the quoter believes in and that is not in the book was executed on arrival; `SessionCloses`; `SubmitReturns`: every `submit` returns |
| `hedge` | 3 ticks, a long and a short leg with deltas 0, 3/4 and 1, band 1, fills in up to 2 pieces at 2 prices, 2 orders of the companion | `HedgeTypeOK`; `PositionLagsFills`: the hedger's position differs from what it traded by the fills on their way; `LogIsCausal`; `ReplayAgrees`: the report's account of the log, `position.rs`'s and the hedger's have the same position, and P&Ls that are apart by less than 3/2 ticks per unit closed; `DrawdownIsWorstFall`; `HedgeConverges`: when all is drained the position is within the band of the target but for exactly what was on its way at the last decision, which is hedged twice, and what was not executed since; `BacktestEnds`, unless the pricing server leaves a request unanswered |
| `feeds` | 3 updates of 4 kinds; 3 backtests, 3 tickers of which 2 share a file | `StartUpOrder`: the handshake of the two threads; `FeedIsFaithful`: every price in order, to the nearest tick; `LiveSessionEnds`; `WrongOnlyIfDisturbed`: a backtest replays the downloaded series unless its file was written under a kill, by two at once, or for two tickers; `PricesInPlace`: even then it replays the beginning of the series, each price in its place, but for a row cut by a kill and files of two tickers |

Five runs show that the code does not do what its documents or comments say (the
`findings` of `PROJECT.json` quote them):

| Run | Property violated | Behaviour |
|---|---|---|
| `fill_routing` | `OnlyEntitledGetFills` | a client disconnects, its resting order and its entry in `order_owner_fd` stay, a new client gets the descriptor and then the old client's fill |
| `stays_up` | `ServerStaysUp` | a client closes while one dispatch writes it an ack and a fill: the second write ends the server |
| `risk_silent` | `BreachNeverSilent` | the flattening order cannot be sent and the process ends before the halt line |
| `risk_settles` | `BreachIsCorrected` | a second breaching fill arrives before the first correction is executed; the two orders overshoot, and so on for ever |
| `quotes_orphaned` | `NoOrphanedQuote` | somebody takes half of a quote, the quoter forgets all of it, and the other half stays in the book when the price moves on |

`NoOrphanedQuote` is a property of `quoting` as well: as long as quotes are taken whole,
the lag of events behind the book, and fresh orders crossing stale ones, do not make the
quoter lose one.  With partial fills it does.

More disagreements have no run of their own:

* The docstring of `FixedOffsetQuoter` (`strategy.py:43-45`) says that it keeps a resting
  order on both sides; a fresh order that executes against the quoter's own stale quote
  never rests, and while the price stays the quoter does not notice (`strategy.py:85`).
  `MissingQuoteWasCrossed` says that this is the only way a quote can be missing.
* The docstring at `backtest_report.py:31` says "Same math as risk/src/position.rs's
  PositionTracker".  It is not: `position.rs:48` truncates the average price to whole ticks
  before it subtracts, `backtest_report.py:57` keeps the fraction and rounds the P&L (half
  to even).  Buy 1 at 0, buy 1 at 1 and sell 2 at 1: the report has realized 1, the tracker
  2.  `ReplayAgrees` says how far apart they may come, and that position and average price
  are the same.
* `delta-hedging-design-doc.md:195-197` says that fills "move `_current_futures_position`
  toward the target and hedge error stays bounded by the configured band over the session",
  and `test_delta_hedge_integration.py:100` that it "should stay bounded by repeated
  rehedging".  `on_price` (`delta_hedger.py:35`) ignores orders that are outstanding; a tick
  that comes before the fills are drained (`poll_events` waits 50 ms) hedges the same error
  again, and the position overshoots.  `HedgeConverges` says by how much: by exactly what
  was on its way at the last decision, less what was not executed.
* `historical-backtest-design-doc.md:48-51` says of the cache that "it's what makes
  backtests reproducible", and `test_historical_feed.py:56-58` expects the whole series from
  it.  The file is written in place under its final name (`historical_feed.py:63-65`), so a
  backtest that starts while another one writes, or after one was killed while it wrote,
  replays a short series.  `WrongOnlyIfDisturbed` says that there is no other cause, and
  `PricesInPlace` that the prices it does replay are the right ones.
* `_cache_path` gives tickers that differ in `=` and `/` one file, so that the second of
  them replays the first one's prices (`historical_feed.py:54`); that is one of the
  exceptions in `WrongOnlyIfDisturbed` and `PricesInPlace`.
* The comment at `live_ib_client.py:74-78`, that calling `ib_async` from another thread is
  not safe once `ib.run()` owns the loop, is at odds with `disconnect()`, which
  `run_live_session.py:38` calls from the main thread; what `ib_async` does then is outside
  the repository, and the model takes it to end the loop.  In the same driver the order book
  client is constructed before the `try`, so that a refused connection leaves the IBKR
  client connected until the process ends (`ConnectBook`).

`ReadyIsReadable` also shows that the test "already removed this pass" in `run()` never
succeeds and that `recv` never meets `EAGAIN` there: only the connection being handled
is ever removed.

### Bounds

Four orders are enough for a level with three orders, of which the middle one is
cancelled, and for a taker that walks two levels; three prices make the choice of the
best level matter on both sides with a level in between.  Quantity 0 is included because
the server does not refuse it.  Order ids are symmetric.  Three clients are maker, taker
and subscriber; with two descriptors the third gets one that was closed.  `MaxRequests`
bounds the requests of a client and `MaxTotal` those of all: three are a resting order, a
trade against it and one more.
Limit 1 with fills of 1 and 2 reaches positions at, below and above the limit and turns
them through flat; the prices have fractional averages of either sign.  `MaxExposure` and
`MaxClosed` stop the cycle that `risk_settles` exhibits; in that run they are not reached,
so that its counterexample is a cycle of the code and not a stop at a bound.
In the quoting session a move between the two feed prices makes a fresh order meet the stale one of
the other side exactly, and three ticks are a quote, its replacement and the replacement of
that; six own ids suffice for them, and the clock bound (30) is never reached.  The lower
quote is below zero, so that a price that loses its sign on the wire shows.  `LongBytes` 2
is the least for which the order of the bytes matters, and differs from `QuantityBytes` 1,
so that a field of the wrong width shifts what follows it.
In the hedging backtest the targets are 1, 0, -1 and -2, so that hedges go both ways and a
late fill makes the hedger trade too much and turn the position through flat; `MaxTicks` 3
is an opening, an addition or a reduction, and a reversal.  `MaxPieces` 2 is the least with
an order filled at two prices, `MaxQuoterIds` 2 makes either of the hedger's first two ids
collide.  `MaxUpdates` 3 lets two prices wait in the queue while a third is traded on; the
updates are a last trade off the tick, a midpoint half way between two ticks below zero, a
close behind half a quote, and nothing.  Three backtests are a writer, one that overlaps
with it and one that comes after; one of the series has a missing close.

### Fairness

`MatchOne` and `Return` are weakly fair because `submit` is a function call on one thread.
The server's thread is weakly fair because `run()` has no blocking call but `poll`, with
a timeout; clients owe nothing.  For the risk engine, its loop and the
execution of the orders it sent are weakly fair.  In a session the main thread
is weakly fair, since each of its waits has a timeout, and so is a `submit` in progress;
the reader thread, the arrival of requests and the others' orders are not, and
`SendRaises` may never happen.  In the hedging backtest only the main thread is fair, and of
it only what does not depend on the pricing server: the wait for a price has no timeout,
and `BacktestEnds` says that a backtest that does not end is in that wait (connecting to a
silent host is ended by the kernel).  In the live
session only the main thread and the passing of time are fair: every wait of the main
thread has a timeout, and of IBKR nothing is assumed.
Deadlock is not an error in the server, risk, session and feed runs, where clients and trades are bounded and the rest then waits for input.

## 4. What is proved

All theorems are about every value of the constants, from the named assumptions beside
them.  These give the constants their types and say little else:

* `OrderBook`: prices are a range of integers, quantities naturals, `NoOrder` is no order.
* `OrderBookServer`: a request carries an id, a side, a type, a price and a quantity of the
  book's sets (`RequestsAssumption`; decoding can make nothing else), `Nobody` is no client.
* `RiskEngine`: prices are integers, and the quantity of a fill is not zero, which
  `RestingIsLive` and the guard of the matching loop ensure on the other side.
* `WireProtocol`: fields have at least one byte.
* `QuotingSession`: the quoter's prices, its size and the orders of the others are of the
  book's sets (`SessionAssumption`), the others do not use the session's ids
  (`OwnIdsAssumption`), ids, prices, quantities and timestamps fit their fields
  (`FieldsAssumption`; 64 and 32 bits in the code), `NoQuote` is no quote.
* `HedgeSession`: leg quantities are integers, deltas and prices numbers.
* `LiveSession`, `HistoricalCache`: prices are numbers (or `NaN` in the live feed); the
  marks for a row that was cut or skipped in a file are no rows of a series, which
  may have missing closes (`NoClose`).

| Module | Theorem | States |
|---|---|---|
| `OrderBookProofs` | `BookInvariant` | `BookSpec => []BookInv`, from which the next six |
| | `TypeCorrect`, `IndexCorrect`, `NeverCrossed`, `QueuesAreFifo` | `[]BookTypeOK`, `[]IndexMatchesBook`, `[]BookNotCrossed`, `[]TimePriority` |
| | `LevelsAreNeverEmpty`, `RestingOrdersAreLive` | `[]NoEmptyLevel`, `[]RestingIsLive` |
| | `BookImplementsPriority` | `BookSpec => ImplementsPriceTimePriority` |
| `AllocationProofs` | `LoopAllocates` | `MCSpec => []LoopComputesAllocation` |
| `ServerProofs` | `ServerInvariant` | `ServerSpec => []ServerInv` |
| | `ServerTypeCorrect`, `OwnersCorrect`, `ReadyNeverStale`, `ConnectionsCorrect` | `[]ServerTypeOK`, `[]OwnersAreResting`, `[]ReadyIsReadable`, `[]ConnectionsMatchFds` |
| | `ServerKeepsPriority` | `ServerSpec => ImplementsPriceTimePriority` |
| | `AnswersAccounted`, `FillsAccounted` | `ServerSpec => []AnswerInv`, `MCSpec => [](ServerInv /\ AnswerInv /\ RoutingInv)` |
| | `RequestsAckedOnce` | `ServerSpec => []OneAckPerRequest` |
| | `FillsReachAll`, `AcksComeFirst` | `MCSpec => []FillsReachEntitled`, `[]AckPrecedesFills` |
| `RiskProofs` | `RiskInvariant` | `Spec => []RiskInv` |
| | `RiskTypeCorrect`, `PositionIsExact`, `HaltsAreLogged` | `[]TypeOK`, `[]PositionMatchesExposure`, `[]HaltLoggedOnBreach` |
| | `RealizedIsExact`, `LoggedPnlIsExact` | `MCSpec => []RealizedWithinTruncation`, `[]LoggedPnlIsMarkToMarket` |
| `HedgeProofs` | `HedgeInvariant` | `HedgeSpec => []HedgeInv` |
| | `HedgeTypeCorrect`, `PositionIsLagged`, `LogCausal` | `[]HedgeTypeOK`, `[]PositionLagsFills`, `[]LogIsCausal` |
| | `HedgingConverges` | `MCSpec => []HedgeConverges` |
| | `ReportAgrees`, `DrawdownCorrect` | `HedgeSpec => []ReplayAgrees`, `[]DrawdownIsWorstFall` |
| `QuotingProofs` | `DecodingUndoesEncoding` | decoding gives back every request, ack and fill that fits its fields |
| | `AliveInvariant` | `MCSpec => []AliveInv` |
| | `SessionTypeCorrect`, `ReaderGetsTheAnswers` | `MCSpec => []SessionTypeOK`, `[]EventsAreAnswers` |
| | `NoFillIsMissed` | `MCSpec => []MissingQuoteWasCrossed` |
| | `WholeQuotesAreKnown` | if `WholeQuotes`: `MCSpec => []NoOrphanedQuote` |
| `FeedProofs` | `StartsInOrder`, `FeedFaithful` | `LiveSpec => []StartUpOrder`, `[]FeedIsFaithful` |
| | `CacheIsRight`, `PricesStayInPlace` | `MCSpec => []WrongOnlyIfDisturbed`, `CacheSpec => []PricesInPlace` |

### The book

None of the properties is inductive by itself. A trade keeps the levels non-empty only if
its front order is the one the index names, and keeps the index right only if ids are unique
across both ladders, which in turn needs the order being matched to be in neither. The book
stays uncrossed when a remainder rests because the matching loop stopped at the best price
of the *other* ladder, so that the best price has to be shown best of all its levels. Queues
stay in order of arrival because the order that joins carries a later stamp than everything
resting, even though the clock has gone on since it was stamped. `BookInv` is the
conjunction of these six and of the fact that the order being matched is not in the book
(`IncomingNotQueued`).

The argument goes in two layers. The first is about ladders alone: three ways in which a
ladder changes (an order is removed, the front order shrinks, an order joins the end of a
queue) keep `LadderInv` (`RemoveKeepsLadders`, `ShrinkKeepsLadders`, `EnterKeepsLadders`).
The second takes each action to one of these: `MatchOne` removes or shrinks, `CancelFound`
removes, `Return` joins, after `RemainderDoesNotCross` has shown that what the matching loop
leaves does not cross the other side. `BestPriceIsBest` (that `begin()` of a ladder is its
best price) rests on `LeastPrice` and `GreatestPrice`, and these on `LeastNatural`.

The refinement maps the ladders to the set of their orders. The same three changes of a
ladder are three changes of that set (`RemoveChangesResting`, `ShrinkChangesResting`,
`EnterChangesResting`), because a step touches one queue and the other queues' orders have
other ids. `EligibleOrders` is the heart of it: the front order of the best level goes
before every other order that the taker could trade with, which takes the order of the
queues, the order of the levels and the fact that each order is in the level of its own
price.

The refinement is about one trade; `LoopAllocates` is about all trades of one `submit`. Its
loop invariant `LoopInv` says where the loop is: the orders it has `UsedUp` are the `First`
among those that were eligible when the request came, each has one fill with its whole
quantity at its own price, and the request has lost exactly the sum of these; or besides one
more order has been taken in part, and then nothing of the request is left
(`TradeProgresses`). When the loop ends, with nothing left or with no order
left that could trade (`LoopLeavesNothing`), that is the allocation: those used up get all
(`FirstGetAll`), the last gets the rest (`LastGetsRest`), the others nothing
(`OthersGetNothing`). A sum over a set is a fold that chooses its elements in some order; that the order
does not matter is proved first (`SumsAgree`, `SumSplits`, `SumGrows`).

### The server

`ServerInv` joins four things. `BookInv` carries over since every step of the server is a
step of its book or leaves it alone (`NextIsBookStep`); that also gives
`ServerKeepsPriority`. `NetInv` says that a client waits in the backlog, has one descriptor,
or neither; that what is left of the list that `poll` reported are open connections with
something to read, each once; and that the connection being handled is open and not in that
list any more, which is why removing it makes nothing stale. `BuffersOK` says that a buffer
is a sequence of tags and bodies of requests, so that the parser only takes requests out of
it. `OwnersOK` extends `OwnersAreResting` into the middle of a dispatch, where the owners of
orders that have been filled still have an entry, until the fill is reported.

### What the server's clients receive

The properties of delivery speak of the moments between dispatches; in the middle of one,
an ack or a copy of a fill is in `outbox` and perhaps the ack of the order being matched does not
exist yet. The proofs therefore count for each client what is `Due` to it: what it has
received, and the messages in `outbox` whose descriptor is its own. A `send` changes nothing
of that. `AnswerInv` says that the acks due to a client, the ack that the order being
matched is `Owed`, and the requests not yet parsed (in the buffer, and on a stream that is
`Framed`) are together the requests it has written, in order (`Balance`); `OneAckPerRequest` is
this with `outbox` empty and nothing being matched.

`RoutingInv` is about fills. `MakersOK` says that the owner map leads to the client that
made an order as long as that client is connected, which holds because a descriptor is not given out
while it is open. From it `ReportBinds` shows that the recipients of a fill hold exactly one
descriptor of each entitled client that is connected. That a fill is not confused with an earlier one
between the same orders comes from the timestamps: the fills of one `submit` are `Coming` in
order and with different resting orders, and all of them are later than those
`Reported`. `FillsOK` is then `FillsReachEntitled` for what is due, and `AckFirstOK` puts the
ack of an order before its fills in what is due.

### The risk engine

`RiskInv` joins the types (with those of the messages on the way, since the average price
needs fills that are not empty), `PositionMatchesExposure`, and `LogOK`, what the log holds
at each point of the loop. That the fills of one order add up to its executed quantity is a
sum over a sequence (`SumOfExecution`), from what `BasicLemmas` says of `Total`.

For the P&L the proof follows `Discrepancy`, the difference between the realized P&L and
cash flow plus position at the average price, times the denominator of the average. A fill
that adds to the position multiplies it and the denominator by the same factor
(`IncreaseKeepsAccount`, with `FractionExact` for the reduction to lowest terms); a fill
that closes `c` units adds `c` times the truncated part of the average price, which is less
than `c` ticks (`ReduceKeepsAccount`, `TruncationError`); a fill that turns the position
adds that for the part it closes and starts a new denominator. `AccountInv` needs besides
only that the logged update is of the present tracker.

### The hedging backtest

`LogIsCausal` is about the log, but events reach the log through two queues. `HedgeInv`
therefore speaks about the `Story`: the log followed by the rows that the events on their
way will become. A step of the reader thread or of `drain` does not change the story, an
answer of the server appends to it an ack and fills of an order that had no ack, and
`Outstanding`, the orders not yet answered, has each id once. `HedgeConverges` needs that a
hedge is on its way as a whole: `OnTarget` says that what was executed and what is
ordered together are within the band of the target plus the surplus. At a decision the
surplus is what the hedger's position lags behind (`WhatIsOnItsWay`), and serving an order
moves its quantity from ordered to executed or takes it out of the surplus (`ServedOnTarget`).

`ReplayAgrees` compares two folds over the fills of the log, one in Python and one in Rust.
They are not the same, but by induction over the fills (`AccountsAgree`) both keep the same position and the same average
price (`SameAccount`), and a closing fill sets their P&L apart by at most the half tick that one rounds
and less than the tick per unit that the other truncates (`RoundingsApart`, `FillAgrees`). That this
position is the hedger's own follows the log through `drain`: `LogAddsUp` says that the fills in
the log add up to it, and `LogSteps` that every step keeps that. For the drawdown,
`DrawdownUnfolds` carries the running peak along the curve: it is the greatest value so
far, and the drawdown the deepest fall so far (`Falls`), which a new point changes by its fall from
the peak only.

### The wire protocol and the quoting session

The proofs go up through the layers. *Numbers*: the bytes `BigEndian` makes of a value that
fits its field stand for that value, without a sign and as two's complement, by induction
over the width. *Messages*: `pack` puts each field where
`unpack` looks for it, and the hand-written layout of `protocol.cpp` is that of the formats
(`SizesAgree`); so decoding undoes encoding (`DecodingUndoesEncoding`). *Streams*: `Carries`
says that some bytes are the codes of some messages, one after the other; then `Frames` cuts
them there (`CarriesFrames`), the first message is what a reader finds at the front
(`CarriesFirst`), and writing at the end appends a message (`CarriesBoth`). *The
connection*: `WireOK` says which requests and which answers are on their way, with the tag that
the reader thread has already taken put back in front; every step of the three threads keeps
it and moves at most one message. `EventsAreAnswers` is a part of `WireOK`. That timestamps
fit needs a bound on the clock (`BookFits`): a fill either ends a submit or uses up an order
that was stamped when it came.

For the quotes, `AliveInv` keeps a `Ledger` of ids: those in new orders and in cancels still
to be served, with the quoter, in the book, in the engine's hand, in fills that have not
been drained, and crossed. A new order precedes everything else that carries its id (`Orderly`), so an
id whose order has not been served yet is in none of the later places; a quote is not being
cancelled; and a quote is somewhere, or crossed. Each kind of step moves ids between these
sets (`LedgerTick`, `LedgerSubmit`, `LedgerCancel`, `LedgerTrade`, `LedgerReturn`,
`LedgerPoll`). When everything is answered the places on the way are empty, which leaves the
book and `crossed`: that is `MissingQuoteWasCrossed`.

`NoOrphanedQuote` needs the converse, that an order in the book is a quote or being cancelled.
That is false when a quote trades in part: `on_fill` forgets it at the first fill, and the
run `quotes_orphaned` shows the rest left behind. `WholeQuotesAreKnown` therefore has the
hypothesis `WholeQuotes`, that the orders of the others have size 0 or the size of a quote.
Then nothing in the book ever has another size (`WholeLife`), a filled order is gone from the book
before the quoter hears of it (`Whole`), and forgetting it is right.

### The feeds

`Handshake` gives for each place of either thread the flags the other may rely on. `FeedInv`
says that the queue holds the prices of the updates after those already consumed; the
distance to the nearest tick is `RoundIsNearest`. For the cache, every step has a
`Footprint` (one backtest's place, one file). `WrongOnlyIfDisturbed` needs to know for every backtest that may still be right (`Trusted`)
that its file is absent, or holds the rows written so far, or all of them, and that nobody
else is writing it (`Intact`).

`PricesInPlace` trusts nobody: `PlaceInv` says of every file, whoever has written it, that a
row in it is that row of the series, a hole, or one cut by a backtest that is now killed
(`Placed`). Truncating a file keeps that, and a row written at its place leaves the others
in theirs (`WithRowFacts`, `FilesStayPlaced`); a killed backtest stays where it was
(`CutsStay`); and a reader takes over what the file has (`ReadersStayPlaced`).

### Recursion

`Total`, `Sift`, `aggregate_delta`, the replay, the tracker's fold, the drawdown, the bytes of a
number, the offsets and bytes of a format and the frames of a stream are recursive functions, and the sums over sets are folds of the community modules. The library's induction
theorems have an operator as parameter, which the installed provers cannot instantiate;
`BasicLemmas` proves induction as a statement about sets of naturals (`LeastNatural`,
`InductionUpTo`) and from it that a recursively defined function exists and is unique
(`IterationExists`, `IterationUnique`).

### Only model-checked

* Liveness: `SubmitReturns`, `RequestsAreAnswered`, `SessionCloses`, `BacktestEnds`,
  `LiveSessionEnds`.  The prover does not do fairness.
* The five runs that exhibit violations.

## 5. What is not modelled

* `snapshot`, start-up and `stop()` of the server, full send buffers (`send_all` spinning
  on `EAGAIN`).
* `protocol.rs`, the third copy of the wire protocol; the directions of the codecs that no
  program uses, and the bytes of a subscription.
* Option pricing: floating-point formulas.  The deltas are inputs of `HedgeSession`, and of
  the pricing server only an answer, an exception or silence is visible there.
* The FIX parser: string processing without state that no other part calls.
* `hedge_report.py` and the series it averages, the Sharpe ratio and the win rate:
  statistics of recorded numbers that feed back into nothing.
* `SyntheticPriceFeed`, whose random walk is covered by a feed of arbitrary prices; CSV
  output, arguments and printing of the drivers; the benchmarks and the demo.

## 6. Plan

1. Done: the book, its abstract specification and its proofs; the server; the risk
   engine; the wire protocol and the quoter's session; the hedger's backtest and the report;
   the live feed and the download cache.
2. Done: the proofs of section 4 for the book, the refinement, the allocation, the server
   and what its clients receive, the risk engine, the hedging backtest and its report, the
   wire protocol and the quoting session, and the feeds.  Every invariant a passing run
   checks is a theorem.
3. Left: that `OrderBookServer` implements the one connection `QuotingSession` has of it,
   and the third copy of the protocol, `protocol.rs`.

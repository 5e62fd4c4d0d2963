---------------------------- MODULE FeedProofs -----------------------------
(***************************************************************************)
(* Proofs about the two price feeds: of the live session, for every stream *)
(* of market data and every interleaving of the two threads, and of the    *)
(* backtests that share a cache, for every number of them, every series    *)
(* and every point at which one may be killed.                             *)
(***************************************************************************)
EXTENDS MCFeeds, BasicLemmas

-----------------------------------------------------------------------------
(* The live session: the handshake of the threads. *)

(* Each thread's place says what the other may rely on: the error is there *)
(* before the event, and the contract before the request.                  *)
Handshake ==
    /\ ib \in {"connecting", "failing", "failed", "waiting", "qualifying", "running", "stopped"}
    /\ connect_error <=> ib \in {"failing", "failed"}
    /\ connected <=> ib \notin {"connecting", "failing"}
    /\ main \notin {"construct", "raised"} => connected /\ ~connect_error
    /\ main \notin {"construct", "subscribe", "raised"} => pending
    /\ subscribe_requested => pending
    /\ ib \in {"qualifying", "running"} => subscribe_requested

(* Every step of either thread keeps the handshake.                        *)
LEMMA HandshakeKept ==
    ASSUME Handshake, [LiveNext]_liveVars
    PROVE  Handshake'
<1>1. CASE ConnectFails
  BY <1>1 DEF ConnectFails, Handshake, feedVars, requestVars
<1>2. CASE ReportFailure
  BY <1>2 DEF ReportFailure, Handshake, feedVars, requestVars
<1>3. CASE ConnectSucceeds
  BY <1>3 DEF ConnectSucceeds, Handshake, feedVars, requestVars
<1>4. CASE SubscriptionSeen
  BY <1>4 DEF SubscriptionSeen, ThreadGoes, Handshake, feedVars, requestVars
<1>5. CASE Subscribe
  BY <1>5 DEF Subscribe, Handshake, feedVars, requestVars
<1>6. CASE QualifyRaises \/ LinkDrops
  BY <1>6 DEF QualifyRaises, LinkDrops, ThreadGoes, Handshake, feedVars, requestVars
<1>7. CASE \E t \in TickerStates : Update(t)
  BY <1>7 DEF Update, Handshake, threadVars, feedVars, requestVars
<1>8. CASE Constructed
  BY <1>8 DEF Constructed, MainGoes, Handshake, threadVars, requestVars
<1>9. CASE ConnectTimesOut
  BY <1>9 DEF ConnectTimesOut, MainGoes, Handshake, threadVars, requestVars
<1>10. CASE StorePending
  BY <1>10 DEF StorePending, Handshake, threadVars
<1>11. CASE RequestSubscription
  BY <1>11 DEF RequestSubscription, Handshake, threadVars
<1>12. CASE SubscribeReturns \/ DurationElapsed \/ AwaitPrice \/ GetTimesOut \/ Drain
  BY <1>12 DEF SubscribeReturns, DurationElapsed, AwaitPrice, GetTimesOut, Drain, MainGoes, Handshake,
               threadVars, requestVars
<1>13. CASE ConnectBook \/ Trade
  BY <1>13 DEF ConnectBook, Trade, MainGoes, Handshake, threadVars, requestVars
<1>14. CASE GetPrice
  BY <1>14 DEF GetPrice, Handshake, threadVars, requestVars
<1>15. CASE Disconnect
  BY <1>15 DEF Disconnect, Handshake, requestVars
<1>16. CASE DeadlinePasses
  BY <1>16 DEF DeadlinePasses, Handshake, threadVars, feedVars, requestVars
<1>17. CASE UNCHANGED liveVars
  BY <1>17 DEF liveVars, Handshake, threadVars, feedVars, requestVars
<1> QED BY <1>1, <1>2, <1>3, <1>4, <1>5, <1>6, <1>7, <1>8, <1>9, <1>10, <1>11, <1>12, <1>13, <1>14,
           <1>15, <1>16, <1>17 DEF LiveNext, ThreadStep, LiveMainStep

(* Whichever thread is faster, the constructor of IBAsyncClient lets       *)
(* nobody past a failed connection, and _thread_main finds the contract    *)
(* and the callback there when it reads them.                              *)
THEOREM StartsInOrder == LiveSpec => []StartUpOrder
<1>1. LiveInit => Handshake
  BY DEF LiveInit, Handshake
<1>2. Handshake /\ [LiveNext]_liveVars => Handshake'
  BY HandshakeKept
<1>3. Handshake => StartUpOrder
  BY DEF Handshake, StartUpOrder
<1> QED BY <1>1, <1>2, <1>3, PTL DEF LiveSpec

-----------------------------------------------------------------------------
(* The live session: the prices. *)

(* The price that an update shows, if it shows one.                        *)
Shown(t) == IF t.last # NaN THEN t.last
            ELSE IF t.bid # NaN /\ t.ask # NaN THEN Mid(t.bid, t.ask) ELSE t.close

(* A tick is nearest to the price.                                         *)
Nearest(price, tick) == OffBy(price, tick) <= price.den

(* The queue holds what the later updates showed.                          *)
FeedInv ==
    /\ updates \in Seq(TickerStates) /\ queue \in Seq(Rational) /\ prices \in Seq(Int)
    /\ Len(prices) + Len(queue) = Len(updates)
    /\ \A i \in 1..Len(prices) : Nearest(Shown(updates[i]), prices[i])
    /\ \A i \in 1..Len(queue) : queue[i] = Shown(updates[Len(prices) + i])

(* _best_price is a fraction, and it is what the update shows.             *)
LEMMA BestPriceIsShown ==
    ASSUME NEW t \in TickerStates, NEW price \in best_price(t)
    PROVE  price = Shown(t) /\ price \in Rational
<1>1. {t.last, t.bid, t.ask, t.close} \subseteq Rational \cup {NaN}
  BY LiveAssumption DEF Rational
<1>2. CASE t.last # NaN
  BY <1>1, <1>2 DEF best_price, Shown
<1>3. CASE t.last = NaN /\ t.bid # NaN /\ t.ask # NaN
  <2>1. PICK bid, ask : bid = t.bid /\ ask = t.ask
    OBVIOUS
  <2>2. bid.num \in Int /\ bid.den \in Nat \ {0} /\ ask.num \in Int /\ ask.den \in Nat \ {0}
    BY <1>1, <1>3, <2>1 DEF Rational
  <2>3. bid.num * ask.den + ask.num * bid.den \in Int
    BY <2>2
  <2>4. 2 * bid.den \in Nat \ {0}
    BY <2>2
  <2>5. 2 * bid.den * ask.den \in Nat \ {0}
    BY <2>2, <2>4, PositiveProduct
  <2>6. Mid(bid, ask) \in Rational
    BY <2>3, <2>5, FractionTyped DEF Mid, Rational
  <2>7. price = Mid(bid, ask) /\ Shown(t) = Mid(bid, ask)
    BY <1>3, <2>1 DEF best_price, Shown
  <2> QED BY <2>6, <2>7
<1>4. CASE t.last = NaN /\ ~(t.bid # NaN /\ t.ask # NaN)
  BY <1>1, <1>4 DEF best_price, Shown
<1> QED BY <1>2, <1>3, <1>4

(* price_to_ticks is the nearest tick.                                     *)
LEMMA TicksAreNearest ==
    ASSUME NEW price \in Rational
    PROVE  price_to_ticks(price) \in Int /\ Nearest(price, price_to_ticks(price))
<1>1. price.num \in Int /\ price.den \in Nat \ {0}
  BY DEF Rational
<1>2. PICK n, d : n = 4 * price.num /\ d = price.den
  OBVIOUS
<1>3. n \in Int /\ d \in Nat \ {0}
  BY <1>1, <1>2
<1>4. Round([num |-> n, den |-> d]) \in Int /\ 2 * Abs(n - Round([num |-> n, den |-> d]) * d) <= d
  BY <1>3, RoundIsNearest
<1> QED BY <1>2, <1>4 DEF price_to_ticks, Nearest, OffBy

(* An update: what it shows goes to the end of the queue.                  *)
LEMMA UpdateKeepsFeed ==
    ASSUME FeedInv, NEW t \in TickerStates, Update(t)
    PROVE  FeedInv'
<1>1. PICK price \in best_price(t) : queue' = Append(queue, price) /\ updates' = Append(updates, t)
  BY DEF Update
<1>2. prices' = prices
  BY DEF Update, feedVars
<1>3. price = Shown(t) /\ price \in Rational
  BY BestPriceIsShown
<1>4. /\ updates \in Seq(TickerStates) /\ queue \in Seq(Rational) /\ prices \in Seq(Int)
      /\ Len(prices) + Len(queue) = Len(updates)
      /\ \A i \in 1..Len(prices) : Nearest(Shown(updates[i]), prices[i])
      /\ \A i \in 1..Len(queue) : queue[i] = Shown(updates[Len(prices) + i])
  BY DEF FeedInv
<1>5. Len(prices) \in Nat /\ Len(queue) \in Nat /\ Len(updates) \in Nat
  BY <1>4
<1>6. /\ queue' \in Seq(Rational) /\ Len(queue') = Len(queue) + 1 /\ queue'[Len(queue) + 1] = price
      /\ \A i \in 1..Len(queue) : queue'[i] = queue[i]
  BY <1>1, <1>3, <1>4, AppendProperties
<1>7. /\ updates' \in Seq(TickerStates) /\ Len(updates') = Len(updates) + 1
      /\ updates'[Len(updates) + 1] = t
      /\ \A i \in 1..Len(updates) : updates'[i] = updates[i]
  BY <1>1, <1>4, AppendProperties
<1>8. ASSUME NEW i \in 1..Len(prices) PROVE Nearest(Shown(updates'[i]), prices[i])
  <2>1. i \in 1..Len(updates)
    BY <1>4, <1>5
  <2> QED BY <2>1, <1>4, <1>7
<1>9. ASSUME NEW i \in 1..Len(queue') PROVE queue'[i] = Shown(updates'[Len(prices) + i])
  <2>1. CASE i \in 1..Len(queue)
    <3>1. Len(prices) + i \in 1..Len(updates)
      BY <2>1, <1>4, <1>5
    <3> QED BY <2>1, <3>1, <1>4, <1>6, <1>7
  <2>2. CASE i \notin 1..Len(queue)
    <3>1. Len(prices) + Len(queue) = Len(updates) /\ Len(queue') = Len(queue) + 1
      BY <1>4, <1>6
    <3>2. i = Len(queue) + 1
      BY <2>2, <3>1, <1>5
    <3>3. Len(prices) + i = Len(updates) + 1
      BY <3>1, <3>2, <1>5
    <3> QED BY <3>2, <3>3, <1>3, <1>6, <1>7
  <2> QED BY <2>1, <2>2
<1>10. Len(prices) + Len(queue') = Len(updates')
  BY <1>4, <1>5, <1>6, <1>7
<1> QED BY <1>2, <1>4, <1>6, <1>7, <1>8, <1>9, <1>10 DEF FeedInv

(* next_price: the head of the queue is what the next update showed.       *)
LEMMA GetKeepsFeed ==
    ASSUME FeedInv, GetPrice
    PROVE  FeedInv'
<1>1. PICK price, tick : price = Head(queue) /\ tick = price_to_ticks(price)
  OBVIOUS
<1>2. queue # <<>> /\ prices' = Append(prices, tick) /\ queue' = Tail(queue) /\ updates' = updates
  BY <1>1 DEF GetPrice
<1>3. /\ updates \in Seq(TickerStates) /\ queue \in Seq(Rational) /\ prices \in Seq(Int)
      /\ Len(prices) + Len(queue) = Len(updates)
      /\ \A i \in 1..Len(prices) : Nearest(Shown(updates[i]), prices[i])
      /\ \A i \in 1..Len(queue) : queue[i] = Shown(updates[Len(prices) + i])
  BY DEF FeedInv
<1>4. Len(prices) \in Nat /\ Len(queue) \in Nat \ {0} /\ Len(updates) \in Nat
  BY <1>2, <1>3, EmptySeq
<1>5. /\ price \in Rational /\ price = queue[1] /\ queue' \in Seq(Rational)
      /\ Len(queue') = Len(queue) - 1 /\ \A i \in 1..Len(queue') : queue'[i] = queue[i + 1]
  BY <1>1, <1>2, <1>3, HeadTailProperties
<1>6. tick \in Int /\ Nearest(price, tick)
  BY <1>1, <1>5, TicksAreNearest
<1>7. /\ prices' \in Seq(Int) /\ Len(prices') = Len(prices) + 1 /\ prices'[Len(prices) + 1] = tick
      /\ \A i \in 1..Len(prices) : prices'[i] = prices[i]
  BY <1>2, <1>3, <1>6, AppendProperties
<1>8. ASSUME NEW i \in 1..Len(prices') PROVE Nearest(Shown(updates[i]), prices'[i])
  <2>1. CASE i \in 1..Len(prices)
    BY <2>1, <1>3, <1>7
  <2>2. CASE i \notin 1..Len(prices)
    <3>1. i = Len(prices) + 1 /\ 1 \in 1..Len(queue)
      BY <2>2, <1>4, <1>7
    <3>2. price = Shown(updates[i])
      BY <3>1, <1>3, <1>5
    <3> QED BY <3>1, <3>2, <1>6, <1>7
  <2> QED BY <2>1, <2>2
<1>9. ASSUME NEW i \in 1..Len(queue') PROVE queue'[i] = Shown(updates[Len(prices') + i])
  <2>1. i + 1 \in 1..Len(queue) /\ Len(prices') + i = Len(prices) + (i + 1)
    BY <1>4, <1>5, <1>7
  <2>2. queue[i + 1] = Shown(updates[Len(prices) + (i + 1)])
    BY <2>1, <1>3
  <2> QED BY <2>1, <2>2, <1>5
<1>10. Len(prices') + Len(queue') = Len(updates)
  <2>1. /\ Len(prices) + Len(queue) = Len(updates) /\ Len(queue') = Len(queue) - 1
        /\ Len(prices') = Len(prices) + 1
    BY <1>3, <1>5, <1>7
  <2> QED BY <2>1, <1>4
<1> QED BY <1>2, <1>3, <1>5, <1>7, <1>8, <1>9, <1>10 DEF FeedInv

(* Nothing else touches the feed.                                          *)
LEMMA FeedKept ==
    ASSUME FeedInv, [LiveNext]_liveVars
    PROVE  FeedInv'
<1>1. CASE \E t \in TickerStates : Update(t)
  BY <1>1, UpdateKeepsFeed
<1>2. CASE GetPrice
  BY <1>2, GetKeepsFeed
<1>3. CASE UNCHANGED <<queue, updates, prices>>
  BY <1>3 DEF FeedInv, Nearest, OffBy, Shown, Mid
<1>4. CASE ConnectFails \/ ReportFailure \/ ConnectSucceeds \/ SubscriptionSeen \/ Subscribe
           \/ QualifyRaises \/ LinkDrops \/ DeadlinePasses \/ UNCHANGED liveVars
  BY <1>3, <1>4 DEF ConnectFails, ReportFailure, ConnectSucceeds, SubscriptionSeen, Subscribe,
               QualifyRaises, LinkDrops, DeadlinePasses, ThreadGoes, liveVars, feedVars
<1>5. CASE StorePending \/ RequestSubscription \/ Disconnect
  BY <1>3, <1>5 DEF StorePending, RequestSubscription, Disconnect
<1>6. CASE Constructed \/ ConnectTimesOut \/ SubscribeReturns \/ ConnectBook \/ DurationElapsed
           \/ AwaitPrice \/ GetTimesOut \/ Trade \/ Drain
  BY <1>3, <1>6 DEF Constructed, ConnectTimesOut, SubscribeReturns, ConnectBook, DurationElapsed,
               AwaitPrice, GetTimesOut, Trade, Drain, MainGoes
<1> QED BY <1>1, <1>2, <1>4, <1>5, <1>6 DEF LiveNext, ThreadStep, LiveMainStep

(* The strategy is shown the market as it went: its i-th price is the tick *)
(* nearest to what the i-th update with a price showed.                    *)
THEOREM FeedFaithful == LiveSpec => []FeedIsFaithful
<1>1. LiveInit => FeedInv
  BY DEF LiveInit, FeedInv
<1>2. FeedInv /\ [LiveNext]_liveVars => FeedInv'
  BY FeedKept
<1>3. FeedInv => FeedIsFaithful
  BY DEF FeedInv, FeedIsFaithful, Nearest, Shown
<1> QED BY <1>1, <1>2, <1>3, PTL DEF LiveSpec

-----------------------------------------------------------------------------
(* The cache: what a step of a backtest leaves alone. *)

Places == {"check", "download", "open", "write", "read", "loop", "ended", "raised", "killed"}
Busy   == {"download", "open", "write"}

CacheTyped ==
    /\ request \in [Backtests -> Requests]
    /\ at \in [Backtests -> Places]
    /\ row \in [Backtests -> Nat \ {0}]
    /\ DOMAIN ticks = Backtests

(* A step of b changes b's own state and b's own file, the file only if b  *)
(* has found none, and b finds none only if there is none.                 *)
Footprint(b) ==
    /\ request' = request
    /\ \A c \in Backtests : c # b => at'[c] = at[c] /\ row'[c] = row[c] /\ ticks'[c] = ticks[c]
    /\ \A p : p # Path(b) => (p \in DOMAIN file' <=> p \in DOMAIN file)
    /\ \A p \in DOMAIN file : p \in DOMAIN file' /\ (p # Path(b) => file'[p] = file[p])
    /\ at[b] \notin Busy => file' = file
    /\ at'[b] \in Busy /\ at[b] \notin Busy => Path(b) \notin DOMAIN file

(* A file that is replaced, or made.                                       *)
LEMMA PutFileFacts ==
    ASSUME NEW path, NEW rows, file' = PutFile(path, rows)
    PROVE  /\ file'[path] = rows /\ path \in DOMAIN file'
           /\ \A p : p # path => (p \in DOMAIN file' <=> p \in DOMAIN file)
           /\ \A p \in DOMAIN file : p \in DOMAIN file' /\ (p # path => file'[p] = file[p])
BY DEF PutFile

(* A backtest changes its own place, and no file but its own.              *)
LEMMA StepFootprint ==
    ASSUME CacheTyped, NEW b \in Backtests, BacktestStep(b) \/ Kill(b)
    PROVE  CacheTyped' /\ Footprint(b)
<1>1. /\ at[b] \in Places /\ row[b] \in Nat \ {0} /\ DOMAIN at = Backtests /\ DOMAIN row = Backtests
      /\ DOMAIN ticks = Backtests
  BY DEF CacheTyped
<1>2. ASSUME NEW next \in Places, at' = [at EXCEPT ![b] = next], request' = request
      PROVE  /\ request' \in [Backtests -> Requests] /\ at' \in [Backtests -> Places] /\ at'[b] = next
             /\ \A c \in Backtests : c # b => at'[c] = at[c]
  BY <1>2 DEF CacheTyped
<1>3. CASE CheckExists(b)
  <2>1. PICK next \in {"read", "download"} :
           /\ at' = [at EXCEPT ![b] = next] /\ (next = "download" => Path(b) \notin DOMAIN file)
           /\ at[b] = "check" /\ UNCHANGED <<request, row, file, ticks>>
    BY <1>3 DEF CheckExists
  <2>2. next \in Places
    BY DEF Places
  <2> QED BY <1>2, <2>1, <2>2 DEF CacheTyped, Footprint, Busy
<1>4. CASE Download(b)
  <2>1. PICK next \in {"open", "raised"} :
           /\ at' = [at EXCEPT ![b] = next] /\ at[b] = "download"
           /\ UNCHANGED <<request, row, file, ticks>>
    BY <1>4 DEF Download
  <2>2. next \in Places
    BY DEF Places
  <2> QED BY <1>2, <2>1, <2>2 DEF CacheTyped, Footprint, Busy
<1>5. CASE OpenForWriting(b)
  <2>1. /\ at[b] = "open" /\ at' = [at EXCEPT ![b] = "write"] /\ row' = [row EXCEPT ![b] = 1]
        /\ file' = PutFile(Path(b), <<>>) /\ UNCHANGED <<request, ticks>>
    BY <1>5 DEF OpenForWriting
  <2>2. "write" \in Places
    BY DEF Places
  <2>3. row' \in [Backtests -> Nat \ {0}] /\ \A c \in Backtests : c # b => row'[c] = row[c]
    BY <2>1 DEF CacheTyped
  <2>4. /\ \A p : p # Path(b) => (p \in DOMAIN file' <=> p \in DOMAIN file)
        /\ \A p \in DOMAIN file : p \in DOMAIN file' /\ (p # Path(b) => file'[p] = file[p])
    BY <2>1, PutFileFacts
  <2> QED BY <1>2, <2>1, <2>2, <2>3, <2>4 DEF CacheTyped, Footprint, Busy
<1>6. CASE WriteRow(b)
  <2>1. PICK rows :
          /\ at[b] = "write" /\ at' = at /\ row' = [row EXCEPT ![b] = row[b] + 1]
          /\ file' = PutFile(Path(b), rows) /\ UNCHANGED <<request, ticks>>
    BY <1>6 DEF WriteRow
  <2>2. row' \in [Backtests -> Nat \ {0}] /\ \A c \in Backtests : c # b => row'[c] = row[c]
    BY <2>1, <1>1 DEF CacheTyped
  <2>3. /\ \A p : p # Path(b) => (p \in DOMAIN file' <=> p \in DOMAIN file)
        /\ \A p \in DOMAIN file : p \in DOMAIN file' /\ (p # Path(b) => file'[p] = file[p])
    BY <2>1, PutFileFacts
  <2> QED BY <2>1, <2>2, <2>3 DEF CacheTyped, Footprint, Busy
<1>7. CASE Close(b) \/ ReadRaises(b) \/ FeedExhausted(b) \/ NextPrice(b)
  <2>1. PICK next \in {"read", "raised", "ended", "loop"} :
           /\ at' = [at EXCEPT ![b] = next] /\ UNCHANGED <<request, row, file, ticks>>
    BY <1>7 DEF Close, ReadRaises, FeedExhausted, NextPrice
  <2>2. next \in Places
    BY DEF Places
  <2> QED BY <1>2, <2>1, <2>2 DEF CacheTyped, Footprint, Busy
<1>8. CASE ReadFile(b)
  <2>1. PICK prices_read : 
          /\ at[b] = "read" /\ at' = [at EXCEPT ![b] = "loop"]
          /\ ticks' = [ticks EXCEPT ![b] = prices_read] /\ UNCHANGED <<request, row, file>>
    BY <1>8 DEF ReadFile
  <2>2. "loop" \in Places
    BY DEF Places
  <2>3. DOMAIN ticks' = Backtests /\ \A c \in Backtests : c # b => ticks'[c] = ticks[c]
    BY <2>1, <1>1
  <2> QED BY <1>2, <2>1, <2>2, <2>3 DEF CacheTyped, Footprint, Busy
<1>9. CASE Kill(b)
  <2>1. at' = [at EXCEPT ![b] = "killed"] /\ UNCHANGED <<request, row, ticks>>
    BY <1>9 DEF Kill
  <2>2. "killed" \in Places
    BY DEF Places
  <2>3. \/ file' = file
        \/ at[b] = "write" /\ \E rows : file' = PutFile(Path(b), rows)
    BY <1>9 DEF Kill
  <2>4. /\ \A p : p # Path(b) => (p \in DOMAIN file' <=> p \in DOMAIN file)
        /\ \A p \in DOMAIN file : p \in DOMAIN file' /\ (p # Path(b) => file'[p] = file[p])
    BY <2>3, PutFileFacts
  <2>5. at[b] \notin Busy => file' = file
    BY <2>3 DEF Busy
  <2> QED BY <1>2, <2>1, <2>2, <2>4, <2>5 DEF CacheTyped, Footprint, Busy
<1> QED BY <1>3, <1>4, <1>5, <1>6, <1>7, <1>8, <1>9 DEF BacktestStep

-----------------------------------------------------------------------------
(* The cache: what an undisturbed file holds. *)

(* Nothing has gone wrong with b's file: while somebody fills it, it is    *)
(* one backtest alone, and the file is the rows so far; then it is the     *)
(* series, and so are the prices of whoever has read it.                   *)
Intact(b) ==
    /\ at[b] \in {"read", "write"} => Path(b) \in DOMAIN file
    /\ at[b] \in {"download", "open"} => Path(b) \notin DOMAIN file
    /\ at[b] \in Busy => \A c \in Backtests : Path(c) = Path(b) /\ at[c] \in Busy => c = b
    /\ at[b] = "write" => /\ row[b] <= Len(Rows(b)) + 1
                          /\ file[Path(b)] = [i \in 1..(row[b] - 1) |-> Rows(b)[i]]
    /\ Path(b) \in DOMAIN file /\ (\A c \in Backtests : Path(c) = Path(b) => at[c] \notin Busy)
          => file[Path(b)] = Rows(b)
    /\ at[b] \in {"loop", "ended"} =>
          /\ Len(ticks[b]) = Len(Rows(b))
          /\ \A i \in 1..Len(Rows(b)) : Nearest(Rows(b)[i], ticks[b][i])

Trusted(b) == Path(b) \notin disturbed /\ ~Shared(Path(b))

CacheInv ==
    /\ driver \in {"live", "historical"}
    /\ driver = "historical" => CacheTyped /\ \A b \in Backtests : Trusted(b) => Intact(b)

(* What the requests determine stays; nobody regains trust.                *)
LEMMA TrustIsOld ==
    ASSUME request' = request, disturbed \subseteq disturbed'
    PROVE  /\ \A b : Path(b)' = Path(b) /\ Rows(b)' = Rows(b)
           /\ \A b : Trusted(b)' => Trusted(b)
<1>1. \A b : Path(b)' = Path(b) /\ Rows(b)' = Rows(b)
  BY DEF Path, Rows
<1>2. \A p : Shared(p)' <=> Shared(p)
  BY <1>1 DEF Shared
<1> QED BY <1>1, <1>2 DEF Trusted

(* Backtests that share a trusted file ask for the same.                   *)
LEMMA SameRows ==
    ASSUME NEW b \in Backtests, NEW c \in Backtests, Trusted(b), Path(b) = Path(c)
    PROVE  Rows(b) = Rows(c) /\ Trusted(c)
BY DEF Trusted, Shared, Rows

(* The rows of a request.                                                  *)
LEMMA RowsTyped ==
    ASSUME CacheTyped, NEW b \in Backtests
    PROVE  /\ Rows(b) \in Seq(Rational \cup {NoClose}) /\ Len(Rows(b)) \in Nat
           /\ \A i \in 1..Len(Rows(b)) : /\ Rows(b)[i] \in Rational \cup {NoClose}
                                         /\ Rows(b)[i] # CutRow
           /\ Rows(b) = [i \in 1..Len(Rows(b)) |-> Rows(b)[i]]
<1>1. PICK r \in Requests : r = request[b]
  BY DEF CacheTyped
<1>2. /\ Rows(b) \in Seq(Rational \cup {NoClose})
      /\ \A i \in 1..Len(Rows(b)) : Rows(b)[i] # CutRow
  BY <1>1, CacheAssumption DEF Rows, Rational
<1>3. PICK s : s = Rows(b)
  OBVIOUS
<1>4. s \in Seq(Rational \cup {NoClose})
  BY <1>2, <1>3
<1>5. /\ Len(s) \in Nat /\ s = [i \in 1..Len(s) |-> s[i]]
      /\ \A i \in 1..Len(s) : s[i] \in Rational \cup {NoClose}
  BY <1>4
<1> QED BY <1>2, <1>3, <1>5

(* The step of a backtest with another file.                               *)
LEMMA OtherFileIntact ==
    ASSUME NEW b \in Backtests, NEW c \in Backtests, Path(b) # Path(c), Intact(b), Footprint(c)
    PROVE  Intact(b)'
<1>1. b # c /\ \A d \in Backtests : Path(d)' = Path(d) /\ Rows(d)' = Rows(d)
  BY DEF Footprint, Path, Rows
<1>2. \A d \in Backtests : Path(d) = Path(b) => at'[d] = at[d]
  BY DEF Footprint
<1>3. at'[b] = at[b] /\ row'[b] = row[b] /\ ticks'[b] = ticks[b]
  BY <1>1 DEF Footprint
<1>4. /\ Path(b) \in DOMAIN file' <=> Path(b) \in DOMAIN file
      /\ Path(b) \in DOMAIN file => file'[Path(b)] = file[Path(b)]
  BY DEF Footprint
<1>5. at[b] = "write" => file'[Path(b)] = file[Path(b)]
  BY <1>4 DEF Intact
<1> QED BY <1>1, <1>2, <1>3, <1>4, <1>5 DEF Intact, Nearest, OffBy

(* No other backtest is filling the file of b.                             *)
Undisturbed(b) == \A d \in Backtests : Path(d) = Path(b) /\ d # b => at[d] \notin Busy

(* The file is left alone, and nobody starts or stops filling it.          *)
LEMMA BystanderIntact ==
    ASSUME NEW b \in Backtests, Intact(b), file' = file, request' = request,
           at'[b] = at[b], row'[b] = row[b], ticks'[b] = ticks[b],
           \A d \in Backtests : at'[d] \in Busy <=> at[d] \in Busy
    PROVE  Intact(b)'
<1>1. \A d \in Backtests : Path(d)' = Path(d) /\ Rows(d)' = Rows(d)
  BY DEF Path, Rows
<1>2. /\ at'[b] \in {"read", "write"} => Path(b)' \in DOMAIN file'
      /\ at'[b] \in {"download", "open"} => Path(b)' \notin DOMAIN file'
  BY <1>1 DEF Intact
<1>3. at'[b] \in Busy' => \A c \in Backtests : Path(c)' = Path(b)' /\ at'[c] \in Busy' => c = b
  BY <1>1 DEF Intact, Busy
<1>4. at'[b] = "write" => /\ row'[b] <= Len(Rows(b)') + 1
                          /\ file'[Path(b)'] = [i \in 1..(row'[b] - 1) |-> Rows(b)'[i]]
  BY <1>1 DEF Intact
<1>5. Path(b)' \in DOMAIN file' /\ (\A c \in Backtests : Path(c)' = Path(b)' => at'[c] \notin Busy')
         => file'[Path(b)'] = Rows(b)'
  BY <1>1 DEF Intact, Busy
<1>6. at'[b] \in {"loop", "ended"} =>
         /\ Len(ticks'[b]) = Len(Rows(b)')
         /\ \A i \in 1..Len(Rows(b)') : Nearest(Rows(b)'[i], ticks'[b][i])
  BY <1>1 DEF Intact
<1> QED BY <1>2, <1>3, <1>4, <1>5, <1>6 DEF Intact, Nearest, OffBy, Busy

(* The step of a backtest c with the same file: c does not fill it...      *)
LEMMA ReaderIntact ==
    ASSUME CacheTyped, NEW c \in Backtests, NEW b \in Backtests, Path(b) = Path(c),
           Rows(b) = Rows(c), Intact(b), Intact(c),
           \/ CheckExists(c) /\ Undisturbed(c)
           \/ ReadRaises(c)
           \/ ReadFile(c) /\ Undisturbed(c)
           \/ NextPrice(c)
           \/ FeedExhausted(c)
    PROVE  Intact(b)'
<1>1. CacheTyped' /\ Footprint(c)
  BY StepFootprint DEF BacktestStep
<1>2. \A d \in Backtests : Path(d)' = Path(d) /\ Rows(d)' = Rows(d)
  BY <1>1 DEF Footprint, Path, Rows
<1>3. \A d \in Backtests : d # c => at'[d] = at[d] /\ row'[d] = row[d] /\ ticks'[d] = ticks[d]
  BY <1>1 DEF Footprint
<1>4. CASE CheckExists(c) /\ Undisturbed(c)
  <2>1. /\ at[c] = "check" /\ file' = file /\ row' = row /\ ticks' = ticks
        /\ at'[c] = IF Path(c) \in DOMAIN file THEN "read" ELSE "download"
    BY <1>4 DEF CheckExists, CacheTyped
  <2>2. \A d \in Backtests : Path(d) = Path(c) => at[d] \notin Busy
    BY <1>4, <2>1 DEF Undisturbed, Busy
  <2>3. CASE b = c
    BY <1>2, <1>3, <2>1, <2>2, <2>3 DEF Intact, Busy
  <2>4. CASE b # c
    BY <1>2, <1>3, <2>1, <2>2, <2>4 DEF Intact, Busy, Nearest, OffBy
  <2> QED BY <2>3, <2>4
<1>5. CASE ReadRaises(c) \/ FeedExhausted(c) \/ NextPrice(c)
  <2>1. /\ at[c] \in {"read", "loop"} /\ file' = file /\ row' = row /\ ticks' = ticks
        /\ at'[c] \in {"raised", "ended", "loop"} /\ (at'[c] \in {"ended", "loop"} => at[c] = "loop")
    BY <1>5 DEF ReadRaises, FeedExhausted, NextPrice, CacheTyped
  <2>2. \A d \in Backtests : at'[d] \in Busy <=> at[d] \in Busy
    BY <1>3, <2>1 DEF Busy
  <2>3. CASE b = c
    BY <1>2, <2>1, <2>2, <2>3 DEF Intact, Busy, Nearest, OffBy
  <2>4. CASE b # c
    BY <1>1, <1>3, <2>1, <2>2, <2>4, BystanderIntact DEF Footprint
  <2> QED BY <2>3, <2>4
<1>6. CASE ReadFile(c) /\ Undisturbed(c)
  <2>1. at[c] = "read" /\ file' = file /\ row' = row /\ at'[c] = "loop"
    BY <1>6 DEF ReadFile, CacheTyped
  <2>2. \A d \in Backtests : at'[d] \in Busy <=> at[d] \in Busy
    BY <1>3, <2>1 DEF Busy
  <2>3. PICK rows : rows = Rows(c)
    OBVIOUS
  <2>4. file[Path(c)] = rows
    BY <1>6, <2>1, <2>3 DEF Undisturbed, Intact, Busy
  <2>5. /\ Len(rows) \in Nat /\ \A i \in 1..Len(rows) : rows[i] \in Rational /\ rows[i] # CutRow
    <3>1. /\ Len(rows) \in Nat /\ DOMAIN rows = 1..Len(rows)
          /\ \A i \in 1..Len(rows) : rows[i] \in Rational \cup {NoClose} /\ rows[i] # CutRow
      BY <2>3, RowsTyped
    <3>2. NoClose \notin Range(rows)
      BY <1>6, <2>4 DEF ReadFile
    <3> QED BY <3>1, <3>2 DEF Range
  <2>6. ticks'[c] = [i \in 1..Len(rows) |-> IF rows[i] = CutRow THEN 0 ELSE price_to_ticks(rows[i])]
    BY <1>6, <2>4 DEF ReadFile, CacheTyped
  <2>7. ticks'[c] \in [1..Len(rows) -> Int]
    BY <2>5, <2>6, TicksAreNearest
  <2>8. Len(ticks'[c]) = Len(rows)
    BY <2>5, <2>7, FunctionIsSeq
  <2>9. \A i \in 1..Len(rows) : Nearest(rows[i], ticks'[c][i])
    BY <2>5, <2>6, TicksAreNearest
  <2>10. CASE b = c
    BY <1>2, <2>1, <2>2, <2>3, <2>8, <2>9, <2>10 DEF Intact, Busy, Nearest, OffBy
  <2>11. CASE b # c
    BY <1>1, <1>3, <2>1, <2>2, <2>11, BystanderIntact DEF Footprint
  <2> QED BY <2>10, <2>11
<1> QED BY <1>4, <1>5, <1>6

(* Somebody who waits while another backtest fills the file.               *)
LEMMA WaitingIntact ==
    ASSUME NEW b \in Backtests, Intact(b), request' = request, at[b] \notin Busy,
           at'[b] = at[b], row'[b] = row[b], ticks'[b] = ticks[b],
           \A p \in DOMAIN file : p \in DOMAIN file',
           \/ \E c \in Backtests : Path(c) = Path(b) /\ at'[c] \in Busy
           \/ Path(b) \notin DOMAIN file'
           \/ file'[Path(b)] = Rows(b)
    PROVE  Intact(b)'
<1>1. \A d \in Backtests : Path(d)' = Path(d) /\ Rows(d)' = Rows(d)
  BY DEF Path, Rows
<1>2. /\ at'[b] \in {"read", "write"} => Path(b)' \in DOMAIN file'
      /\ at'[b] \notin Busy' /\ at'[b] \notin {"download", "open", "write"}
  BY <1>1 DEF Intact, Busy
<1>3. Path(b)' \in DOMAIN file' /\ (\A c \in Backtests : Path(c)' = Path(b)' => at'[c] \notin Busy')
         => file'[Path(b)'] = Rows(b)'
  BY <1>1 DEF Busy
<1>4. at'[b] \in {"loop", "ended"} =>
         /\ Len(ticks'[b]) = Len(Rows(b)')
         /\ \A i \in 1..Len(Rows(b)') : Nearest(Rows(b)'[i], ticks'[b][i])
  BY <1>1 DEF Intact
<1> QED BY <1>2, <1>3, <1>4 DEF Intact, Nearest, OffBy

(* A row added to the rows so far.                                         *)
LEMMA NextRow ==
    ASSUME NEW n \in Nat \ {0}, NEW rows, NEW s, s = [i \in 1..(n - 1) |-> rows[i]]
    PROVE  WithRow(s, n, rows[n]) = [i \in 1..((n + 1) - 1) |-> rows[i]]
<1>1. PICK T : T = {rows[i] : i \in 1..(n - 1)}
  OBVIOUS
<1>2. n - 1 \in Nat /\ s \in [1..(n - 1) -> T]
  BY <1>1
<1>3. Len(s) = n - 1
  BY <1>2, FunctionIsSeq
<1>4. (IF Len(s) < n THEN n ELSE Len(s)) = n /\ (n + 1) - 1 = n
  BY <1>3
<1>5. \A k \in 1..n : (IF k = n THEN rows[n] ELSE IF k <= Len(s) THEN s[k] ELSE Hole) = rows[k]
  BY <1>3
<1> QED BY <1>4, <1>5 DEF WithRow

(* ... or it fills it.                                                     *)
LEMMA WriterIntact ==
    ASSUME CacheTyped, NEW c \in Backtests, NEW b \in Backtests, Path(b) = Path(c),
           Rows(b) = Rows(c), Intact(b), Intact(c),
           \/ Download(c)
           \/ OpenForWriting(c)
           \/ WriteRow(c)
           \/ Close(c)
           \/ Kill(c) /\ at[c] # "write"
    PROVE  Intact(b)'
<1>1. CacheTyped' /\ Footprint(c)
  BY StepFootprint DEF BacktestStep
<1>2. request' = request /\ \A d \in Backtests : Path(d)' = Path(d) /\ Rows(d)' = Rows(d)
  BY <1>1 DEF Footprint, Path, Rows
<1>3. /\ \A d \in Backtests : d # c => at'[d] = at[d] /\ row'[d] = row[d] /\ ticks'[d] = ticks[d]
      /\ \A p \in DOMAIN file : p \in DOMAIN file'
  BY <1>1 DEF Footprint
<1>4. at[c] \in Busy => \A d \in Backtests :
          Path(d) = Path(c) /\ d # c => at[d] \notin Busy /\ at'[d] \notin Busy
  BY <1>3 DEF Intact
<1>5. row[c] \in Nat \ {0} /\ Len(Rows(c)) \in Nat /\ Rows(c) = [i \in 1..Len(Rows(c)) |-> Rows(c)[i]]
  BY RowsTyped DEF CacheTyped
<1>6. CASE Download(c)
  <2>1. at[c] = "download" /\ file' = file /\ row' = row /\ ticks' = ticks /\ at'[c] \in {"open", "raised"}
    BY <1>6 DEF Download, CacheTyped
  <2>2. Path(c) \notin DOMAIN file
    BY <2>1 DEF Intact
  <2>3. CASE b = c
    BY <1>2, <1>4, <2>1, <2>2, <2>3 DEF Intact, Busy
  <2>4. CASE b # c
    <3>1. at[b] \notin Busy /\ Path(b) \notin DOMAIN file'
      BY <1>4, <2>1, <2>2, <2>4 DEF Busy
    <3> QED BY <3>1, <1>2, <1>3, <2>4, WaitingIntact
  <2> QED BY <2>3, <2>4
<1>7. CASE OpenForWriting(c)
  <2>1. /\ at[c] = "open" /\ file' = PutFile(Path(c), <<>>) /\ row'[c] = 1 /\ at'[c] = "write"
    BY <1>7 DEF OpenForWriting, CacheTyped
  <2>2. file'[Path(c)] = <<>> /\ Path(c) \in DOMAIN file'
    BY <2>1, PutFileFacts
  <2>3. CASE b = c
    <3>1. row'[c] <= Len(Rows(c)) + 1 /\ file'[Path(c)] = [i \in 1..(row'[c] - 1) |-> Rows(c)[i]]
      BY <1>5, <2>1, <2>2
    <3> QED BY <1>2, <1>4, <2>1, <2>2, <2>3, <3>1 DEF Intact, Busy
  <2>4. CASE b # c
    <3>1. at[b] \notin Busy /\ at'[c] \in Busy
      BY <1>4, <2>1, <2>4 DEF Busy
    <3> QED BY <3>1, <1>2, <1>3, <2>4, WaitingIntact
  <2> QED BY <2>3, <2>4
<1>8. CASE WriteRow(c)
  <2>1. PICK n, rows, s : n = row[c] /\ rows = Rows(c) /\ s = file[Path(c)]
    OBVIOUS
  <2>2. /\ at[c] = "write" /\ n <= Len(rows) /\ row'[c] = n + 1 /\ at'[c] = "write"
        /\ file' = PutFile(Path(c), WithRow(s, n, rows[n]))
    BY <1>8, <2>1 DEF WriteRow, CacheTyped
  <2>3. file'[Path(c)] = WithRow(s, n, rows[n]) /\ Path(c) \in DOMAIN file'
    BY <2>2, PutFileFacts
  <2>4. n \in Nat \ {0} /\ s = [i \in 1..(n - 1) |-> rows[i]]
    BY <1>5, <2>1, <2>2 DEF Intact
  <2>5. file'[Path(c)] = [i \in 1..((n + 1) - 1) |-> rows[i]]
    BY <2>3, <2>4, NextRow
  <2>6. CASE b = c
    <3>1. row'[c] <= Len(Rows(c)) + 1 /\ file'[Path(c)] = [i \in 1..(row'[c] - 1) |-> Rows(c)[i]]
      BY <1>5, <2>1, <2>2, <2>4, <2>5
    <3>2. at[c] = "write" /\ at'[c] = "write" /\ Path(c) \in DOMAIN file'
      BY <2>2, <2>3
    <3>3. at'[c] \in Busy /\ \A d \in Backtests : Path(d)' = Path(c)' /\ at'[d] \in Busy => d = c
      BY <1>2, <1>4, <3>2 DEF Busy
    <3>4. /\ row'[c] <= Len(Rows(c)') + 1
          /\ file'[Path(c)'] = [i \in 1..(row'[c] - 1) |-> Rows(c)'[i]]
      BY <1>2, <3>1
    <3>5. Path(c)' \in DOMAIN file'
      BY <1>2, <3>2
    <3> QED BY <2>6, <3>2, <3>3, <3>4, <3>5 DEF Intact, Busy
  <2>7. CASE b # c
    <3>1. at[b] \notin Busy /\ at'[c] \in Busy
      BY <1>4, <2>2, <2>7 DEF Busy
    <3> QED BY <3>1, <1>2, <1>3, <2>7, WaitingIntact
  <2> QED BY <2>6, <2>7
<1>9. CASE Close(c)
  <2>1. /\ at[c] = "write" /\ row[c] > Len(Rows(c)) /\ at'[c] = "read"
        /\ file' = file /\ row' = row /\ ticks' = ticks
    BY <1>9 DEF Close, CacheTyped
  <2>2. Path(c) \in DOMAIN file /\ row[c] <= Len(Rows(c)) + 1
        /\ file[Path(c)] = [i \in 1..(row[c] - 1) |-> Rows(c)[i]]
    BY <2>1 DEF Intact
  <2>3. row[c] - 1 = Len(Rows(c))
    BY <1>5, <2>1, <2>2
  <2>4. file[Path(c)] = Rows(c)
    BY <1>5, <2>2, <2>3
  <2>5. CASE b = c
    BY <1>2, <2>1, <2>2, <2>4, <2>5 DEF Intact, Busy
  <2>6. CASE b # c
    <3>1. at[b] \notin Busy /\ file'[Path(b)] = Rows(b)
      BY <1>4, <2>1, <2>4, <2>6 DEF Busy
    <3> QED BY <3>1, <1>2, <1>3, <2>6, WaitingIntact
  <2> QED BY <2>5, <2>6
<1>10. CASE Kill(c) /\ at[c] # "write"
  <2>1. file' = file /\ at'[c] = "killed"
    BY <1>10 DEF Kill, CacheTyped
  <2>2. CASE at[c] \in Busy
    <3>1. Path(c) \notin DOMAIN file
      BY <1>10, <2>2 DEF Intact, Busy
    <3>2. CASE b = c
      BY <1>2, <2>1, <3>1, <3>2 DEF Intact, Busy
    <3>3. CASE b # c
      <4>1. at[b] \notin Busy /\ Path(b) \notin DOMAIN file'
        BY <1>4, <2>1, <2>2, <3>1, <3>3
      <4> QED BY <4>1, <1>2, <1>3, <3>3, WaitingIntact
    <3> QED BY <3>2, <3>3
  <2>3. CASE at[c] \notin Busy
    <3>1. \A d \in Backtests : at'[d] \in Busy <=> at[d] \in Busy
      BY <1>3, <2>1, <2>3 DEF Busy
    <3>2. CASE b = c
      BY <1>2, <2>1, <2>3, <3>1, <3>2 DEF Intact, Busy
    <3>3. CASE b # c
      BY <1>2, <1>3, <2>1, <3>1, <3>3, BystanderIntact
    <3> QED BY <3>2, <3>3
  <2> QED BY <2>2, <2>3
<1> QED BY <1>6, <1>7, <1>8, <1>9, <1>10

-----------------------------------------------------------------------------
(* A step of a backtest, with the note of whom it disturbs.                *)
LEMMA BacktestKeepsTrust ==
    ASSUME CacheTyped, \A b \in Backtests : Trusted(b) => Intact(b),
           NEW c \in Backtests, MCStep(c) \/ MCKill(c)
    PROVE  CacheTyped' /\ \A b \in Backtests : Trusted(b)' => Intact(b)'
<1>1. CacheTyped' /\ Footprint(c)
  BY StepFootprint DEF MCStep, MCKill
<1>2. disturbed \subseteq disturbed'
  BY DEF MCStep, MCKill, Disturb
<1>3. request' = request
  BY <1>1 DEF Footprint
<1> SUFFICES ASSUME NEW b \in Backtests, Trusted(b)' PROVE Intact(b)'
  BY <1>1
<1>4. Trusted(b) /\ Intact(b) /\ Path(b) \notin disturbed'
  BY <1>2, <1>3, TrustIsOld DEF Trusted
<1>5. CASE Path(b) # Path(c)
  BY <1>1, <1>4, <1>5, OtherFileIntact
<1>6. CASE Path(b) = Path(c)
  <2>1. Rows(b) = Rows(c) /\ Trusted(c) /\ Intact(c) /\ Path(c) \notin disturbed'
    BY <1>4, <1>6, SameRows
  <2>2. CASE MCStep(c)
    <3>1. at[c] \in {"check", "read"} => Undisturbed(c)
      <4> SUFFICES ASSUME at[c] \in {"check", "read"} PROVE Undisturbed(c)
        OBVIOUS
      <4>1. Filling(Path(c)) \ {c} = {}
        BY <2>1, <2>2 DEF MCStep, Disturb
      <4> QED BY <4>1 DEF Filling, Undisturbed, Busy
    <3>2. BacktestStep(c)
      BY <2>2 DEF MCStep
    <3>3. CASE CheckExists(c) \/ ReadRaises(c) \/ ReadFile(c) \/ NextPrice(c) \/ FeedExhausted(c)
      <4>1. (CheckExists(c) \/ ReadFile(c)) => Undisturbed(c)
        BY <3>1 DEF CheckExists, ReadFile
      <4> QED BY <3>3, <4>1, <1>4, <1>6, <2>1, ReaderIntact
    <3>4. CASE Download(c) \/ OpenForWriting(c) \/ WriteRow(c) \/ Close(c)
      BY <3>4, <1>4, <1>6, <2>1, WriterIntact
    <3> QED BY <3>2, <3>3, <3>4 DEF BacktestStep
  <2>3. CASE MCKill(c)
    <3>1. Kill(c) /\ at[c] # "write"
      BY <2>1, <2>3 DEF MCKill
    <3> QED BY <3>1, <1>4, <1>6, <2>1, WriterIntact
  <2> QED BY <2>2, <2>3
<1> QED BY <1>5, <1>6

(* Whatever is killed when, a backtest that gets past the file replays the *)
(* series that was downloaded, to the nearest tick, unless its file was    *)
(* written while another backtest was busy with it, or by one that was     *)
(* killed, or belongs to two tickers.                                      *)
THEOREM CacheIsRight == MCSpec => []WrongOnlyIfDisturbed
<1>1. MCInit => CacheInv
  <2> SUFFICES ASSUME MCInit PROVE CacheInv
    OBVIOUS
  <2>1. CASE driver = "live"
    BY <2>1 DEF CacheInv
  <2>2. CASE driver = "historical" /\ CacheInit
    <3>1. CacheTyped
      BY <2>2 DEF CacheInit, CacheTyped, Places
    <3>2. \A b \in Backtests : at[b] = "check"
      BY <2>2 DEF CacheInit
    <3>3. DOMAIN file = {}
      BY <2>2 DEF CacheInit
    <3>4. \A b \in Backtests : Intact(b)
      BY <3>2, <3>3 DEF Intact, Busy
    <3> QED BY <2>2, <3>1, <3>4 DEF CacheInv
  <2> QED BY <2>1, <2>2 DEF MCInit
<1>2. CacheInv /\ [MCNext]_mcVars => CacheInv'
  <2> SUFFICES ASSUME CacheInv, [MCNext]_mcVars PROVE CacheInv'
    OBVIOUS
  <2>1. CASE UNCHANGED <<cacheVars, driver, disturbed>>
    <3>1. CacheTyped' <=> CacheTyped
      BY <2>1 DEF cacheVars, CacheTyped
    <3>2. request' = request /\ at' = at /\ row' = row /\ file' = file /\ ticks' = ticks
          /\ disturbed \subseteq disturbed'
      BY <2>1 DEF cacheVars
    <3>3. ASSUME NEW b \in Backtests, Trusted(b)', Trusted(b) => Intact(b) PROVE Intact(b)'
      BY <3>2, <3>3, TrustIsOld, BystanderIntact
    <3> QED BY <2>1, <3>1, <3>3 DEF CacheInv
  <2>2. CASE \E c \in Backtests : MCHistorical(c)
    <3>1. PICK c \in Backtests : MCHistorical(c)
      BY <2>2
    <3>2. driver = "historical" /\ driver' = driver /\ (MCStep(c) \/ MCKill(c))
      BY <3>1 DEF MCHistorical
    <3>3. CacheTyped' /\ \A b \in Backtests : Trusted(b)' => Intact(b)'
      BY <3>2, BacktestKeepsTrust DEF CacheInv
    <3> QED BY <3>2, <3>3 DEF CacheInv
  <2> QED BY <2>1, <2>2 DEF MCNext, MCLive, mcVars
<1>3. CacheInv => WrongOnlyIfDisturbed
  BY DEF CacheInv, WrongOnlyIfDisturbed, Trusted, Intact, Nearest
<1> QED BY <1>1, <1>2, <1>3, PTL DEF MCSpec

-----------------------------------------------------------------------------
(* The cache: what any file holds, whoever writes it. *)

(* Row i of b's file may have been cut by a kill.                          *)
CutAt(b, i) == \E c \in Backtests : Path(c) = Path(b) /\ at[c] = "killed" /\ row[c] = i

FileRows == Rational \cup {NoClose, Hole, CutRow}

(* What b's file has for a row is that row of the series, a hole, or cut.  *)
Placed(b) ==
    /\ Len(file[Path(b)]) <= Len(Rows(b))
    /\ \A i \in 1..Len(file[Path(b)]) : file[Path(b)][i] \in {Rows(b)[i], Hole} \/ CutAt(b, i)

(* The same of the prices that b has read.                                 *)
Replayed(b) ==
    /\ Len(ticks[b]) <= Len(Rows(b))
    /\ \A i \in 1..Len(ticks[b]) : CutAt(b, i) \/ Nearest(Rows(b)[i], ticks[b][i])

PlaceInv ==
    /\ CacheTyped
    /\ \A b \in Backtests : at[b] \in {"write", "read"} => Path(b) \in DOMAIN file
    /\ \A b \in Backtests : Path(b) \in DOMAIN file =>
          file[Path(b)] \in Seq(FileRows) /\ (~Shared(Path(b)) => Placed(b))
    /\ \A b \in Backtests : at[b] \in {"loop", "ended"} /\ ~Shared(Path(b)) => Replayed(b)

(* A row written at its place leaves the others in theirs.                 *)
LEMMA WithRowFacts ==
    ASSUME NEW s \in Seq(FileRows), NEW n \in Nat \ {0}, NEW v \in FileRows
    PROVE  LET t == WithRow(s, n, v)
           IN  /\ t \in Seq(FileRows) /\ Len(t) = (IF Len(s) < n THEN n ELSE Len(s))
               /\ \A k \in 1..Len(t) : \/ k = n /\ t[k] = v
                                       \/ k \in 1..Len(s) /\ t[k] = s[k]
                                       \/ t[k] = Hole
<1>1. PICK t, m : t = WithRow(s, n, v) /\ m = (IF Len(s) < n THEN n ELSE Len(s))
  OBVIOUS
<1>2. Len(s) \in Nat /\ m \in Nat /\ \A k \in 1..Len(s) : s[k] \in FileRows
  BY <1>1, LenProperties, ElementOfSeq
<1>3. t = [k \in 1..m |-> IF k = n THEN v ELSE IF k <= Len(s) THEN s[k] ELSE Hole]
  BY <1>1 DEF WithRow
<1>4. t \in [1..m -> FileRows]
  BY <1>2, <1>3 DEF FileRows
<1>5. t \in Seq(FileRows) /\ Len(t) = m
  BY <1>2, <1>4, FunctionIsSeq
<1>6. ASSUME NEW k \in 1..m
      PROVE  \/ k = n /\ t[k] = v
             \/ k \in 1..Len(s) /\ t[k] = s[k]
             \/ t[k] = Hole
  BY <1>2, <1>3, <1>6
<1> QED BY <1>1, <1>5, <1>6

(* A killed backtest stays where it was.                                   *)
LEMMA CutsStay ==
    ASSUME CacheTyped, NEW c \in Backtests, BacktestStep(c) \/ Kill(c), NEW b \in Backtests, NEW i,
           CutAt(b, i)
    PROVE  CutAt(b, i)'
<1>1. Footprint(c)
  BY StepFootprint
<1>2. at[c] # "killed"
  BY DEF BacktestStep, CheckExists, Download, OpenForWriting, WriteRow, Close, ReadRaises, ReadFile,
         NextPrice, FeedExhausted, Kill
<1>3. PICK d \in Backtests : Path(d) = Path(b) /\ at[d] = "killed" /\ row[d] = i
  BY DEF CutAt
<1>4. at'[d] = "killed" /\ row'[d] = i
  BY <1>1, <1>2, <1>3 DEF Footprint
<1>5. Path(d)' = Path(b)'
  BY <1>1, <1>3 DEF Footprint, Path
<1> QED BY <1>4, <1>5 DEF CutAt

(* What a step does to the file it is about.                               *)
LEMMA FileSteps ==
    ASSUME PlaceInv, NEW c \in Backtests, BacktestStep(c) \/ Kill(c)
    PROVE  \/ file' = file
           \/ at[c] = "open" /\ file' = PutFile(Path(c), <<>>)
           \/ /\ at[c] = "write" /\ row[c] \in 1..Len(Rows(c))
              /\ file' = PutFile(Path(c), WithRow(file[Path(c)], row[c], Rows(c)[row[c]]))
           \/ /\ at[c] = "write" /\ row[c] \in 1..Len(Rows(c))
              /\ file' = PutFile(Path(c), WithRow(file[Path(c)], row[c], CutRow))
              /\ at'[c] = "killed" /\ row' = row
<1>1. CacheTyped /\ row[c] \in Nat \ {0} /\ Len(Rows(c)) \in Nat
  BY RowsTyped DEF PlaceInv, CacheTyped
<1>2. CASE OpenForWriting(c)
  BY <1>2 DEF OpenForWriting
<1>3. CASE WriteRow(c)
  BY <1>1, <1>3 DEF WriteRow
<1>4. CASE Kill(c)
  <2>1. row' = row /\ at'[c] = "killed"
    BY <1>1, <1>4 DEF Kill, CacheTyped
  <2> QED BY <1>1, <1>4, <2>1 DEF Kill
<1>5. CASE CheckExists(c) \/ Download(c) \/ Close(c) \/ ReadRaises(c) \/ ReadFile(c) \/ NextPrice(c)
           \/ FeedExhausted(c)
  BY <1>5 DEF CheckExists, Download, Close, ReadRaises, ReadFile, NextPrice, FeedExhausted
<1> QED BY <1>2, <1>3, <1>4, <1>5 DEF BacktestStep

(* Every file stays in place...                                            *)
LEMMA FilesStayPlaced ==
    ASSUME PlaceInv, NEW c \in Backtests, BacktestStep(c) \/ Kill(c),
           NEW b \in Backtests, Path(b) \in DOMAIN file'
    PROVE  file'[Path(b)] \in Seq(FileRows) /\ (~Shared(Path(b)) => Placed(b)')
<1>0. CacheTyped /\ Footprint(c) /\ request' = request
  BY StepFootprint DEF PlaceInv, Footprint
<1>1. Path(b)' = Path(b) /\ Rows(b)' = Rows(b)
  BY <1>0 DEF Path, Rows
<1>2. PICK rows, t : rows = Rows(b) /\ t = file'[Path(b)]
  OBVIOUS
<1>3. Len(rows) \in Nat
  BY <1>0, <1>2, RowsTyped
<1>4. SUFFICES /\ t \in Seq(FileRows)
               /\ ~Shared(Path(b)) => /\ Len(t) <= Len(rows)
                                      /\ \A i \in 1..Len(t) : t[i] \in {rows[i], Hole} \/ CutAt(b, i)'
  BY <1>1, <1>2 DEF Placed
<1>5. CASE Path(b) \in DOMAIN file /\ t = file[Path(b)]
  <2>1. t \in Seq(FileRows) /\ (~Shared(Path(b)) => Placed(b))
    BY <1>5 DEF PlaceInv
  <2>2. \A i : CutAt(b, i) => CutAt(b, i)'
    BY <1>0, CutsStay
  <2> QED BY <1>2, <1>5, <2>1, <2>2 DEF Placed
<1>6. CASE Path(b) = Path(c) /\ file' = PutFile(Path(c), <<>>)
  <2>1. t = <<>>
    BY <1>2, <1>6, PutFileFacts
  <2>2. Len(t) = 0 /\ t \in Seq(FileRows)
    BY <2>1, EmptySeq
  <2> QED BY <1>3, <2>2
<1>7. ASSUME NEW v \in FileRows, Path(b) = Path(c), at[c] = "write", row[c] \in 1..Len(Rows(c)),
             file' = PutFile(Path(c), WithRow(file[Path(c)], row[c], v)),
             v = Rows(c)[row[c]] \/ (at'[c] = "killed" /\ row' = row)
      PROVE  /\ t \in Seq(FileRows)
             /\ ~Shared(Path(b)) => /\ Len(t) <= Len(rows)
                                    /\ \A i \in 1..Len(t) : t[i] \in {rows[i], Hole} \/ CutAt(b, i)'
  <2>1. PICK s, n : s = file[Path(b)] /\ n = row[c]
    OBVIOUS
  <2>2. Path(b) \in DOMAIN file /\ s \in Seq(FileRows) /\ n \in Nat \ {0} /\ Len(s) \in Nat
    BY <1>0, <1>7, <2>1, LenProperties DEF PlaceInv, CacheTyped
  <2>3. t = WithRow(s, n, v)
    BY <1>2, <1>7, <2>1, PutFileFacts
  <2>4. /\ t \in Seq(FileRows) /\ Len(t) = (IF Len(s) < n THEN n ELSE Len(s))
        /\ \A k \in 1..Len(t) : \/ k = n /\ t[k] = v
                                \/ k \in 1..Len(s) /\ t[k] = s[k]
                                \/ t[k] = Hole
    BY <2>2, <2>3, WithRowFacts
  <2>5. ASSUME ~Shared(Path(b))
        PROVE  /\ Len(t) <= Len(rows)
               /\ \A i \in 1..Len(t) : t[i] \in {rows[i], Hole} \/ CutAt(b, i)'
    <3>1. Rows(c) = rows
      BY <1>2, <1>7, <2>5 DEF Shared, Rows
    <3>2. n \in 1..Len(rows) /\ (v = rows[n] \/ (at'[c] = "killed" /\ row'[c] = n))
      BY <1>7, <2>1, <3>1
    <3>3. at'[c] = "killed" /\ row'[c] = n => CutAt(b, n)'
      BY <1>0, <1>7 DEF CutAt, Path
    <3>4. Len(s) <= Len(rows) /\ \A i \in 1..Len(s) : s[i] \in {rows[i], Hole} \/ CutAt(b, i)
      BY <1>2, <2>1, <2>2, <2>5 DEF PlaceInv, Placed
    <3>5. \A i : CutAt(b, i) => CutAt(b, i)'
      BY <1>0, CutsStay
    <3>6. Len(t) <= Len(rows)
      BY <1>3, <2>2, <2>4, <3>2, <3>4
    <3>7. ASSUME NEW i \in 1..Len(t) PROVE t[i] \in {rows[i], Hole} \/ CutAt(b, i)'
      <4>1. CASE i = n /\ t[i] = v
        BY <4>1, <3>2, <3>3
      <4>2. CASE i \in 1..Len(s) /\ t[i] = s[i]
        BY <4>2, <3>4, <3>5
      <4> QED BY <4>1, <4>2, <2>4
    <3> QED BY <3>6, <3>7
  <2> QED BY <2>4, <2>5
<1>8. ASSUME Path(b) # Path(c) PROVE Path(b) \in DOMAIN file /\ t = file[Path(b)]
  BY <1>0, <1>2, <1>8 DEF Footprint
<1>9. CASE Path(b) = Path(c)
  <2>1. CutRow \in FileRows /\ (row[c] \in 1..Len(Rows(c)) => Rows(c)[row[c]] \in FileRows)
    BY <1>0, RowsTyped DEF FileRows
  <2>2. file' = file => Path(b) \in DOMAIN file /\ t = file[Path(b)]
    BY <1>2
  <2> QED BY <1>5, <1>6, <1>7, <1>9, <2>1, <2>2, FileSteps
<1> QED BY <1>5, <1>8, <1>9

(* ... and so do the prices read from it.                                  *)
LEMMA ReadersStayPlaced ==
    ASSUME PlaceInv, NEW c \in Backtests, BacktestStep(c) \/ Kill(c),
           NEW b \in Backtests, at'[b] \in {"loop", "ended"}, ~Shared(Path(b))
    PROVE  Replayed(b)'
<1>0. CacheTyped /\ Footprint(c) /\ request' = request
  BY StepFootprint DEF PlaceInv, Footprint
<1>1. Path(b)' = Path(b) /\ Rows(b)' = Rows(b) /\ \A i : CutAt(b, i) => CutAt(b, i)'
  BY <1>0, CutsStay DEF Path, Rows
<1>2. CASE at[b] \in {"loop", "ended"} /\ ticks'[b] = ticks[b]
  <2>1. Replayed(b)
    BY <1>2 DEF PlaceInv
  <2> QED BY <1>1, <1>2, <2>1 DEF Replayed, Nearest, OffBy
<1>3. CASE b = c /\ ReadFile(c)
  <2>1. PICK s, rows : s = file[Path(b)] /\ rows = Rows(b)
    OBVIOUS
  <2>2. /\ at[b] = "read" /\ Range(s) \cap {Hole, NoClose} = {}
        /\ ticks'[b] = [i \in 1..Len(s) |-> IF s[i] = CutRow THEN 0 ELSE price_to_ticks(s[i])]
    BY <1>0, <1>3, <2>1 DEF ReadFile, CacheTyped
  <2>3. Path(b) \in DOMAIN file
    BY <1>3, <2>2 DEF PlaceInv
  <2>4. /\ s \in Seq(FileRows) /\ Len(s) \in Nat /\ DOMAIN s = 1..Len(s) /\ Len(s) <= Len(rows)
        /\ \A i \in 1..Len(s) : s[i] \in {rows[i], Hole} \/ CutAt(b, i)
    BY <2>1, <2>3, LenProperties DEF PlaceInv, Placed
  <2>5. PICK T : T = {ticks'[b][i] : i \in 1..Len(s)}
    OBVIOUS
  <2>6. ticks'[b] \in [1..Len(s) -> T]
    BY <2>2, <2>5
  <2>7. Len(ticks'[b]) = Len(s)
    BY <2>4, <2>6, FunctionIsSeq
  <2>8. ASSUME NEW i \in 1..Len(s) PROVE CutAt(b, i) \/ Nearest(rows[i], ticks'[b][i])
    <3>1. s[i] \notin {Hole, NoClose}
      BY <2>2, <2>4 DEF Range
    <3>2. CASE s[i] = rows[i]
      <4>1. Len(rows) \in Nat /\ i \in 1..Len(rows)
        BY <1>0, <2>1, <2>4, RowsTyped
      <4>2. rows[i] \in Rational /\ rows[i] # CutRow
        BY <1>0, <2>1, <3>1, <3>2, <4>1, RowsTyped
      <4> QED BY <2>2, <3>2, <4>2, TicksAreNearest
    <3> QED BY <2>4, <3>1, <3>2
  <2> QED BY <1>1, <2>1, <2>4, <2>7, <2>8 DEF Replayed, Nearest, OffBy
<1>4. CASE b = c /\ ~ReadFile(c)
  <2>1. at[c] \in {"loop"} /\ ticks' = ticks
    BY <1>0, <1>4 DEF CacheTyped, BacktestStep, CheckExists, Download, OpenForWriting, WriteRow, Close,
                      ReadRaises, NextPrice, FeedExhausted, Kill
  <2> QED BY <1>2, <1>4, <2>1
<1>5. CASE b # c
  BY <1>0, <1>2, <1>5 DEF Footprint
<1> QED BY <1>3, <1>4, <1>5

(* What a backtest replays is the beginning of the series its file was     *)
(* downloaded for, price by price and to the nearest tick, for any number  *)
(* of backtests that write, truncate and read one file at once, except for *)
(* one row per killed backtest and for files that two requests share.      *)
THEOREM PricesStayInPlace == CacheSpec => []PricesInPlace
<1>1. CacheInit => PlaceInv
  BY DEF CacheInit, PlaceInv, CacheTyped, Places
<1>2. PlaceInv /\ [CacheNext]_cacheVars => PlaceInv'
  <2> SUFFICES ASSUME PlaceInv, [CacheNext]_cacheVars PROVE PlaceInv'
    OBVIOUS
  <2>1. CASE UNCHANGED cacheVars
    BY <2>1 DEF cacheVars, PlaceInv, CacheTyped, Placed, Replayed, CutAt, Shared, Path, Rows, Nearest, OffBy
  <2>2. CASE CacheNext
    <3>1. PICK c \in Backtests : BacktestStep(c) \/ Kill(c)
      BY <2>2 DEF CacheNext
    <3>2. CacheTyped' /\ Footprint(c) /\ request' = request
      BY <3>1, StepFootprint DEF PlaceInv, Footprint
    <3>3. \A b \in Backtests : Path(b)' = Path(b) /\ (Shared(Path(b))' <=> Shared(Path(b)))
      BY <3>2 DEF Path, Shared
    <3>4. ASSUME NEW b \in Backtests, at'[b] \in {"write", "read"} PROVE Path(b) \in DOMAIN file'
      <4>1. CASE Path(b) \in DOMAIN file
        BY <3>2, <4>1 DEF Footprint
      <4>2. CASE Path(b) \notin DOMAIN file
        <5>1. at[b] \notin {"write", "read"}
          BY <4>2 DEF PlaceInv
        <5>2. b = c
          BY <3>2, <3>4, <5>1 DEF Footprint
        <5>3. OpenForWriting(c)
          BY <3>1, <3>4, <4>2, <5>1, <5>2 DEF PlaceInv, CacheTyped, BacktestStep, CheckExists,
             Download, WriteRow, Close, ReadRaises, ReadFile, NextPrice, FeedExhausted, Kill
        <5> QED BY <5>2, <5>3, PutFileFacts DEF OpenForWriting
      <4> QED BY <4>1, <4>2
    <3>5. \A b \in Backtests : Path(b)' \in DOMAIN file' =>
             file'[Path(b)'] \in Seq(FileRows) /\ (~Shared(Path(b))' => Placed(b)')
      BY <3>1, <3>3, FilesStayPlaced
    <3>6. \A b \in Backtests : at'[b] \in {"loop", "ended"} /\ ~Shared(Path(b))' => Replayed(b)'
      BY <3>1, <3>3, ReadersStayPlaced
    <3> QED BY <3>2, <3>3, <3>4, <3>5, <3>6 DEF PlaceInv, FileRows
  <2> QED BY <2>1, <2>2
<1>3. PlaceInv => PricesInPlace
  BY DEF PlaceInv, PricesInPlace, Replayed, CutAt, Nearest
<1> QED BY <1>1, <1>2, <1>3, PTL DEF CacheSpec
=============================================================================

------------------------------ MODULE MCFeeds ------------------------------
(***************************************************************************)
(* LiveSession and HistoricalCache for TLC.  A behaviour is one of a live  *)
(* session or one of backtests.  For the backtests there is a note of      *)
(* whose downloads were disturbed: by a kill while the file was written,   *)
(* or by another backtest's having found no file, or half a file.          *)
(***************************************************************************)
EXTENDS LiveSession, HistoricalCache

VARIABLES
    driver,     \* which program runs
    disturbed   \* the paths whose file was written under disturbance

CONSTANTS b1, b2, b3

BacktestProcesses == {b1, b2, b3}

(* Two tickers, ES=F and ES/F, whose files have one name, the second with  *)
(* a price missing, and a third one.                                       *)
Tickers   == {"ES=F", "ES/F", "NQ=F"}
OneSeries == [t \in Tickers |->
                 CASE t = "ES=F" -> << Fraction(3, 8), Fraction(1, 1) >>
                   [] t = "ES/F" -> << Fraction(2, 1), NoClose >>
                   [] t = "NQ=F" -> << Fraction(-3, 8) >>]
SafeNames == [t \in Tickers |-> IF t = "NQ=F" THEN "NQ_F" ELSE "ES_F"]

Quote(last, bid, ask, close) == [last |-> last, bid |-> bid, ask |-> ask, close |-> close]

(* A trade off the tick, a midpoint between two ticks, half a book and a   *)
(* close, a close alone, and nothing at all.                               *)
MarketData == { Quote(Fraction(7, 16), Fraction(1, 4), Fraction(1, 2), Fraction(0, 1)),
                Quote(NaN, Fraction(-1, 4), Fraction(-1, 2), NaN),
                Quote(NaN, Fraction(1, 4), NaN, Fraction(3, 4)),
                Quote(NaN, NaN, NaN, NaN) }

NoLive == /\ ib = "stopped" /\ main = "ended" /\ deadline_passed = TRUE
          /\ connect_error = FALSE /\ connected = FALSE /\ subscribe_requested = FALSE
          /\ subscribed = FALSE /\ pending = FALSE
          /\ queue = <<>> /\ updates = <<>> /\ prices = <<>>

NoBacktest == /\ request = [b \in Backtests |-> "ES=F"]
              /\ at = [b \in Backtests |-> "check"]
              /\ row = [b \in Backtests |-> 1] /\ file = [p \in {} |-> <<>>]
              /\ ticks = [b \in Backtests |-> <<>>] /\ index = [b \in Backtests |-> 0]

MCInit == /\ disturbed = {}
          /\ \/ driver = "live" /\ LiveInit /\ NoBacktest
             \/ driver = "historical" /\ NoLive /\ CacheInit

MCLive(A) == driver = "live" /\ A /\ UNCHANGED <<cacheVars, driver, disturbed>>

(* Another backtest is busy with the file that b turns to.                 *)
Disturb(b) == IF Filling(Path(b)) \ {b} # {} THEN disturbed \cup {Path(b)} ELSE disturbed

MCStep(b) ==
    /\ BacktestStep(b)
    /\ disturbed' = IF at[b] \in {"check", "read"} THEN Disturb(b) ELSE disturbed

MCKill(b) ==
    /\ Kill(b)
    /\ disturbed' = IF at[b] = "write" THEN disturbed \cup {Path(b)} ELSE disturbed

MCHistorical(b) ==
    /\ driver = "historical"
    /\ MCStep(b) \/ MCKill(b)
    /\ UNCHANGED <<liveVars, driver>>

MCNext ==
    \/ MCLive(LiveNext)
    \/ \E b \in Backtests : MCHistorical(b)

mcVars == <<liveVars, cacheVars, driver, disturbed>>

MCSpec == MCInit /\ [][MCNext]_mcVars
            /\ WF_mcVars(MCLive(LiveMainStep)) /\ WF_mcVars(MCLive(DeadlinePasses))

(* A backtest that reads a file replays the series that was downloaded, to *)
(* the nearest tick, whether from the cache or not and whoever was killed  *)
(* before, unless the file was written under disturbance or is shared by   *)
(* two tickers.                                                            *)
WrongOnlyIfDisturbed ==
    \A b \in Backtests : at[b] \in {"loop", "ended"} /\ driver = "historical" =>
        \/ Path(b) \in disturbed \/ Shared(Path(b))
        \/ /\ Len(ticks[b]) = Len(Rows(b))
           /\ \A i \in 1..Len(ticks[b]) : OffBy(Rows(b)[i], ticks[b][i]) <= Rows(b)[i].den
=============================================================================

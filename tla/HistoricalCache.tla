-------------------------- MODULE HistoricalCache --------------------------
(***************************************************************************)
(* Historical backtests: run_backtest (run_historical_backtest.py) with    *)
(* HistoricalPriceFeed (historical_feed.py), which downloads a series of   *)
(* closing prices once and keeps it in a file of the cache directory.      *)
(*                                                                         *)
(* Several backtests may run, one after the other or at the same time, and *)
(* any of them may be killed at any point.  They share the cache directory *)
(* and nothing else.  A row of the file is one price; rows become visible  *)
(* to others when the writer's buffer is flushed, which is whenever it is  *)
(* full and at the close.  The file of another process's rows that was     *)
(* truncated meanwhile has a hole where the rows before the writer's       *)
(* position were, and a row cut off by a kill may read as another price,   *)
(* or not as a number.                                                     *)
(***************************************************************************)
EXTENDS TickMath, SequencesExt

CONSTANTS
    Backtests,      \* the backtest processes
    Requests,       \* (ticker, start, end, interval) of a backtest
    Series,         \* the closing prices the downloader has for a request
    CachePath,      \* _cache_path: the file of a request; = and / become _
    NoClose,        \* nan, for a row the downloader has no closing price for
    Hole, CutRow    \* what a damaged file may have for a row

ASSUME CacheAssumption ==
    \A r \in Requests : /\ r \in DOMAIN Series /\ r \in DOMAIN CachePath
                        /\ Series[r] \in Seq([num : Int, den : Nat \ {0}] \cup {NoClose})
                        /\ \A i \in 1..Len(Series[r]) : Series[r][i] \notin {Hole, CutRow}

VARIABLES
    request,    \* what each backtest was started for
    at,         \* where it is: "check", "download", "open", "write", "read",
                \* "loop", "ended", "raised" or "killed"
    row,        \* the next row it writes
    file,       \* the files: a sequence of rows, for the paths that exist
    ticks,      \* _prices of each backtest
    index       \* _index of each backtest

cacheVars == <<request, at, row, file, ticks, index>>

Path(b) == CachePath[request[b]]
Rows(b) == Series[request[b]]

PutFile(path, rows) == [p \in DOMAIN file \cup {path} |-> IF p = path THEN rows ELSE file[p]]

-----------------------------------------------------------------------------
(* _load_or_download. *)

CheckExists(b) ==
    /\ at[b] = "check"
    /\ at' = [at EXCEPT ![b] = IF Path(b) \in DOMAIN file THEN "read" ELSE "download"]
    /\ UNCHANGED <<request, row, file, ticks, index>>

(* The downloader returns the series, or raises.                           *)
Download(b) ==
    /\ at[b] = "download"
    /\ \E next \in {"open", "raised"} : at' = [at EXCEPT ![b] = next]
    /\ UNCHANGED <<request, row, file, ticks, index>>

(* open(path, "w"): the file is there, and empty.                          *)
OpenForWriting(b) ==
    /\ at[b] = "open"
    /\ file' = PutFile(Path(b), <<>>)
    /\ row' = [row EXCEPT ![b] = 1]
    /\ at' = [at EXCEPT ![b] = "write"]
    /\ UNCHANGED <<request, ticks, index>>

(* Slip: the file is written at its end.                                   *)
WithRowAtEnd(rows, i, price) == Append(rows, price)

(* A row written at a place of a file.                                     *)
WithRow(rows, i, price) ==
    [k \in 1..(IF Len(rows) < i THEN i ELSE Len(rows)) |->
        IF k = i THEN price ELSE IF k <= Len(rows) THEN rows[k] ELSE Hole]

WriteRow(b) ==
    /\ at[b] = "write" /\ row[b] <= Len(Rows(b))
    /\ file' = PutFile(Path(b), WithRow(file[Path(b)], row[b], Rows(b)[row[b]]))
    /\ row' = [row EXCEPT ![b] = row[b] + 1]
    /\ UNCHANGED <<request, at, ticks, index>>

(* Slip: the last row never leaves the buffer.                             *)
CloseUnflushed(b) ==
    /\ at[b] = "write" /\ row[b] >= Len(Rows(b))
    /\ at' = [at EXCEPT ![b] = "read"]
    /\ UNCHANGED <<request, row, file, ticks, index>>

Close(b) ==
    /\ at[b] = "write" /\ row[b] > Len(Rows(b))
    /\ at' = [at EXCEPT ![b] = "read"]
    /\ UNCHANGED <<request, row, file, ticks, index>>

(* A file with a hole cannot be read, and one with a row cut off perhaps   *)
(* not; round() raises for a nan, which was written and parsed without     *)
(* complaint, in this backtest and in every later one.                     *)
ReadRaises(b) ==
    /\ at[b] = "read" /\ Range(file[Path(b)]) \cap {Hole, CutRow, NoClose} # {}
    /\ at' = [at EXCEPT ![b] = "raised"]
    /\ UNCHANGED <<request, row, file, ticks, index>>

(* The prices of the file, in ticks; a row cut off may read as anything.   *)
ReadFile(b) ==
    /\ at[b] = "read" /\ Range(file[Path(b)]) \cap {Hole, NoClose} = {}
    /\ ticks' = [ticks EXCEPT ![b] =
           [i \in 1..Len(file[Path(b)]) |->
               IF file[Path(b)][i] = CutRow THEN 0 ELSE price_to_ticks(file[Path(b)][i])]]
    /\ at' = [at EXCEPT ![b] = "loop"]
    /\ UNCHANGED <<request, row, file, index>>

-----------------------------------------------------------------------------
(* run_backtest: next_price until it raises StopIteration. *)

(* The loop takes the next price and trades on it, or cannot.              *)
NextPrice(b) ==
    /\ at[b] = "loop" /\ index[b] < Len(ticks[b])
    /\ index' = [index EXCEPT ![b] = index[b] + 1]
    /\ \E next \in {"loop", "raised"} : at' = [at EXCEPT ![b] = next]
    /\ UNCHANGED <<request, row, file, ticks>>

(* The feed is exhausted: the final drain and the report follow.           *)
FeedExhausted(b) ==
    /\ at[b] = "loop" /\ index[b] = Len(ticks[b])
    /\ at' = [at EXCEPT ![b] = "ended"]
    /\ UNCHANGED <<request, row, file, ticks, index>>

-----------------------------------------------------------------------------
(* The backtest is killed, in the middle of a row perhaps.                 *)
Kill(b) ==
    /\ at[b] \notin {"ended", "raised", "killed"}
    /\ at' = [at EXCEPT ![b] = "killed"]
    /\ \/ UNCHANGED file
       \/ /\ at[b] = "write" /\ row[b] <= Len(Rows(b))
          /\ file' = PutFile(Path(b), WithRow(file[Path(b)], row[b], CutRow))
    /\ UNCHANGED <<request, row, ticks, index>>

CacheInit ==
    /\ request \in [Backtests -> Requests]
    /\ at = [b \in Backtests |-> "check"]
    /\ row = [b \in Backtests |-> 1]
    /\ file = [p \in {} |-> <<>>]
    /\ ticks = [b \in Backtests |-> <<>>]
    /\ index = [b \in Backtests |-> 0]

BacktestStep(b) ==
    \/ CheckExists(b)
    \/ Download(b)
    \/ OpenForWriting(b)
    \/ WriteRow(b)
    \/ Close(b)
    \/ ReadRaises(b)
    \/ ReadFile(b)
    \/ NextPrice(b)
    \/ FeedExhausted(b)

CacheNext == \E b \in Backtests : BacktestStep(b) \/ Kill(b)

CacheSpec == CacheInit /\ [][CacheNext]_cacheVars

-----------------------------------------------------------------------------
(* Properties. *)

(* The backtests that have found no file and are not through with it.      *)
Filling(path) ==
    {b \in Backtests : Path(b) = path /\ at[b] \in {"download", "open", "write"}}

(* The files that are named for more than one of the requests.             *)
Shared(path) == \E b, c \in Backtests : Path(b) = path /\ Path(c) = path /\ request[b] # request[c]

(* However many backtests write one file at once, truncate it under each   *)
(* other, read it while it is written or are killed, what a backtest       *)
(* replays is the beginning of the downloaded series, each price in its    *)
(* place and to the nearest tick: the file may be short or unreadable, but *)
(* the rows of several writers never mix.  The exceptions are one row for  *)
(* each backtest that was killed, and files that two requests share.       *)
PricesInPlace ==
    \A b \in Backtests : at[b] \in {"loop", "ended"} /\ ~Shared(Path(b)) =>
        /\ Len(ticks[b]) <= Len(Rows(b))
        /\ \A i \in 1..Len(ticks[b]) :
              \/ \E c \in Backtests : Path(c) = Path(b) /\ at[c] = "killed" /\ row[c] = i
              \/ OffBy(Rows(b)[i], ticks[b][i]) <= Rows(b)[i].den
=============================================================================

\* A live session with up to three updates, or three backtests, at the same
\* time or one after the other, any of which may be killed.
SPECIFICATION MCSpec
CONSTANTS
    TickerStates <- MarketData
    MaxUpdates = 3
    NaN = NaN
    b1 = b1
    b2 = b2
    b3 = b3
    Backtests <- BacktestProcesses
    Requests <- Tickers
    Series <- OneSeries
    CachePath <- SafeNames
    NoClose = NoClose
    Hole = Hole
    CutRow = CutRow
CHECK_DEADLOCK FALSE
INVARIANTS
    StartUpOrder
    FeedIsFaithful
    WrongOnlyIfDisturbed
    
PROPERTIES
    LiveSessionEnds

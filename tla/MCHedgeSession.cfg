\* Three ticks, of which the hedger may see any number unanswered; fills in up
\* to two pieces at two prices; a companion whose ids are the hedger's too.
SPECIFICATION MCSpec
CONSTANTS
    LegQuantities <- LongAndShort
    LegDeltas <- QuarterDeltas
    HedgeBand = 1
    MaxTicks = 3
    FillPrices = {1, 4}
    MaxPieces = 2
    MaxQuoterIds = 2
CHECK_DEADLOCK FALSE
INVARIANTS
    HedgeTypeOK
    PositionLagsFills
    LogIsCausal
    ReplayAgrees
    DrawdownIsWorstFall
    HedgeConverges
PROPERTIES
    BacktestEnds

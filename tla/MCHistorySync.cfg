SPECIFICATION Spec
CONSTANTS
    Holidays = {4}
    DayLength = 4
    MarketOpen = 1
    MarketClose = 2
    IstOffset = 1
    None = None
    Torn = Torn
    p1 = p1
    p2 = p2
    a = a
    b = b
    k1 = k1
    k2 = k2
    k3 = k3
    Symbols = {a, b}
    Keys = {k1, k2, k3}
    Syncs = {p1, p2}
    Ranges <- MCRanges
    Days = {3, 7, 8}
    Candles <- MCCandles
    Published <- MCPublished
    ChunkDays = 3
    DaysPerYear = 7
    SpikePercent = 25
    Target = a
    Masters <- MCMasters
    MaxRevisions = 1
    MaxCrashes = 1
SYMMETRY MCSymmetry
INVARIANTS
    EveryDayIsAskedForOnce
    NothingStoredIsLost
    ManifestTellsTheFiles
    RowsFollowSymbolOrKey
CHECK_DEADLOCK FALSE

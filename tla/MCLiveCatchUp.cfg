SPECIFICATION FairSpec
CONSTANTS
    Rates <- MCRates
    Scale = 100
    Segment = "DELIVERY"
    SlippageBps = 0
    RiskPct = 10
    MaxOpenPositions = 2
    MaxDailyLossPct = 3
    MaxConsecutiveErrors = 2
    TickSize = 5
    Instruments = {i1}
    Prices = {100}
    Directions = {"LONG", "EXIT"}
    Equities = {2000}
    LiveOrdersEnabled = TRUE
    KillThreshold = 1
    MaxRetries = 1
    MayReject = FALSE
    MayOmitAverage = FALSE
    MaxSignals = 2
    MaxFaults = 1
PROPERTY
    BooksCatchUp

SPECIFICATION Spec
CONSTANTS
    Rates <- MCRates
    Scale = 100
    Segment = "DELIVERY"
    SlippageBps = 100
    RiskPct = 10
    MaxOpenPositions = 2
    MaxDailyLossPct = 3
    MaxConsecutiveErrors = 2
    TickSize = 5
    Instruments = {i1}
    Universe = {i1}
    Prices = {100, 300}
    NoQuote = NoQuote
    Directions = {"LONG", "SHORT", "EXIT"}
    CliQtys = {7}
    CliTypes = {"MARKET", "LIMIT"}
    CanCancel = TRUE
    InitialCash = 2000
    MaxOrders = 3
    MaxErrors = 0
INVARIANTS
    LedgerMatchesTrades
    PositionMatchesOrders
PROPERTY
    KeepsLifecycle

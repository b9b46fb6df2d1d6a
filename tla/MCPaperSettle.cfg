SPECIFICATION FairSpec
CONSTANTS
    Rates <- MCRates
    Scale = 100
    Segment = "DELIVERY"
    SlippageBps = 100
    RiskPct = 10
    MaxOpenPositions = 2
    MaxDailyLossPct = 3
    MaxConsecutiveErrors = 2
    TickSize = 5
    Instruments = {i1}
    Universe = {i1}
    Prices = {100, 300}
    NoQuote = NoQuote
    Directions = {"LONG", "EXIT"}
    CliQtys = {12}
    CliTypes = {"MARKET"}
    CanCancel = FALSE
    InitialCash = 2000
    MaxOrders = 2
    MaxErrors = 0
PROPERTY
    RestingOrdersSettle

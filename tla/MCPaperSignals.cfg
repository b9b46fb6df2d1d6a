SPECIFICATION Spec
CONSTANTS
    Rates <- MCRates
    Scale = 100
    Segment = "DELIVERY"
    SlippageBps = 100
    RiskPct = 10
    MaxOpenPositions = 2
    MaxDailyLossPct = 3
    MaxConsecutiveErrors = 2
    TickSize = 5
    Instruments = {i1, i2}
    Universe = {i1, i2}
    Prices = {100, 300, 20000}
    NoQuote = NoQuote
    Directions = {"LONG", "EXIT"}
    CliQtys = {}
    CliTypes = {}
    CanCancel = FALSE
    InitialCash = 2000
    MaxOrders = 3
    MaxErrors = 2
INVARIANTS
    TypeOK
    BooksBalance
    CashNeverNegative
    LongOnlyNeverShort
PROPERTY
    HaltHolds

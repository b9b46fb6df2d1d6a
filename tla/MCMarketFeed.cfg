SPECIFICATION FairSpec
CONSTANTS
    Holidays = {2}
    DayLength = 4
    MarketOpen = 1
    MarketClose = 2
    IstOffset = 1
    i1 = i1
    i2 = i2
    Instruments = {i1, i2}
    Subscriptions <- MCSubscriptions
    Prices = {1, 2}
    Quantities = {1}
    Threshold = 2
    BaseDelay = 1
    MaxDelay = 2
    FirstDay = 1
    Horizon = 14
    MaxLag = 2
    MaxTicks = 2
    MaxAttempts = 2
    None = None
INVARIANTS
    TypeOK
    BarsAreOfTheTicks
    NoBarOutlivesItsSession
PROPERTIES
    AlarmMeansSilence
    EveryOutageIsAnnounced
    StreamComesBack

SPECIFICATION Spec
CONSTANTS
    Holidays = {}
    DayLength = 4
    MarketOpen = 1
    MarketClose = 2
    IstOffset = 1
    c1 = c1
    c2 = c2
    Combos <- MCCombos
    Valid = {c1}
    Ranges <- MCRanges
    OosPercents = {0, 30, 50}
    Stores <- MCStores
INVARIANT OutOfSampleIsLater
CHECK_DEADLOCK FALSE

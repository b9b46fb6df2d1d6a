SPECIFICATION Spec
CONSTANTS
    Rates <- MCRates
    Scale = 100
    Segment = "DELIVERY"
    SlippageBps = 100
    RiskPct = 90
    InitialCapital = 1000
    Symbols <- MCSymbols
    s1 = s1
    s2 = s2
    None = None
    Fast = 1
    Slow = 2
    RsiPeriod = 2
    Oversold = 40
    ExitLevel = 60
    AtrPeriod = 2
    AtrMultiplier = 1
    WindowMaxlen = 3
    ScriptedWarmup = 0
    Directions = {"LONG", "SHORT", "EXIT"}
    StrategiesUsed = {"sma_crossover", "rsi_mean_reversion", "ema_atr_stop", "scripted"}
    Histories <- MCHistories
    Length = 6
    ScriptLength = 6
INVARIANTS
    CashNeverNegative
    BooksAgreeWithBrokers
    IndicatorsAgree
    SameDecisions
    CurveFromCapitalToWorth
CHECK_DEADLOCK FALSE

SPECIFICATION Spec
CONSTANTS
    None = None
    p1 = p1
    p2 = p2
    s1 = s1
    s2 = s2
    u1 = u1
    Procs = {p1, p2}
    Universe <- MCUniverse
    Signals <- MCSignals
    Outputs <- MCOutputs
    Costs = {0, 2}
    VetoThreshold = 3
    DailyCallCap = 1
    MonthlyUsdCap = 2
    DaysPerMonth = 2
    Sources <- MCSources
    Items <- MCItems
    MaxDay = 2
    MaxCommands = 3
SYMMETRY MCSymmetry
INVARIANTS
    TypeOK
    SpendingStaysNearCaps
    EverySignalGetsItsRecommendation
    LatestCycleIsWhole
    NoSourceBlocksAnother
CHECK_DEADLOCK FALSE

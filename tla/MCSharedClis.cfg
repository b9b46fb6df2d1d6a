SPECIFICATION AccountSpec
CONSTANTS
    Rates <- MCRates
    Scale = 100
    Segment = "DELIVERY"
    SlippageBps = 0
    Services = {}
    Clis = {c1, c2}
    Prices = {100, 300}
    Qtys = {1, 4}
    InitialCash = 1000
    MaxFills = 3
INVARIANT
    PositionMatchesTrades

SPECIFICATION Spec
CONSTANTS
    RiskPct = 2
    MaxOpenPositions = 2
    MaxDailyLossPct = 3
    MaxConsecutiveErrors = 2
    TickSize = 5
    Humans = {h1, h2}
    Orchestrator = orch
    NoReason = NoReason
    MaxErrors = 3
INVARIANTS
    TypeOK
    TrippedHasReason
PROPERTY
    OnlyResetLifts

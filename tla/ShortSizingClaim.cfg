\* One caller that sells.
SPECIFICATION Spec
CONSTANTS
    Sym1 = Sym1
    Sym2 = Sym2
    Strat1 = Strat1
    Scheduler = Scheduler
    Request = Request
    NoSignal = NoSignal
    NoAccount = NoAccount
    Callers = {Scheduler}
    Symbols = {Sym1}
    Strategies = {Strat1}
    Signals <- OneSellSignal
    Accounts <- CalmAccount
    AvgCost <- UnitCost
    Target <- TargetOfOne
    MaxPositionPct = 10
    MaxDailyLossPct = 5
    QuantaPerShare = 1
    PositionSize = 1
    MinOrderQuantity = 1
    WholeExits = TRUE
    MaxDay = 1
    MaxOrders = 2
    MaxFaults = 0
    MaxRestarts = 0
INVARIANTS
    ShortSizingBound
CHECK_DEADLOCK FALSE

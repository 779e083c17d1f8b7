\* The scheduler alone; targets fixed, positions closed whole, every request
\* answered and every write committed.
SPECIFICATION Spec
CONSTANTS
    Sym1 = Sym1
    Sym2 = Sym2
    Strat1 = Strat1
    Scheduler = Scheduler
    Request = Request
    NoSignal = NoSignal
    NoAccount = NoAccount
    Callers = {Scheduler}
    Symbols = {Sym1, Sym2}
    Strategies = {Strat1}
    Signals <- TwoSymbolSignals
    Accounts <- CalmAccount
    AvgCost <- UnitCost
    Target <- SymbolTargets
    MaxPositionPct = 2
    MaxDailyLossPct = 5
    QuantaPerShare = 1
    PositionSize = 2
    MinOrderQuantity = 1
    WholeExits = TRUE
    MaxDay = 1
    MaxOrders = 6
    MaxFaults = 0
    MaxRestarts = 0
INVARIANTS
    TypeOK
    SizingBound
    ExposureBound
PROPERTIES
    SizingSpec
CHECK_DEADLOCK FALSE

\* Two callers at once over a midnight, while the loss limit is crossed and the
\* strategy is promoted and demoted, with one failure and one restart anywhere.
SPECIFICATION Spec
SYMMETRY CallerSymmetry
CONSTANTS
    Sym1 = Sym1
    Sym2 = Sym2
    Strat1 = Strat1
    Scheduler = Scheduler
    Request = Request
    NoSignal = NoSignal
    NoAccount = NoAccount
    Callers = {Scheduler, Request}
    Symbols = {Sym1}
    Strategies = {Strat1}
    Signals <- OneBuySignal
    Accounts <- MovingAccount
    AvgCost <- UnitCost
    Target <- TargetOfOne
    MaxPositionPct = 10
    MaxDailyLossPct = 5
    QuantaPerShare = 1
    PositionSize = 1
    MinOrderQuantity = 1
    WholeExits = TRUE
    MaxDay = 2
    MaxOrders = 2
    MaxFaults = 1
    MaxRestarts = 1
INVARIANTS
    HaltBoundsLateOrders
    DemotionBoundsLateOrders
    AuditTrail
CHECK_DEADLOCK FALSE

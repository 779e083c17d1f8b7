SPECIFICATION Spec
CONSTANTS
    Params <- MCParams
    SessionLength = 3
    Histories <- MCHistories
    Capital = 30
    SideFee = 2
    ShareFee = 1
    PositionSize = 5
    MaxFall = 20
INVARIANTS
    TypeOK
    Reconciled
    OnePositionAtATime
    DrawdownIsDeepest
    PassedTraded
    ExitsBracket
    CrossoverSide
    LiveAgrees
    LiveBreakoutIsFirst
    SupertrendSilent
CHECK_DEADLOCK FALSE

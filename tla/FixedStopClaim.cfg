SPECIFICATION Spec
CONSTANTS
    Params <- MCFixedStop
    SessionLength = 3
    Histories <- MCHistories
    Capital = 30
    SideFee = 2
    ShareFee = 1
    PositionSize = 5
    MaxFall = 20
INVARIANT
    FixedStop
CHECK_DEADLOCK FALSE

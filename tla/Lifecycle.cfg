SPECIFICATION Spec
CONSTANTS
    s1 = s1
    s2 = s2
    r1 = r1
    r2 = r2
    Lists <- MCLists
    Requests = {r1, r2}
    Fields = {"fast", "slow"}
    Values = {0, 1}
    Default <- MCDefault
    Grid <- MCGrid
    Raising = {s2}
    Found <- MCFound
    Asked = {s1}
INVARIANTS
    TypeOK
    LiveWasValidated
    DemotionHolds
    SettledParams
    UnsavedIsInForce
PROPERTIES
    StatusMovesByRequest
    CalibratedAgain

\* One bracket order, with one fault and one restart anywhere.
SPECIFICATION Spec
CONSTANTS
    Bracket = Bracket
    Plain = Plain
    Orders = {Bracket}
    Brackets = {Bracket}
    WriteLock = FALSE
    MaxFaults = 1
    MaxRestarts = 1
INVARIANTS
    TypeOK
    TradesBounded
    TradeForFill
    FilledRowIsTrue
PROPERTIES
    FillNotReopened
    StatusConverges
    FillsRecorded

\* One bracket order; no fault, no restart.
SPECIFICATION Spec
CONSTANTS
    Bracket = Bracket
    Plain = Plain
    Orders = {Bracket}
    Brackets = {Bracket}
    WriteLock = FALSE
    MaxFaults = 0
    MaxRestarts = 0
PROPERTIES
    ExitsClose

\* No fault, no restart: the fill races the insert of its row.
SPECIFICATION Spec
CONSTANTS
    Bracket = Bracket
    Plain = Plain
    Orders = {Plain}
    Brackets = {}
    WriteLock = FALSE
    MaxFaults = 0
    MaxRestarts = 0
INVARIANTS
    KnownIsRecorded

\* One writer at a time, as on SQLite; no fault, no restart.
SPECIFICATION Spec
CONSTANTS
    Bracket = Bracket
    Plain = Plain
    Orders = {Plain}
    Brackets = {}
    WriteLock = TRUE
    MaxFaults = 0
    MaxRestarts = 0
PROPERTIES
    FillsRecorded

SPECIFICATION Spec
CONSTANTS
    Container = {c1, c2}
    MaxEvents = 3
    MaxBreaks = 1
    Registers = TRUE
    None = None
CHECK_DEADLOCK FALSE
 
PROPERTIES LiveRowsStay StartsArrive

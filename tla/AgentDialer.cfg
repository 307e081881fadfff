SPECIFICATION DialerSpec
CONSTANTS
    MaxStarts = 2
    MaxSignals = 1
    MaxStreamBreaks = 2
    Ceiling = 2
    Faults = {"timeout", "addr", "close"}
    NoDial = NoDial
CHECK_DEADLOCK FALSE
INVARIANTS OneDialPerContainer
PROPERTIES ShutdownEndsDials 

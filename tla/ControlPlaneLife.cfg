CONSTANTS
    Cli = {c1, c2}
    Build = {b1, b2}
    buildOf <- TwoBuilds
    Ops = {"start", "down"}
    MissedThreshold = 2
    ListErrCeiling = 2
    MaxListErrs = 1
    MaxRetries = 1
    MaxFaults = 1
    MaxCuts = 1
    Faults = {"prune", "boot", "crash", "flush", "kill"}
    None = None
    c1 = c1
    c2 = c2
    c3 = c3
    b1 = b1
    b2 = b2
SPECIFICATION Spec
INVARIANTS StartedStaysEnforced CleanExitMeansFlushed 
PROPERTIES IdleStops
CHECK_DEADLOCK FALSE

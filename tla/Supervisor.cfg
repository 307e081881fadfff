CONSTANTS
    Ready = {r1, r2}
    Stage = {s1}
    Orphan = {o1}
    Budget = 2
    Faults = {"spawn", "getpgid", "wait4", "stuck", "listener", "panic"}
SPECIFICATION Spec
INVARIANTS DoneMeansDrained StatusSurvives
PROPERTIES MainEnds
CHECK_DEADLOCK FALSE

CONSTANTS
    MaxLives = 2
    MaxSessions = 2
    MaxCrashes = 1
    Faults = {"break", "hook", "timeout", "spawn", "die", "hydra", "lost", "rpc", "slow"}
    None = None
SPECIFICATION Spec
INVARIANTS InitFirst NoReplay
 
CHECK_DEADLOCK FALSE

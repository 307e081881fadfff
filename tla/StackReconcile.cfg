SPECIFICATION Spec
CONSTANTS
    Call = {k1, k2, k3}
    Op = {"write", "same", "reload", "init", "remove"}
    Faults = {"config", "docker", "health", "routes", "crash"}
    Exits = {"envoy"}
    MaxFaults = 1
    None = None
CHECK_DEADLOCK FALSE
INVARIANTS RestartedMeansLive QuietMeansCurrent
PROPERTIES WritesArrive

\* Rule changes, sweeps, answers, a restart and a failing map operation.
CONSTANTS
    d1 = d1  i1 = i1  i2 = i2  u1 = u1
    None = None
    Domain = {d1}
    Ip = {i1}
    Svc = {u1}
    Udp = {u1}
    Rule <- BothRules
    Resolves <- OneAddress
    TTL = 1
    CacheSize = 1
    Faults = {"clear", "fill", "orphan", "sweep", "restart", "enforce"}
    MaxTime = 2
    MaxAims = 1
    MaxChanges = 2
    MaxFaults = 1
SPECIFICATION Spec
INVARIANTS ResolvedMeansRouted SeedsStay  
PROPERTIES ExpiredGo
CHECK_DEADLOCK FALSE

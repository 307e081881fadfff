\* A container that never restarts; everything but the restoring Enable may fail.
CONSTANTS
    c1 = c1
    g1 = g1
    k1 = k1
    k2 = k2
    k3 = k3
    None = None
    Container = {c1}
    Cgroup = {g1}
    Call = {k1, k2, k3}
    Op = {"enable", "disable", "bypass", "init", "remove"}
    Faults = {"docker", "install", "disable", "stack"}
    Recycle = FALSE
SPECIFICATION FairSpec
INVARIANTS  EntriesAreLive
 
CHECK_DEADLOCK FALSE

SPECIFICATION Spec
CONSTANTS
    p1 = p1
    p2 = p2
    p3 = p3
    p4 = p4
    Proc = {p1, p2, p3}
    None = None
    Host <- OneHost
    Waiters = {}
    HeartbeatOn = TRUE
    Interval = 1
    TTL = 2
    MaxGrace = 1
    MaxMissed = 0
    Faults = {"inflight"}
SYMMETRY Symmetric
INVARIANTS MutualExclusion

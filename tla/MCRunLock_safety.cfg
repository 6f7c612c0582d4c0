SPECIFICATION Spec
CONSTANTS
    p1 = p1
    p2 = p2
    p3 = p3
    p4 = p4
    Proc = {p1, p2, p3, p4}
    None = None
    Host <- TwoHosts
    Waiters = {p1, p2, p3, p4}
    HeartbeatOn = TRUE
    Interval = 1
    TTL = 3
    MaxGrace = 1
    MaxMissed = 2
    Faults = {"crash", "beatfail", "diskfull"}
SYMMETRY Symmetric
INVARIANTS MutualExclusion HolderOwnsLock StaleMeansGone
PROPERTIES RecoveryJustified ImplementsGuard

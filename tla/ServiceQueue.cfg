SPECIFICATION Spec
CONSTANTS
    Threads = {t1, t2}
    Sessions = {s1, s2}
    None = None
    Kids = {k1}
    MaxTime = 2
    ResendTime = 1
    WaitTimeout = 2
    RekeyAfterTime = 2
    AssemblyTimeout = 1
    CacheSize = 1
SYMMETRY Symmetry
CHECK_DEADLOCK FALSE
INVARIANT QueueIndexed
INVARIANT DeadlinesKept
INVARIANT HandshakesPending
